------------------------- MODULE RestoreJournalProofs -------------------------
(***************************************************************************)
(* Proofs about RestoreJournal, for any number of restores, crashes and    *)
(* system calls that fail.                                                 *)
(*                                                                         *)
(* The invariant says three things of a restore at every step and in every *)
(* state of its journal: which files each place may hold (MainsInv to      *)
(* StagedInv, true whatever fails); that a file of a ledger in use is with *)
(* its main file, away from what the steps to come remove (KeepIfNew); and *)
(* that the groups have the shape the branches of ReconcileOnStartup look  *)
(* for (ShapeIf), so that without a failing call none of them blocks       *)
(* (CalmIf).                                                               *)
(***************************************************************************)
EXTENDS RestoreJournal, TLAPS

-----------------------------------------------------------------------------
(* The inductive invariant *)

(* Types, in five parts. *)
JournalRecords == [state : JournalStates, n : 1 .. restores, originalPresent : BOOLEAN]
MoveRecords == [src : Places, dst : Places, todo : SUBSET Parts, done : SUBSET Parts,
                undo : BOOLEAN, strict : BOOLEAN, ok : Labels, fail : Labels]
FileTypeOK == file \in [Places -> [Parts -> Versions \union {None, Blank}]]
JournalTypeOK == journal = NoJournal \/ journal \in JournalRecords
MoveTypeOK == pc \in Labels /\ mv \in MoveRecords
CountTypeOK ==
    /\ session \in {"none", "open", "closed"} /\ starting \in BOOLEAN
    /\ restores \in 0 .. MaxRestores /\ crashes \in 0 .. MaxCrashes /\ faults \in 0 .. MaxFaults
GhostTypeOK ==
    parts \in [Versions -> SUBSET Parts] /\ rotated \subseteq Versions /\ superseded \in BOOLEAN
Typed == FileTypeOK /\ JournalTypeOK /\ MoveTypeOK /\ CountTypeOK /\ GhostTypeOK

(* A file that is part of a ledger that was in use. *)
Needed(v, x) == v \in Versions /\ "main" \in parts[v] /\ x \in parts[v]
Spare(pl) == \A x \in Parts : ~Needed(file[pl][x], x)
Swapped == {"original-renamed", "replacement-installed", "verified", "quarantining"}

(* The files of each place, whatever was interrupted: the main files, the staging
   group, and the groups of restores to come. *)
MainsInv ==
    /\ \A pl \in Places : file[pl]["main"] \in {None, Empty} \union (0 .. restores)
    /\ \A p, q \in Places : p # q /\ file[p]["main"] = file[q]["main"]
                              => file[p]["main"] \in {None, Empty}
    /\ \A pl \in Places : file[pl]["main"] = 0 => "main" \in parts[0]
StagingInv ==
    /\ file[Staging]["main"] \in {None} \union (1 .. restores)
    /\ file[Staging]["main"] # None => parts[file[Staging]["main"]] = {}
    /\ \A s \in Sidecars : file[Staging][s] \in {None, Blank}
    /\ pc = "prepare" => file[Staging]["main"] = restores
UnusedInv ==
    \A k \in 1 .. MaxRestores : k > restores \/ (k = restores /\ pc = "prepare") =>
        \A x \in Parts : ~Has(Safety(k), x) /\ ~Has(Failed(k), x)

(* Packages of restores to come are no ledgers in use; neither is a replacement, which has
   no sidecars of another database. *)
FreshInv == \A v \in Versions : v > restores /\ v # Empty => parts[v] = {}
ReplacementInv ==
    /\ journal.state \in Swapped /\ Has(Live, "main") =>
          file[Live]["main"] \in 1 .. restores /\ parts[file[Live]["main"]] = {}
    /\ journal.state \in {"original-renamed", "replacement-installed", "verified"} =>
          \A s \in Sidecars : file[Live][s] \in {None, Blank, file[Live]["main"]}

(* The session and its database. *)
SessionInv ==
    /\ session = "open" =>
          /\ pc \in {"running", "prepare", "close", "quit"}
          /\ journal.state \in {"none", "prepared"} /\ Has(Live, "main")
          /\ \A x \in Parts : file[Live][x] = file[Live]["main"]
          /\ "main" \in parts[file[Live]["main"]]
    /\ pc \in {"running", "close"} => session = "open"
    /\ pc = "close" => parts[file[Live]["main"]] = {"main"}

(* The journal at each step. *)
JournalInv ==
    /\ pc \in {"running", "open"} => journal.state = "none"
    /\ pc = "prepare" => ~starting
    /\ pc \in {"close", "rename", "renamed", "renamefailed"} =>
          journal.state = "prepared" /\ ~starting
    /\ pc = "close" => journal.originalPresent
    /\ pc \in {"install", "installfailed"} => journal.state = "original-renamed" /\ ~starting
    /\ pc = "installed" => journal.state = "original-renamed"
    /\ pc \in {"reconcile", "open"} => starting
    /\ pc = "installstaged" =>
          journal.state \in {"prepared", "original-renamed"} /\ starting /\ FirstRestore
    /\ pc = "installnow" => journal.state = "original-renamed" /\ starting
    /\ pc \in {"verify", "writequarantine"} => starting /\
          journal.state \in {"original-renamed", "replacement-installed", "verified"}
    /\ pc \in {"reset", "resetclose", "writeverified"} => starting /\
          journal.state \in {"original-renamed", "replacement-installed"}
    /\ pc = "finalize" => starting /\ journal.state = "verified"
    /\ pc = "quarantine" => starting /\ journal.state = "quarantining"
    /\ pc = "beginrollback" => journal.state \notin {"none", "rolling-back"}
    /\ pc = "rollback" => journal.state = "rolling-back"
    /\ pc \in {"finish", "unjournal"} => journal.state \in {"prepared", "verified", "rolling-back"}

(* The live group at each step. *)
LiveInv ==
    /\ pc \in {"renamed", "install", "installstaged", "installnow"} => ~GroupExists(Live)
    /\ journal.state = "prepared" /\ FirstRestore => ~GroupExists(Live) /\ pc # "moving"
    /\ pc \in {"reset", "resetclose", "writeverified", "finalize", "finish", "unjournal"} =>
          Has(Live, "main")
    /\ pc = "resetclose" => \A x \in Parts : file[Live][x] = file[Live]["main"]

(* The move of a file group under way. *)
MoveIs(src, dst, strict, ok, fail, states) ==
    /\ mv.src = src /\ mv.dst = dst /\ mv.strict = strict /\ mv.ok = ok /\ mv.fail = fail
    /\ journal.state \in states
OwnMove ==
    \/ MoveIs(Live, MySafety, FALSE, "renamed", "renamefailed", {"prepared"}) /\ ~starting
    \/ MoveIs(Staging, Live, FALSE, "installed", "installfailed", {"original-renamed"})
       /\ ~starting
    \/ MoveIs(Live, MySafety, TRUE, "beginrollback", "blocked", {"prepared", "original-renamed"})
       /\ starting
    \/ MoveIs(MySafety, Live, TRUE, "finish", "blocked", {"prepared"})
       /\ starting /\ Has(Live, "main")
    \/ MoveIs(Staging, Live, TRUE, "verify", "blocked", {"original-renamed"})
       /\ starting /\ Has(Live, "main")
    \/ MoveIs(Staging, Live, FALSE, "installed", "blocked", {"original-renamed"}) /\ starting
    \/ MoveIs(Live, MyFailed, FALSE, "beginrollback", "blocked", {"quarantining"}) /\ starting
    \/ MoveIs(Live, MyFailed, TRUE, "beginrollback", "blocked", {"quarantining"}) /\ starting
    \/ MoveIs(MySafety, Live, FALSE, "finish", GiveUp, {"rolling-back"})
       /\ (Has(Live, "main") \/ Has(MySafety, "main"))
    \/ MoveIs(MySafety, Live, TRUE, "finish", GiveUp, {"rolling-back"}) /\ Has(Live, "main")
MoveFiles ==
    /\ \A x \in mv.todo : Has(mv.src, x) /\ ~Has(mv.dst, x)
    /\ \A x \in mv.done : Has(mv.dst, x) /\ ~Has(mv.src, x)
    /\ ~mv.undo => \A x \in Parts : Has(mv.src, x) => x \in mv.todo
    /\ ~mv.strict => \A x \in Parts : Has(mv.dst, x) => x \in mv.done
    /\ mv.strict => "main" \notin mv.todo \union mv.done /\ ~Has(mv.src, "main")
MoveContents ==
    /\ mv.src = Staging => \A s \in Sidecars \intersect mv.done : file[Live][s] = Blank
    /\ mv.dst = MySafety /\ journal.state = "original-renamed" =>
          \A x \in mv.done : file[MySafety][x] = Blank
    /\ mv.dst = MyFailed /\ "main" \in mv.done =>
          file[MyFailed]["main"] \in 1 .. restores /\ parts[file[MyFailed]["main"]] = {}
MoveInv ==
    /\ pc # "moving" => mv = NoMove
    /\ pc = "moving" => OwnMove /\ MoveFiles /\ MoveContents

(* The staged main file is there until it is installed. *)
StagedInv ==
    /\ pc \in {"close", "rename", "renamed", "install", "installnow"} => Has(Staging, "main")
    /\ pc = "moving" /\ mv.ok = "renamed" => Has(Staging, "main")
    /\ pc = "moving" /\ mv.ok = "installed" => Has(Staging, "main") \/ Has(Live, "main")
    /\ pc = "installed" => Has(Live, "main")

(* No needed file is where a step may remove or overwrite it. *)
OneGroup(P) ==
    \A pl \in P, s \in Sidecars : Needed(file[pl][s], s) =>
        \E q \in P : file[q]["main"] = file[pl][s]
Settled == journal.state = "none" \/ pc \in {"finish", "unjournal"}
GroupsInv ==
    /\ Settled => OneGroup({Live})
    /\ journal.state \in Swapped => Spare(Live)
    /\ journal.state # "none" => OneGroup({Live, MySafety}) /\ Spare(MyFailed)
KeepIfNew == ~superseded => Kept /\ GroupsInv

(* The files of one database are all there, in one place or split over two. *)
Whole(P, v) ==
    \A s \in Sidecars : /\ \A pl \in P : file[pl][s] \in {None, Blank, v}
                        /\ s \in parts[v] => \E pl \in P : file[pl][s] = v
Rotated(v) == superseded \/ v \notin 1 .. MaxRestores \/ v \in rotated
Fine(P, v) == Whole(P, v) /\ Rotated(v)
Apart(p, q) == \A x \in Parts : ~(Has(p, x) /\ Has(q, x))
Vacant(pl) == \A x \in Parts : ~Has(pl, x)

(* With no restore under way, or one whose journal is about to go: the live database is whole
   and its tracking was reset, or there never was one. *)
SettledShape ==
    Settled =>
        /\ Has(Live, "main") => Fine({Live}, file[Live]["main"])
        /\ ~Has(Live, "main") => Vacant(Live) /\ \A w \in Versions : "main" \notin parts[w]
(* The original is on its way between the live and the safety group, each file in one of
   the two. *)
PreparedShape ==
    journal.state = "prepared" =>
        /\ FirstRestore => Vacant(MySafety)
        /\ ~FirstRestore =>
              /\ Has(Live, "main") <=> ~Has(MySafety, "main")
              /\ Has(Live, "main") => Fine({Live, MySafety}, file[Live]["main"])
              /\ Has(MySafety, "main") => Fine({Live, MySafety}, file[MySafety]["main"])
              /\ Apart(Live, MySafety)
        /\ pc \in {"close", "rename"} => Vacant(MySafety)
(* The original is whole in the safety group. *)
SwappedShape ==
    journal.state \in Swapped =>
        /\ FirstRestore => Vacant(MySafety)
        /\ ~FirstRestore => Has(MySafety, "main")
        /\ Has(MySafety, "main") => Fine({MySafety}, file[MySafety]["main"])
        /\ journal.state = "original-renamed" =>
              /\ ~Has(Live, "main") => Vacant(Live)
              /\ ~(pc = "moving" /\ mv.src = Live)
        /\ (journal.state = "verified" \/ pc = "writeverified") /\ Has(Live, "main")
              => file[Live]["main"] \in rotated
        /\ journal.state = "quarantining" \/ pc = "writequarantine" => Has(MySafety, "main")
(* The original is whole in the safety group until its main file is back, and then between
   the two. *)
RollShape ==
    /\ journal.state = "rolling-back" =>
        /\ Has(MySafety, "main") =>
              Fine({MySafety}, file[MySafety]["main"]) /\ (~Has(Live, "main") => Vacant(Live))
        /\ ~Has(MySafety, "main") =>
              /\ Has(Live, "main") /\ Apart(Live, MySafety)
              /\ Fine({Live, MySafety}, file[Live]["main"])
    /\ pc = "beginrollback" \/ (pc = "moving" /\ mv.ok = "beginrollback") => Has(MySafety, "main")
    /\ pc = "beginrollback" /\ ~Has(Live, "main") => Vacant(Live)
ShapeInv == SettledShape /\ PreparedShape /\ SwappedShape /\ RollShape
ShapeIf == WasWhole /\ (~superseded \/ faults = 0) => ShapeInv

(* As long as no call fails: nothing is quarantined or undone, startup is not blocked, and a
   replacement has its main file in the staging or the live group. *)
CalmInv ==
    /\ pc = "quit" => journal.state = "replacement-installed"
    /\ pc = "prepare" => journal.state \in {"none", "replacement-installed"}
    /\ pc = "blocked" => ~starting /\ journal.state = "none"
    /\ pc \notin {"renamefailed", "installfailed", "writequarantine"}
    /\ journal.state # "quarantining" /\ ~mv.undo
    /\ journal.state \in {"replacement-installed", "verified"} \/ pc = "verify" =>
          Has(Live, "main")
    /\ pc \in {"beginrollback", "rollback", "finish", "unjournal"}
          \/ (pc = "moving" /\ journal.state = "rolling-back") => starting
    /\ pc = "beginrollback" \/ (journal.state = "rolling-back" /\ Has(MySafety, "main")) =>
          Vacant(Live)
    /\ journal.state \in {"prepared", "original-renamed"} /\ FirstRestore /\ ~Has(Live, "main")
          => Has(Staging, "main")
    /\ journal.state = "original-renamed" =>
          /\ Apart(Live, Staging)
          /\ pc \in {"verify", "reset", "resetclose", "writeverified"} => Vacant(Staging)
CalmIf == WasWhole /\ faults = 0 => CalmInv

-----------------------------------------------------------------------------
(* Places, files and journals *)

(* The typing parts are the type invariant. *)
LEMMA TypedIsTypeOK == Typed <=> TypeOK
BY DEF Typed, TypeOK, FileTypeOK, JournalTypeOK, MoveTypeOK, CountTypeOK, GhostTypeOK,
   JournalRecords, MoveRecords

(* The places are different from each other. *)
LEMMA PlacesDiffer ==
    /\ Live \in Places /\ Staging \in Places /\ Live # Staging
    /\ \A n \in 1 .. MaxRestores :
          /\ Safety(n) \in Places /\ Failed(n) \in Places /\ Safety(n) # Failed(n)
          /\ Safety(n) \notin {Live, Staging} /\ Failed(n) \notin {Live, Staging}
    /\ \A m, n \in 1 .. MaxRestores :
          /\ Safety(m) = Safety(n) => m = n
          /\ Failed(m) = Failed(n) => m = n
          /\ Safety(m) # Failed(n)
BY DEF Places, Live, Staging, Safety, Failed

(* A part is the main file or a sidecar. *)
LEMMA PartsAre ==
    /\ "main" \in Parts /\ Sidecars \subseteq Parts /\ "main" \notin Sidecars
    /\ Parts = {"main", "wal", "shm"} /\ Sidecars = {"wal", "shm"}
BY DEF Parts, Sidecars

(* No version is the mark of a missing or a blank file. *)
LEMMA VersionsAre ==
    /\ None \notin Versions /\ Blank \notin Versions /\ None # Blank /\ Empty \in Versions
    /\ None # Empty /\ Blank # Empty
    /\ 0 \in Versions /\ 1 .. MaxRestores \subseteq Versions /\ Empty \notin 0 .. MaxRestores
    /\ None \notin 0 .. MaxRestores /\ Blank \notin 0 .. MaxRestores /\ Versions \subseteq Int
BY RestoreBounds DEF None, Blank, Empty, Versions

(* The groups of the restore under way. *)
LEMMA MyPlaces ==
    ASSUME Typed, journal.state # "none"
    PROVE  /\ journal.n \in 1 .. MaxRestores /\ journal.n <= restores
           /\ MySafety \in Places /\ MyFailed \in Places /\ MySafety # MyFailed
           /\ MySafety \notin {Live, Staging} /\ MyFailed \notin {Live, Staging}
<1>1. journal.n \in 1 .. restores /\ restores \in 0 .. MaxRestores
  BY DEF Typed, JournalTypeOK, JournalRecords, NoJournal, CountTypeOK
<1>2. journal.n \in 1 .. MaxRestores /\ journal.n <= restores
  BY <1>1, RestoreBounds
<1> QED  BY <1>2, PlacesDiffer DEF MySafety, MyFailed

(* The first and the last part of a set are in it; the main file is first to go and
   last to come back. *)
LEMMA FirstIsIn ==
    ASSUME NEW S \in SUBSET Parts, S # {}
    PROVE  First(S) \in S /\ ("main" \in S => First(S) = "main")
BY PartsAre DEF First

(* ... and what a rollback takes back last is the main file. *)
LEMMA LastIsIn ==
    ASSUME NEW S \in SUBSET Parts, S # {}
    PROVE  Last(S) \in S /\ (Last(S) = "main" => S = {"main"})
BY PartsAre DEF Last

(* A rename moves one file. *)
LEMMA RenameMoves ==
    ASSUME FileTypeOK, NEW src \in Places, NEW dst \in Places, src # dst, NEW x \in Parts,
           Rename(src, dst, x)
    PROVE  /\ file'[dst][x] = file[src][x] /\ file'[src][x] = None
           /\ \A pl \in Places, y \in Parts :
                 (pl \notin {src, dst} \/ y # x) => file'[pl][y] = file[pl][y]
           /\ \A pl \in Places \ {src, dst} : file'[pl] = file[pl]
           /\ FileTypeOK'
<1>1. file' = [file EXCEPT ![dst][x] = file[src][x], ![src][x] = None]
  BY DEF Rename
<1>2. /\ file'[dst] = [file[dst] EXCEPT ![x] = file[src][x]]
      /\ file'[src] = [file[src] EXCEPT ![x] = None]
      /\ \A pl \in Places \ {src, dst} : file'[pl] = file[pl]
      /\ DOMAIN file' = Places
  BY <1>1 DEF FileTypeOK
<1>3. /\ file[dst] \in [Parts -> Versions \union {None, Blank}]
      /\ file[src] \in [Parts -> Versions \union {None, Blank}]
  BY DEF FileTypeOK
<1>4. /\ file'[dst] \in [Parts -> Versions \union {None, Blank}]
      /\ file'[src] \in [Parts -> Versions \union {None, Blank}]
  BY <1>2, <1>3
<1>5. FileTypeOK'
  BY <1>1, <1>2, <1>4 DEF FileTypeOK
<1> QED  BY <1>2, <1>3, <1>5

(* What the other steps do to the files. *)
LEMMA OpenGroupIs ==
    ASSUME FileTypeOK, file' = OpenGroup
    PROVE  /\ \A x \in Parts : file'[Live][x] = file[Live]["main"]
           /\ \A pl \in Places \ {Live} : file'[pl] = file[pl]
           /\ FileTypeOK'
BY PlacesDiffer, PartsAre DEF OpenGroup, FileTypeOK

(* Closing the session takes the sidecars of the live group away. *)
LEMMA CloseGroupIs ==
    ASSUME FileTypeOK, file' = CloseGroup
    PROVE  /\ file'[Live]["main"] = file[Live]["main"]
           /\ \A s \in Sidecars : file'[Live][s] = None
           /\ \A pl \in Places \ {Live} : file'[pl] = file[pl]
           /\ FileTypeOK'
<1>1. NoFiles \in [Parts -> Versions \union {None, Blank}]
  BY DEF NoFiles
<1>2. [NoFiles EXCEPT !["main"] = file[Live]["main"]] \in [Parts -> Versions \union {None, Blank}]
  BY <1>1, PlacesDiffer, PartsAre DEF FileTypeOK
<1>3. /\ file'[Live] = [NoFiles EXCEPT !["main"] = file[Live]["main"]]
      /\ \A pl \in Places \ {Live} : file'[pl] = file[pl]
      /\ FileTypeOK'
  BY <1>2, PlacesDiffer DEF CloseGroup, FileTypeOK
<1> QED  BY <1>3, PartsAre DEF NoFiles

(* A failure path removes the main file of the staging group alone. *)
LEMMA RemoveStagingMainIs ==
    ASSUME FileTypeOK, RemoveStagingMain
    PROVE  /\ file'[Staging]["main"] = None
           /\ \A s \in Sidecars : file'[Staging][s] = file[Staging][s]
           /\ \A pl \in Places \ {Staging} : file'[pl] = file[pl]
           /\ FileTypeOK'
<1>1. file[Staging] \in [Parts -> Versions \union {None, Blank}]
  BY PlacesDiffer DEF FileTypeOK
<1>2. [file[Staging] EXCEPT !["main"] = None] \in [Parts -> Versions \union {None, Blank}]
  BY <1>1
<1>3. /\ file'[Staging] = [file[Staging] EXCEPT !["main"] = None]
      /\ \A pl \in Places \ {Staging} : file'[pl] = file[pl]
      /\ FileTypeOK'
  BY <1>2, PlacesDiffer DEF RemoveStagingMain, FileTypeOK
<1> QED  BY <1>1, <1>3, PartsAre

(* The package is staged under the number of the new restore. *)
LEMMA InstallRestoreIs ==
    ASSUME Typed, InstallRestore
    PROVE  /\ restores + 1 \in 1 .. MaxRestores
           /\ file'[Staging]["main"] = restores + 1
           /\ \A s \in Sidecars : \/ file'[Staging][s] = file[Staging][s]
                                  \/ file'[Staging][s] = Blank /\ file[Staging][s] = None
           /\ \A pl \in Places \ {Staging} : file'[pl] = file[pl]
           /\ FileTypeOK'
<1>1. PICK S \in {{}, Sidecars} :
         file' = [file EXCEPT ![Staging] = [x \in Parts |->
                    IF x = "main" THEN restores + 1
                    ELSE IF x \in S /\ file[Staging][x] = None THEN Blank
                    ELSE file[Staging][x]]]
  BY DEF InstallRestore
<1>2. restores + 1 \in 1 .. MaxRestores /\ restores + 1 \in Versions
  BY RestoreBounds, VersionsAre DEF Typed, CountTypeOK, InstallRestore
<1>3. file[Staging] \in [Parts -> Versions \union {None, Blank}]
  BY PlacesDiffer DEF Typed, FileTypeOK
<1>4. /\ file'[Staging] = [x \in Parts |->
                    IF x = "main" THEN restores + 1
                    ELSE IF x \in S /\ file[Staging][x] = None THEN Blank
                    ELSE file[Staging][x]]
      /\ \A pl \in Places \ {Staging} : file'[pl] = file[pl]
  BY <1>1, PlacesDiffer DEF Typed, FileTypeOK
<1>5. file'[Staging] \in [Parts -> Versions \union {None, Blank}]
  BY <1>2, <1>3, <1>4
<1>6. FileTypeOK'
  BY <1>1, <1>5, PlacesDiffer DEF Typed, FileTypeOK
<1> QED  BY <1>2, <1>4, <1>6, PartsAre

(* The verification leaves at most blank sidecars. *)
LEMMA VerifySucceedsIs ==
    ASSUME FileTypeOK, VerifySucceeds
    PROVE  /\ file'[Live]["main"] = file[Live]["main"]
           /\ \A s \in Sidecars : \/ file'[Live][s] = file[Live][s]
                                  \/ file'[Live][s] = Blank /\ file[Live][s] = None
           /\ \A pl \in Places \ {Live} : file'[pl] = file[pl]
           /\ FileTypeOK'
<1>1. PICK S \in {{}, Sidecars} :
         file' = [file EXCEPT ![Live] = [x \in Parts |->
                    IF x \in S /\ @[x] = None THEN Blank ELSE @[x]]]
  BY DEF VerifySucceeds
<1>2. file[Live] \in [Parts -> Versions \union {None, Blank}]
  BY PlacesDiffer DEF FileTypeOK
<1>3. /\ file'[Live] = [x \in Parts |->
                          IF x \in S /\ file[Live][x] = None THEN Blank ELSE file[Live][x]]
      /\ \A pl \in Places \ {Live} : file'[pl] = file[pl]
  BY <1>1, PlacesDiffer DEF FileTypeOK
<1>4. file'[Live] \in [Parts -> Versions \union {None, Blank}]
  BY <1>2, <1>3
<1>5. FileTypeOK'
  BY <1>1, <1>4, PlacesDiffer DEF FileTypeOK
<1> QED  BY <1>3, <1>5, PartsAre

(* sqlite.Open opens the live main file, or bootstraps an empty one. *)
LEMMA OpenLiveIs ==
    ASSUME Typed, MainsInv, OpenLive
    PROVE  \E v \in Versions :
              /\ v = file[Live]["main"] \/ (file[Live]["main"] = None /\ v = Empty)
              /\ \A x \in Parts : file'[Live][x] = v
              /\ \A pl \in Places \ {Live} : file'[pl] = file[pl]
              /\ parts' = [parts EXCEPT ![v] = Parts]
              /\ FileTypeOK'
<1>1. PICK v : /\ v = IF Has(Live, "main") THEN file[Live]["main"] ELSE Empty
               /\ file' = [file EXCEPT ![Live] = [x \in Parts |-> v]]
               /\ parts' = [parts EXCEPT ![v] = Parts]
  BY DEF OpenLive
<1>2. file[Live]["main"] \in {None, Empty} \union (0 .. restores)
  BY PlacesDiffer DEF MainsInv
<1>3. 0 .. restores \subseteq Versions
  BY RestoreBounds DEF Typed, CountTypeOK, Versions, Empty
<1>4. v \in Versions
  BY <1>1, <1>2, <1>3, VersionsAre DEF Has
<1>5. v = file[Live]["main"] \/ (file[Live]["main"] = None /\ v = Empty)
  BY <1>1 DEF Has
<1>6. /\ file'[Live] = [x \in Parts |-> v]
      /\ \A pl \in Places \ {Live} : file'[pl] = file[pl]
      /\ FileTypeOK'
  BY <1>1, <1>4, PlacesDiffer DEF Typed, FileTypeOK
<1>7. \A x \in Parts : file'[Live][x] = v
  BY <1>6
<1> QED  BY <1>1, <1>4, <1>5, <1>6, <1>7, Zenon

(* A move is between two places of the restore under way. *)
LEMMA MovePlaces ==
    ASSUME Typed, MoveInv, pc = "moving"
    PROVE  /\ journal.state # "none"
           /\ mv.src \in Places /\ mv.dst \in Places /\ mv.src # mv.dst /\ mv.dst # Staging
           /\ Live \in {mv.src, mv.dst} /\ (mv.src = Staging => mv.dst = Live)
           /\ {mv.src, mv.dst} \subseteq {Live, Staging, MySafety, MyFailed}
           /\ mv.src # MyFailed
           /\ mv.todo \in SUBSET Parts /\ mv.done \in SUBSET Parts
<1>1. OwnMove
  BY DEF MoveInv
<1>2. journal.state # "none"
  BY <1>1 DEF OwnMove, MoveIs
<1>3. mv.todo \in SUBSET Parts /\ mv.done \in SUBSET Parts
  BY DEF Typed, MoveTypeOK, MoveRecords
<1>4. /\ Live \in Places /\ Staging \in Places /\ Live # Staging
      /\ MySafety \in Places /\ MyFailed \in Places /\ MySafety # MyFailed
      /\ MySafety \notin {Live, Staging} /\ MyFailed \notin {Live, Staging}
  BY <1>2, MyPlaces, PlacesDiffer
<1>5. \/ mv.src = Live /\ mv.dst = MySafety
      \/ mv.src = Live /\ mv.dst = MyFailed
      \/ mv.src = Staging /\ mv.dst = Live
      \/ mv.src = MySafety /\ mv.dst = Live
  BY <1>1 DEF OwnMove, MoveIs
<1> QED  BY <1>2, <1>3, <1>4, <1>5

(* A move keeps its places and what comes after it. *)
SameMove ==
    /\ mv'.src = mv.src /\ mv'.dst = mv.dst /\ mv'.strict = mv.strict
    /\ mv'.ok = mv.ok /\ mv'.fail = mv.fail

(* One file of the group goes, or the rollback starts. *)
LEMMA MoveOneIs ==
    ASSUME Typed, MoveInv, MoveOne
    PROVE  /\ pc = "moving" /\ ~mv.undo /\ SameMove
           /\ UNCHANGED <<journal, pc, session, starting, restores, crashes, parts, rotated,
                          superseded>>
           /\ \/ /\ file' = file /\ mv'.undo = TRUE /\ mv'.todo = mv.todo /\ mv'.done = mv.done
                 /\ Fault
              \/ \E x \in mv.todo :
                   /\ "main" \in mv.todo => x = "main"
                   /\ mv'.todo = mv.todo \ {x} /\ mv'.done = mv.done \union {x} /\ mv'.undo = FALSE
                   /\ file'[mv.dst][x] = file[mv.src][x] /\ file'[mv.src][x] = None
                   /\ \A pl \in Places, y \in Parts :
                        (pl \notin {mv.src, mv.dst} \/ y # x) => file'[pl][y] = file[pl][y]
                   /\ \A pl \in Places \ {mv.src, mv.dst} : file'[pl] = file[pl]
                   /\ FileTypeOK' /\ faults' = faults
<1>0. /\ pc = "moving" /\ ~mv.undo /\ mv.todo # {}
      /\ UNCHANGED <<journal, pc, session, starting, restores, crashes, parts, rotated,
                     superseded>>
  BY DEF MoveOne, env, ghosts
<1>1. mv \in MoveRecords /\ mv.todo \in SUBSET Parts /\ FileTypeOK
  BY DEF Typed, MoveTypeOK, MoveRecords
<1>2. First(mv.todo) \in mv.todo /\ ("main" \in mv.todo => First(mv.todo) = "main")
  BY <1>0, <1>1, FirstIsIn
<1>3. CASE mv' = [mv EXCEPT !.undo = TRUE] /\ file' = file /\ Fault
  BY <1>0, <1>1, <1>3 DEF MoveRecords, SameMove
<1>4. CASE /\ Rename(mv.src, mv.dst, First(mv.todo)) /\ NoFault
           /\ mv' = [mv EXCEPT !.todo = @ \ {First(mv.todo)}, !.done = @ \union {First(mv.todo)}]
  <2>1. PICK x \in mv.todo : x = First(mv.todo) /\ x \in Parts
    BY <1>1, <1>2
  <2>2. mv.src \in Places /\ mv.dst \in Places /\ mv.src # mv.dst
    BY <1>0, MovePlaces
  <2>3. /\ file'[mv.dst][x] = file[mv.src][x] /\ file'[mv.src][x] = None
        /\ \A pl \in Places, y \in Parts :
             (pl \notin {mv.src, mv.dst} \/ y # x) => file'[pl][y] = file[pl][y]
        /\ \A pl \in Places \ {mv.src, mv.dst} : file'[pl] = file[pl]
        /\ FileTypeOK'
    BY <1>1, <1>4, <2>1, <2>2, RenameMoves
  <2>4. /\ mv'.todo = mv.todo \ {x} /\ mv'.done = mv.done \union {x} /\ mv'.undo = FALSE
        /\ SameMove
    BY <1>0, <1>1, <1>4, <2>1 DEF MoveRecords, SameMove
  <2> QED  BY <1>0, <1>2, <1>4, <2>1, <2>3, <2>4 DEF NoFault
<1> QED  BY <1>3, <1>4 DEF MoveOne

(* One file of the group comes back, or the rollback ends. *)
LEMMA MoveUndoIs ==
    ASSUME Typed, MoveInv, MoveUndo
    PROVE  /\ pc = "moving" /\ mv.undo
           /\ UNCHANGED <<journal, session, starting, restores, crashes, parts, rotated,
                          superseded>>
           /\ \/ /\ file' = file /\ pc' = mv.fail /\ mv' = NoMove
                 /\ faults' = faults \/ Fault
              \/ \E x \in mv.done :
                   /\ x = "main" => mv.done = {"main"}
                   /\ SameMove /\ pc' = pc
                   /\ mv'.todo = mv.todo /\ mv'.done = mv.done \ {x} /\ mv'.undo = mv.undo
                   /\ file'[mv.src][x] = file[mv.dst][x] /\ file'[mv.dst][x] = None
                   /\ \A pl \in Places, y \in Parts :
                        (pl \notin {mv.src, mv.dst} \/ y # x) => file'[pl][y] = file[pl][y]
                   /\ \A pl \in Places \ {mv.src, mv.dst} : file'[pl] = file[pl]
                   /\ FileTypeOK' /\ faults' = faults
<1>0. /\ pc = "moving" /\ mv.undo
      /\ UNCHANGED <<journal, session, starting, restores, crashes, parts, rotated, superseded>>
  BY DEF MoveUndo, env, ghosts
<1>1. mv \in MoveRecords /\ mv.done \in SUBSET Parts /\ FileTypeOK
  BY DEF Typed, MoveTypeOK, MoveRecords
<1>2. CASE file' = file /\ pc' = mv.fail /\ mv' = NoMove /\ (NoFault \/ Fault)
  BY <1>0, <1>2 DEF NoFault
<1>3. CASE /\ Rename(mv.dst, mv.src, Last(mv.done)) /\ NoFault /\ pc' = pc /\ mv.done # {}
           /\ mv' = [mv EXCEPT !.done = @ \ {Last(mv.done)}]
  <2>0. Last(mv.done) \in mv.done /\ (Last(mv.done) = "main" => mv.done = {"main"})
    BY <1>1, <1>3, LastIsIn
  <2>1. PICK x \in mv.done : x = Last(mv.done) /\ x \in Parts
    BY <1>1, <2>0
  <2>2. mv.src \in Places /\ mv.dst \in Places /\ mv.src # mv.dst
    BY <1>0, MovePlaces
  <2>3. /\ file'[mv.src][x] = file[mv.dst][x] /\ file'[mv.dst][x] = None
        /\ \A pl \in Places, y \in Parts :
             (pl \notin {mv.src, mv.dst} \/ y # x) => file'[pl][y] = file[pl][y]
        /\ \A pl \in Places \ {mv.src, mv.dst} : file'[pl] = file[pl]
        /\ FileTypeOK'
    BY <1>1, <1>3, <2>1, <2>2, RenameMoves
  <2>4. SameMove /\ mv'.todo = mv.todo /\ mv'.done = mv.done \ {x} /\ mv'.undo = mv.undo
    BY <1>1, <1>3, <2>1 DEF MoveRecords, SameMove
  <2> QED  BY <1>0, <1>3, <2>0, <2>1, <2>3, <2>4 DEF NoFault
<1> QED  BY <1>2, <1>3 DEF MoveUndo

(* How each step that moves a group starts the move, or does without. *)
MovesGroup(src, dst, ok, fail) ==
    /\ GroupExists(src) /\ ~GroupExists(dst)
    /\ StartMove(src, dst, Present(src), FALSE, ok, fail)
MovesSidecars(src, dst, ok, fail) ==
    /\ GroupExists(src) /\ ~Has(src, "main")
    /\ \A s \in Sidecars : ~(Has(src, s) /\ Has(dst, s))
    /\ StartMove(src, dst, Present(src), TRUE, ok, fail)
Goes(label) == pc' = label /\ mv' = mv
Collide(src, dst) == Has(src, "main") \/ \E s \in Sidecars : Has(src, s) /\ Has(dst, s)

(* MoveFileGroup refuses, or starts to move every file of the source. *)
LEMMA MoveFileGroupIs ==
    ASSUME NEW src, NEW dst, NEW ok, NEW fail, MoveFileGroup(src, dst, ok, fail)
    PROVE  \/ Goes(fail) /\ (GroupExists(dst) \/ ~GroupExists(src))
           \/ MovesGroup(src, dst, ok, fail)
BY DEF MoveFileGroup, Goes, MovesGroup, Goto

(* MoveOrphanSidecars refuses, or starts to move the sidecars. *)
LEMMA MoveOrphanSidecarsIs ==
    ASSUME NEW src, NEW dst, NEW ok, NEW fail, MoveOrphanSidecars(src, dst, ok, fail)
    PROVE  \/ Goes(fail) /\ (Collide(src, dst) \/ ~GroupExists(src))
           \/ MovesSidecars(src, dst, ok, fail)
BY DEF MoveOrphanSidecars, Goes, MovesSidecars, Goto, Collide

(* ResumeFileGroupMove by what it finds in the two places. *)
LEMMA ResumeFileGroupMoveIs ==
    ASSUME NEW src, NEW dst, NEW ok, NEW fail, ResumeFileGroupMove(src, dst, ok, fail)
    PROVE  \/ Goes(fail) /\ Has(src, "main") /\ (GroupExists(dst) \/ ~GroupExists(src))
           \/ Goes(fail) /\ ~Has(src, "main") /\ GroupExists(src) /\ Collide(src, dst)
           \/ Goes(fail) /\ ~Has(src, "main") /\ ~GroupExists(src) /\ ~GroupExists(dst)
           \/ Goes(ok) /\ ~Has(src, "main") /\ ~GroupExists(src) /\ GroupExists(dst)
           \/ Has(src, "main") /\ MovesGroup(src, dst, ok, fail)
           \/ MovesSidecars(src, dst, ok, fail)
<1>1. CASE Has(src, "main")
  <2>1. MoveFileGroup(src, dst, ok, fail)
    BY <1>1 DEF ResumeFileGroupMove
  <2> QED  BY <1>1, <2>1, MoveFileGroupIs
<1>2. CASE ~Has(src, "main") /\ GroupExists(src)
  <2>1. MoveOrphanSidecars(src, dst, ok, fail)
    BY <1>2 DEF ResumeFileGroupMove
  <2> QED  BY <1>2, <2>1, MoveOrphanSidecarsIs
<1>3. CASE ~Has(src, "main") /\ ~GroupExists(src)
  BY <1>3 DEF ResumeFileGroupMove, Goto, Goes
<1> QED  BY <1>1, <1>2, <1>3

(* The live group is moved to the safety group, unless there is none. *)
LEMMA RenameOriginalIs ==
    ASSUME RenameOriginal
    PROVE  /\ pc = "rename"
           /\ UNCHANGED <<file, journal, session, starting, env, faults>>
           /\ \/ Goes("renamed") /\ ~GroupExists(Live)
              \/ Goes("renamefailed") /\ GroupExists(MySafety)
              \/ MovesGroup(Live, MySafety, "renamed", "renamefailed")
<1>1. /\ pc = "rename"
      /\ UNCHANGED <<file, journal, session, starting, env, faults>>
  BY DEF RenameOriginal
<1>2. CASE GroupExists(Live) /\ MoveFileGroup(Live, MySafety, "renamed", "renamefailed")
  BY <1>1, <1>2, MoveFileGroupIs
<1>3. CASE ~GroupExists(Live) /\ Goto("renamed")
  BY <1>1, <1>3 DEF Goto, Goes
<1> QED  BY <1>2, <1>3 DEF RenameOriginal

(* The staging group is moved to the live one. *)
LEMMA InstallStagingIs ==
    ASSUME InstallStaging
    PROVE  /\ pc = "install"
           /\ UNCHANGED <<file, journal, session, starting, env, faults>>
           /\ \/ Goes("installfailed") /\ (GroupExists(Live) \/ ~GroupExists(Staging))
              \/ MovesGroup(Staging, Live, "installed", "installfailed")
BY MoveFileGroupIs DEF InstallStaging

(* The same at startup. *)
LEMMA InstallNowIs ==
    ASSUME InstallNow
    PROVE  /\ pc = "installnow"
           /\ UNCHANGED <<file, journal, session, starting, env, faults>>
           /\ \/ Goes("blocked") /\ (GroupExists(Live) \/ ~GroupExists(Staging))
              \/ MovesGroup(Staging, Live, "installed", "blocked")
BY MoveFileGroupIs DEF InstallNow

(* The replacement is moved to the failed group. *)
LEMMA QuarantineIs ==
    ASSUME Quarantine
    PROVE  /\ pc = "quarantine"
           /\ UNCHANGED <<file, journal, session, starting, env, faults>>
           /\ \/ Goes("blocked")
              \/ Goes("beginrollback") /\ ~GroupExists(Live)
              \/ MovesGroup(Live, MyFailed, "beginrollback", "blocked")
              \/ MovesSidecars(Live, MyFailed, "beginrollback", "blocked")
BY ResumeFileGroupMoveIs DEF Quarantine

(* The safety group is moved back to the live one. *)
LEMMA ResumeRollbackIs ==
    ASSUME ResumeRollback
    PROVE  /\ pc = "rollback"
           /\ UNCHANGED <<file, journal, session, starting, env, faults>>
           /\ \/ /\ Goes(GiveUp)
                 /\ \/ ~Has(MySafety, "main") /\ ~Has(Live, "main")
                    \/ Has(MySafety, "main") /\ (GroupExists(Live) \/ ~GroupExists(MySafety))
                    \/ ~Has(MySafety, "main") /\ GroupExists(MySafety) /\ Collide(MySafety, Live)
                    \/ ~Has(MySafety, "main") /\ ~GroupExists(Live)
              \/ Goes("finish") /\ ~GroupExists(MySafety) /\ Has(Live, "main")
              \/ Has(MySafety, "main") /\ MovesGroup(MySafety, Live, "finish", GiveUp)
              \/ Has(Live, "main") /\ MovesSidecars(MySafety, Live, "finish", GiveUp)
<1>1. /\ pc = "rollback"
      /\ UNCHANGED <<file, journal, session, starting, env, faults>>
  BY DEF ResumeRollback
<1>2. CASE ~Has(MySafety, "main") /\ ~Has(Live, "main") /\ Goto(GiveUp)
  BY <1>1, <1>2 DEF Goto, Goes
<1>3. CASE /\ Has(MySafety, "main") \/ Has(Live, "main")
           /\ ResumeFileGroupMove(MySafety, Live, "finish", GiveUp)
  <2>1. \/ Goes(GiveUp) /\ Has(MySafety, "main") /\ (GroupExists(Live) \/ ~GroupExists(MySafety))
        \/ Goes(GiveUp) /\ ~Has(MySafety, "main") /\ GroupExists(MySafety) /\ Collide(MySafety, Live)
        \/ Goes(GiveUp) /\ ~Has(MySafety, "main") /\ ~GroupExists(MySafety) /\ ~GroupExists(Live)
        \/ Goes("finish") /\ ~Has(MySafety, "main") /\ ~GroupExists(MySafety) /\ GroupExists(Live)
        \/ Has(MySafety, "main") /\ MovesGroup(MySafety, Live, "finish", GiveUp)
        \/ MovesSidecars(MySafety, Live, "finish", GiveUp)
    BY <1>3, ResumeFileGroupMoveIs
  <2>2. MovesSidecars(MySafety, Live, "finish", GiveUp) => ~Has(MySafety, "main")
    BY DEF MovesSidecars
  <2> QED  BY <1>1, <1>3, <2>1, <2>2
<1> QED  BY <1>2, <1>3 DEF ResumeRollback

(* The two branches the states "prepared" and "original-renamed" share. *)
LEMMA RollBackFromSafetyIs ==
    ASSUME RollBackFromSafety
    PROVE  \/ Goes("beginrollback") /\ ~GroupExists(Live)
           \/ Goes("blocked") /\ Collide(Live, MySafety)
           \/ MovesSidecars(Live, MySafety, "beginrollback", "blocked")
<1>1. CASE GroupExists(Live) /\ MoveOrphanSidecars(Live, MySafety, "beginrollback", "blocked")
  BY <1>1, MoveOrphanSidecarsIs
<1>2. CASE ~GroupExists(Live) /\ Goto("beginrollback")
  BY <1>2 DEF Goto, Goes
<1> QED  BY <1>1, <1>2 DEF RollBackFromSafety

(* A first restore is installed at startup; anything else blocks. *)
LEMMA InstallStagedOrBlockIs ==
    ASSUME InstallStagedOrBlock
    PROVE  \/ Goes("installstaged") /\ FirstRestore /\ ~GroupExists(Live)
           \/ Goes("blocked") /\ ~(FirstRestore /\ ~GroupExists(Live) /\ ~GroupExists(MySafety))
BY DEF InstallStagedOrBlock, Goto, Goes

(* Startup with a journal in state prepared. *)
LEMMA ReconcilePreparedIs ==
    ASSUME ReconcilePrepared
    PROVE  /\ pc = "reconcile" /\ journal.state = "prepared"
           /\ UNCHANGED <<file, journal, session, starting, env, faults>>
           /\ \/ /\ Has(MySafety, "main") /\ ~Has(Live, "main")
                 /\ \/ Goes("beginrollback") /\ ~GroupExists(Live)
                    \/ Goes("blocked") /\ Collide(Live, MySafety)
                    \/ MovesSidecars(Live, MySafety, "beginrollback", "blocked")
              \/ Has(Live, "main") /\ FirstRestore
              \/ /\ Has(Live, "main") /\ ~Has(MySafety, "main") /\ ~FirstRestore
                 /\ \/ Goes("finish") /\ ~GroupExists(MySafety)
                    \/ Goes("blocked") /\ Collide(MySafety, Live)
                    \/ MovesSidecars(MySafety, Live, "finish", "blocked")
              \/ /\ Has(Live, "main") <=> Has(MySafety, "main")
                 /\ \/ Goes("installstaged") /\ FirstRestore /\ ~GroupExists(Live)
                    \/ /\ Goes("blocked")
                       /\ ~(FirstRestore /\ ~GroupExists(Live) /\ ~GroupExists(MySafety))
<1>1. /\ pc = "reconcile" /\ journal.state = "prepared"
      /\ UNCHANGED <<file, journal, session, starting, env, faults>>
  BY DEF ReconcilePrepared
<1>2. CASE Has(MySafety, "main") /\ ~Has(Live, "main")
  <2>1. RollBackFromSafety
    BY <1>2 DEF ReconcilePrepared
  <2> QED  BY <1>1, <1>2, <2>1, RollBackFromSafetyIs
<1>3. CASE Has(Live, "main") /\ ~Has(MySafety, "main")
  <2>1. CASE FirstRestore
    BY <1>1, <1>3, <2>1
  <2>2. CASE ~FirstRestore /\ GroupExists(MySafety)
    <3>1. MoveOrphanSidecars(MySafety, Live, "finish", "blocked")
      BY <1>3, <2>2 DEF ReconcilePrepared
    <3> QED  BY <1>1, <1>3, <2>2, <3>1, MoveOrphanSidecarsIs
  <2>3. CASE ~FirstRestore /\ ~GroupExists(MySafety)
    <3>1. Goes("finish")
      BY <1>3, <2>3 DEF ReconcilePrepared, Goto, Goes
    <3> QED  BY <1>1, <1>3, <2>3, <3>1
  <2> QED  BY <2>1, <2>2, <2>3
<1>4. CASE Has(Live, "main") <=> Has(MySafety, "main")
  <2>1. InstallStagedOrBlock
    BY <1>4 DEF ReconcilePrepared
  <2> QED  BY <1>1, <1>4, <2>1, InstallStagedOrBlockIs
<1> QED  BY <1>2, <1>3, <1>4

(* Startup with a journal in state original-renamed. *)
LEMMA ReconcileRenamedIs ==
    ASSUME ReconcileRenamed
    PROVE  /\ pc = "reconcile" /\ journal.state = "original-renamed"
           /\ UNCHANGED <<file, journal, session, starting, env, faults>>
           /\ \/ /\ Has(Live, "main")
                 /\ \/ Goes("verify") /\ ~GroupExists(Staging)
                    \/ Goes("blocked") /\ Collide(Staging, Live)
                    \/ MovesSidecars(Staging, Live, "verify", "blocked")
              \/ /\ ~Has(Live, "main") /\ Has(MySafety, "main")
                 /\ \/ Goes("beginrollback") /\ ~GroupExists(Live)
                    \/ Goes("blocked") /\ Collide(Live, MySafety)
                    \/ MovesSidecars(Live, MySafety, "beginrollback", "blocked")
              \/ /\ ~Has(Live, "main") /\ ~Has(MySafety, "main")
                 /\ \/ Goes("installstaged") /\ FirstRestore /\ ~GroupExists(Live)
                    \/ /\ Goes("blocked")
                       /\ ~(FirstRestore /\ ~GroupExists(Live) /\ ~GroupExists(MySafety))
<1>1. /\ pc = "reconcile" /\ journal.state = "original-renamed"
      /\ UNCHANGED <<file, journal, session, starting, env, faults>>
  BY DEF ReconcileRenamed
<1>2. CASE Has(Live, "main") /\ GroupExists(Staging)
  <2>1. MoveOrphanSidecars(Staging, Live, "verify", "blocked")
    BY <1>2 DEF ReconcileRenamed
  <2> QED  BY <1>1, <1>2, <2>1, MoveOrphanSidecarsIs
<1>3. CASE Has(Live, "main") /\ ~GroupExists(Staging)
  <2>1. Goes("verify")
    BY <1>3 DEF ReconcileRenamed, Goto, Goes
  <2> QED  BY <1>1, <1>3, <2>1
<1>4. CASE ~Has(Live, "main") /\ Has(MySafety, "main")
  <2>1. RollBackFromSafety
    BY <1>4 DEF ReconcileRenamed
  <2> QED  BY <1>1, <1>4, <2>1, RollBackFromSafetyIs
<1>5. CASE ~Has(Live, "main") /\ ~Has(MySafety, "main")
  <2>1. InstallStagedOrBlock
    BY <1>5 DEF ReconcileRenamed
  <2> QED  BY <1>1, <1>5, <2>1, InstallStagedOrBlockIs
<1> QED  BY <1>2, <1>3, <1>4, <1>5

(* The inductive invariant as a whole. *)
JInv ==
    /\ Typed /\ MainsInv /\ StagingInv /\ UnusedInv /\ FreshInv /\ ReplacementInv
    /\ SessionInv /\ JournalInv /\ LiveInv /\ MoveInv /\ StagedInv
    /\ KeepIfNew /\ ShapeIf /\ CalmIf

-----------------------------------------------------------------------------
(* Types *)

(* The labels a move or a step that gives up leads to are labels. *)
LEMMA StartTyped ==
    ASSUME NEW src \in Places, NEW dst \in Places, NEW ok \in Labels, NEW fail \in Labels,
           MovesGroup(src, dst, ok, fail) \/ MovesSidecars(src, dst, ok, fail)
    PROVE  MoveTypeOK'
<1>1. Present(src) \in SUBSET Parts
  BY DEF Present
<1>2. PICK strict \in BOOLEAN : StartMove(src, dst, Present(src), strict, ok, fail)
  BY DEF MovesGroup, MovesSidecars
<1>3. "moving" \in Labels
  BY DEF Labels
<1> QED  BY <1>1, <1>2, <1>3 DEF StartMove, MoveTypeOK, MoveRecords

(* A jump to a label keeps the type of the control state. *)
LEMMA GoesTyped ==
    ASSUME MoveTypeOK, NEW label \in Labels, Goes(label)
    PROVE  MoveTypeOK'
BY DEF Goes, MoveTypeOK

(* The labels that the moves lead to are labels. *)
LEMMA LabelsAre ==
    /\ {"renamed", "renamefailed", "installed", "installfailed", "blocked", "finish", "verify",
        "beginrollback", "installstaged"} \subseteq Labels
    /\ GiveUp \in Labels
BY DEF Labels, GiveUp

(* Every file keeps its type. *)
LEMMA FilesTyped ==
    ASSUME JInv, [Next]_vars
    PROVE  FileTypeOK'
<1> USE DEF JInv, Typed
<1>1. CASE UNCHANGED <<file>>
  BY <1>1 DEF FileTypeOK
<1>2. ASSUME (UNCHANGED vars \/ RenameOriginal \/ WriteRenamed \/ InstallStaging \/
             InstallFailed \/ WriteInstalled \/ ReconcileNothing \/ ReconcilePrepared \/
             ReconcileRenamed \/ ReconcileLater \/ InstallStagedOnStartup \/ InstallNow
             \/ VerifyFails \/ WriteVerified \/ WriteQuarantine \/ Quarantine \/
             BeginRollback \/ ResumeRollback \/ RemoveJournal \/ OpenFails \/ Crash \/
             Start \/ MoveDone)
      PROVE  UNCHANGED <<file>>
  BY <1>2 DEF vars, env, ghosts, RenameOriginal, WriteRenamed, InstallStaging,
    InstallFailed, WriteInstalled, ReconcileNothing, ReconcilePrepared,
    ReconcileRenamed, ReconcileLater, InstallStagedOnStartup, InstallNow, VerifyFails,
    WriteVerified, WriteQuarantine, Quarantine, BeginRollback, ResumeRollback,
    RemoveJournal, OpenFails, Crash, Start, MoveDone, WriteJournal
<1>3. CASE InstallRestore
  BY <1>3, InstallRestoreIs DEF JInv
<1>4. CASE StagingFails
  BY <1>4, RemoveStagingMainIs DEF StagingFails
<1>5. CASE Prepare
  BY <1>5, RemoveStagingMainIs DEF Prepare, FileTypeOK
<1>6. CASE CloseSession
  BY <1>6, RemoveStagingMainIs, CloseGroupIs DEF CloseSession
<1>7. CASE RenameFailed
  BY <1>7, RemoveStagingMainIs DEF RenameFailed
<1>8. CASE VerifySucceeds
  BY <1>8, VerifySucceedsIs
<1>9. CASE Reset
  BY <1>9, OpenGroupIs DEF Reset, FileTypeOK
<1>10. CASE ResetClose
  BY <1>10, CloseGroupIs DEF ResetClose, FileTypeOK
<1>11. CASE Finalize
  BY <1>11, OpenGroupIs DEF Finalize, FileTypeOK
<1>12. CASE FinishRecovery
  <2>1. NoFiles \in [Parts -> Versions \union {None, Blank}]
    BY DEF NoFiles
  <2> QED  BY <1>12, <2>1 DEF FinishRecovery, FileTypeOK
<1>13. CASE OpenLive
  BY <1>13, OpenLiveIs
<1>14. CASE Quit
  BY <1>14, CloseGroupIs DEF Quit, FileTypeOK
<1>15. CASE MoveOne
  BY <1>15, MoveOneIs DEF FileTypeOK
<1>16. CASE MoveUndo
  BY <1>16, MoveUndoIs DEF FileTypeOK
<1> QED  BY <1>1, <1>2, <1>3, <1>4, <1>5, <1>6, <1>7, <1>8, <1>9, <1>10, <1>11, <1>12,
  <1>13, <1>14, <1>15, <1>16 DEF Next, Install, Reconcile, Move

(* A restore was started before its journal is written. *)
LEMMA RestoreStarted ==
    ASSUME JInv, pc = "prepare"
    PROVE  restores \in 1 .. restores
BY RestoreBounds, VersionsAre DEF JInv, Typed, CountTypeOK, StagingInv, None

(* The journal keeps its type. *)
LEMMA JournalTyped ==
    ASSUME JInv, [Next]_vars
    PROVE  JournalTypeOK'
<1> USE DEF JInv, Typed, JournalTypeOK, JournalRecords
<1>1. CASE UNCHANGED <<journal, restores>>
  BY <1>1 DEF JournalTypeOK
<1>2. ASSUME (UNCHANGED vars \/ StagingFails \/ RenameOriginal \/ RenameFailed \/
             InstallStaging \/ InstallFailed \/ ReconcileNothing \/ ReconcilePrepared \/
             ReconcileRenamed \/ ReconcileLater \/ InstallNow \/ VerifySucceeds \/
             VerifyFails \/ Reset \/ ResetClose \/ Finalize \/ Quarantine \/
             ResumeRollback \/ FinishRecovery \/ OpenLive \/ OpenFails \/ Quit \/ Crash
             \/ Start \/ MoveOne \/ MoveDone \/ MoveUndo)
      PROVE  UNCHANGED <<journal, restores>>
  BY <1>2 DEF vars, env, ghosts, StagingFails, RenameOriginal, RenameFailed,
    InstallStaging, InstallFailed, ReconcileNothing, ReconcilePrepared,
    ReconcileRenamed, ReconcileLater, InstallNow, VerifySucceeds, VerifyFails, Reset,
    ResetClose, Finalize, Quarantine, ResumeRollback, FinishRecovery, OpenLive,
    OpenFails, Quit, Crash, Start, MoveOne, MoveDone, MoveUndo
<1>3. CASE InstallRestore
  BY <1>3, RestoreBounds DEF InstallRestore, env, ghosts, Goto, Fault, NoFault,
    MayRestore, JournalStates, JournalInv, NoJournal, CountTypeOK
<1>4. CASE Prepare
  <2>1. restores' = restores
    BY <1>4 DEF Prepare
  <2>2. journal' = journal
        \/ journal' = [state |-> "prepared", n |-> restores, originalPresent |-> GroupExists(Live)]
    BY <1>4 DEF Prepare
  <2>3. restores \in 1 .. restores
    BY <1>4, RestoreStarted DEF Prepare
  <2>4. "prepared" \in JournalStates /\ GroupExists(Live) \in BOOLEAN
    BY DEF JournalStates, GroupExists
  <2> QED  BY <2>1, <2>2, <2>3, <2>4
<1>5. CASE CloseSession
  BY <1>5 DEF CloseSession, env, ghosts, Goto, Fault, NoFault, RemoveStagingMain,
    CloseGroup, JournalStates, JournalInv, NoJournal, CountTypeOK
<1>6. CASE WriteRenamed
  BY <1>6 DEF WriteRenamed, env, ghosts, Goto, Fault, NoFault, WriteJournal,
    JournalStates, JournalInv, NoJournal, CountTypeOK
<1>7. CASE WriteInstalled
  BY <1>7 DEF WriteInstalled, env, ghosts, Goto, Fault, NoFault, WriteJournal, GiveUp,
    JournalStates, JournalInv, NoJournal, CountTypeOK
<1>8. CASE InstallStagedOnStartup
  <2>1. restores' = restores /\ journal.state # "none"
    BY <1>8 DEF InstallStagedOnStartup, WriteJournal, env, JournalInv
  <2>2. journal' = journal \/ journal' = [journal EXCEPT !.state = "original-renamed"]
    BY <1>8 DEF InstallStagedOnStartup, WriteJournal
  <2>3. journal \in JournalRecords
    BY <2>1 DEF NoJournal
  <2> QED  BY <2>1, <2>2, <2>3 DEF JournalStates
<1>9. CASE WriteVerified
  BY <1>9 DEF WriteVerified, env, ghosts, Goto, Fault, NoFault, WriteJournal,
    JournalStates, JournalInv, NoJournal, CountTypeOK
<1>10. CASE WriteQuarantine
  BY <1>10 DEF WriteQuarantine, env, ghosts, Goto, Fault, NoFault, WriteJournal,
    JournalStates, JournalInv, NoJournal, CountTypeOK
<1>11. CASE BeginRollback
  BY <1>11 DEF BeginRollback, env, ghosts, Goto, Fault, NoFault, WriteJournal, GiveUp,
    JournalStates, JournalInv, NoJournal, CountTypeOK
<1>12. CASE RemoveJournal
  BY <1>12 DEF RemoveJournal, env, ghosts, Goto, Fault, NoFault, WriteJournal, GiveUp,
    JournalStates, JournalInv, NoJournal, CountTypeOK
<1> QED  BY <1>1, <1>2, <1>3, <1>4, <1>5, <1>6, <1>7, <1>8, <1>9, <1>10, <1>11, <1>12
  DEF Next, Install, Reconcile, Move

(* The move keeps its type. *)
LEMMA MoveTyped ==
    ASSUME JInv, [Next]_vars
    PROVE  MoveTypeOK'
<1> USE DEF JInv, Typed
<1>1. CASE UNCHANGED <<pc, mv>>
  BY <1>1 DEF MoveTypeOK
<1>2. ASSUME (UNCHANGED vars \/ StagingFails)
      PROVE  UNCHANGED <<pc, mv>>
  BY <1>2 DEF vars, env, ghosts, StagingFails, Goto
<1>3. CASE InstallRestore
  BY <1>3, PlacesDiffer DEF InstallRestore, env, ghosts, Goto, Fault, NoFault,
    MayRestore, MoveTypeOK, MoveRecords, Labels, NoMove
<1>4. CASE Prepare
  BY <1>4, PlacesDiffer DEF Prepare, env, ghosts, Goto, Fault, NoFault,
    RemoveStagingMain, MoveTypeOK, MoveRecords, Labels, NoMove
<1>5. CASE CloseSession
  BY <1>5, PlacesDiffer DEF CloseSession, env, ghosts, Goto, Fault, NoFault,
    RemoveStagingMain, CloseGroup, MoveTypeOK, MoveRecords, Labels, NoMove
<1>6. CASE RenameOriginal
  <2>1. journal.state # "none"
    BY <1>6 DEF RenameOriginal, JournalInv
  <2> QED  BY <1>6, <2>1, RenameOriginalIs, StartTyped, GoesTyped, LabelsAre, MyPlaces, PlacesDiffer
<1>7. CASE RenameFailed
  BY <1>7, PlacesDiffer DEF RenameFailed, env, ghosts, Goto, Fault, NoFault,
    RemoveStagingMain, MoveTypeOK, MoveRecords, Labels, NoMove
<1>8. CASE WriteRenamed
  BY <1>8, PlacesDiffer DEF WriteRenamed, env, ghosts, Goto, Fault, NoFault,
    WriteJournal, MoveTypeOK, MoveRecords, Labels, NoMove
<1>9. CASE InstallStaging
  <2>1. journal.state # "none"
    BY <1>9 DEF InstallStaging, JournalInv
  <2> QED  BY <1>9, <2>1, InstallStagingIs, StartTyped, GoesTyped, LabelsAre, MyPlaces, PlacesDiffer
<1>10. CASE InstallFailed
  BY <1>10, PlacesDiffer DEF InstallFailed, env, ghosts, Goto, Fault, NoFault,
    MoveTypeOK, MoveRecords, Labels, NoMove
<1>11. CASE WriteInstalled
  BY <1>11, PlacesDiffer DEF WriteInstalled, env, ghosts, Goto, Fault, NoFault,
    WriteJournal, GiveUp, MoveTypeOK, MoveRecords, Labels, NoMove
<1>12. CASE ReconcileNothing
  BY <1>12, PlacesDiffer DEF ReconcileNothing, env, ghosts, Goto, Fault, NoFault,
    MoveTypeOK, MoveRecords, Labels, NoMove
<1>13. CASE ReconcilePrepared
  <2>1. journal.state # "none" /\ ~(journal.state = "prepared" /\ Has(Live, "main") /\ FirstRestore)
    BY <1>13, PartsAre DEF ReconcilePrepared, LiveInv, GroupExists, Present
  <2> QED  BY <1>13, <2>1, ReconcilePreparedIs, StartTyped, GoesTyped, LabelsAre, MyPlaces, PlacesDiffer
<1>14. CASE ReconcileRenamed
  <2>1. journal.state # "none" /\ ~(journal.state = "prepared" /\ Has(Live, "main") /\ FirstRestore)
    BY <1>14, PartsAre DEF ReconcileRenamed, LiveInv, GroupExists, Present
  <2> QED  BY <1>14, <2>1, ReconcileRenamedIs, StartTyped, GoesTyped, LabelsAre, MyPlaces, PlacesDiffer
<1>15. CASE ReconcileLater
  BY <1>15, PlacesDiffer DEF ReconcileLater, env, ghosts, Goto, Fault, NoFault,
    MoveTypeOK, MoveRecords, Labels, NoMove
<1>16. CASE InstallStagedOnStartup
  BY <1>16, PlacesDiffer DEF InstallStagedOnStartup, env, ghosts, Goto, Fault, NoFault,
    WriteJournal, MoveTypeOK, MoveRecords, Labels, NoMove
<1>17. CASE InstallNow
  <2>1. journal.state # "none"
    BY <1>17 DEF InstallNow, JournalInv
  <2> QED  BY <1>17, <2>1, InstallNowIs, StartTyped, GoesTyped, LabelsAre, MyPlaces, PlacesDiffer
<1>18. CASE VerifySucceeds
  BY <1>18, PlacesDiffer DEF VerifySucceeds, env, ghosts, Goto, Fault, NoFault,
    MoveTypeOK, MoveRecords, Labels, NoMove
<1>19. CASE VerifyFails
  BY <1>19, PlacesDiffer DEF VerifyFails, env, ghosts, Goto, Fault, NoFault, MoveTypeOK,
    MoveRecords, Labels, NoMove
<1>20. CASE Reset
  BY <1>20, PlacesDiffer DEF Reset, env, ghosts, Goto, Fault, NoFault, OpenGroup,
    MoveTypeOK, MoveRecords, Labels, NoMove
<1>21. CASE ResetClose
  BY <1>21, PlacesDiffer DEF ResetClose, env, ghosts, Goto, Fault, NoFault, CloseGroup,
    MoveTypeOK, MoveRecords, Labels, NoMove
<1>22. CASE WriteVerified
  BY <1>22, PlacesDiffer DEF WriteVerified, env, ghosts, Goto, Fault, NoFault,
    WriteJournal, MoveTypeOK, MoveRecords, Labels, NoMove
<1>23. CASE Finalize
  BY <1>23, PlacesDiffer DEF Finalize, env, ghosts, Goto, Fault, NoFault, OpenGroup,
    MoveTypeOK, MoveRecords, Labels, NoMove
<1>24. CASE WriteQuarantine
  BY <1>24, PlacesDiffer DEF WriteQuarantine, env, ghosts, Goto, Fault, NoFault,
    WriteJournal, MoveTypeOK, MoveRecords, Labels, NoMove
<1>25. CASE Quarantine
  <2>1. journal.state # "none"
    BY <1>25 DEF Quarantine, JournalInv
  <2> QED  BY <1>25, <2>1, QuarantineIs, StartTyped, GoesTyped, LabelsAre, MyPlaces, PlacesDiffer
<1>26. CASE BeginRollback
  BY <1>26, PlacesDiffer DEF BeginRollback, env, ghosts, Goto, Fault, NoFault,
    WriteJournal, GiveUp, MoveTypeOK, MoveRecords, Labels, NoMove
<1>27. CASE ResumeRollback
  <2>1. journal.state # "none"
    BY <1>27 DEF ResumeRollback, JournalInv
  <2> QED  BY <1>27, <2>1, ResumeRollbackIs, StartTyped, GoesTyped, LabelsAre, MyPlaces, PlacesDiffer
<1>28. CASE FinishRecovery
  BY <1>28, PlacesDiffer DEF FinishRecovery, env, ghosts, Goto, Fault, NoFault, GiveUp,
    MoveTypeOK, MoveRecords, Labels, NoMove
<1>29. CASE RemoveJournal
  BY <1>29, PlacesDiffer DEF RemoveJournal, env, ghosts, Goto, Fault, NoFault,
    WriteJournal, GiveUp, MoveTypeOK, MoveRecords, Labels, NoMove
<1>30. CASE OpenLive
  BY <1>30, PlacesDiffer DEF OpenLive, env, ghosts, Goto, Fault, NoFault, MoveTypeOK,
    MoveRecords, Labels, NoMove
<1>31. CASE OpenFails
  BY <1>31, PlacesDiffer DEF OpenFails, env, ghosts, Goto, Fault, NoFault, MoveTypeOK,
    MoveRecords, Labels, NoMove
<1>32. CASE Quit
  BY <1>32, PlacesDiffer DEF Quit, env, ghosts, Goto, Fault, NoFault, CloseGroup,
    MoveTypeOK, MoveRecords, Labels, NoMove
<1>33. CASE Crash
  BY <1>33, PlacesDiffer DEF Crash, env, ghosts, Goto, Fault, NoFault, MoveTypeOK,
    MoveRecords, Labels, NoMove
<1>34. CASE Start
  BY <1>34, PlacesDiffer DEF Start, env, ghosts, Goto, Fault, NoFault, MoveTypeOK,
    MoveRecords, Labels, NoMove
<1>35. CASE MoveOne
  <2>1. SameMove /\ pc' = pc /\ mv'.todo \in SUBSET Parts /\ mv'.done \in SUBSET Parts
        /\ mv'.undo \in BOOLEAN
    BY <1>35, MoveOneIs DEF MoveTypeOK, MoveRecords
  <2>2. \/ mv' = [mv EXCEPT !.undo = TRUE]
        \/ mv' = [mv EXCEPT !.todo = @ \ {First(mv.todo)}, !.done = @ \union {First(mv.todo)}]
    BY <1>35 DEF MoveOne
  <2> QED  BY <2>1, <2>2 DEF MoveTypeOK, MoveRecords
<1>36. CASE MoveDone
  BY <1>36, PlacesDiffer DEF MoveDone, env, ghosts, Goto, Fault, NoFault, MoveTypeOK,
    MoveRecords, Labels, NoMove
<1>37. CASE MoveUndo
  <2>1. \/ mv' = NoMove /\ pc' = mv.fail
        \/ mv' = [mv EXCEPT !.done = @ \ {Last(mv.done)}] /\ pc' = pc
    BY <1>37 DEF MoveUndo
  <2>2. NoMove \in MoveRecords
    BY PlacesDiffer DEF NoMove, MoveRecords, Labels
  <2>3. mv.fail \in Labels /\ pc \in Labels /\ mv \in MoveRecords
    BY DEF MoveTypeOK, MoveRecords
  <2>4. [mv EXCEPT !.done = @ \ {Last(mv.done)}] \in MoveRecords
    BY <2>3 DEF MoveRecords
  <2> QED  BY <2>1, <2>2, <2>3, <2>4 DEF MoveTypeOK
<1> QED  BY <1>1, <1>2, <1>3, <1>4, <1>5, <1>6, <1>7, <1>8, <1>9, <1>10, <1>11, <1>12,
  <1>13, <1>14, <1>15, <1>16, <1>17, <1>18, <1>19, <1>20, <1>21, <1>22, <1>23, <1>24,
  <1>25, <1>26, <1>27, <1>28, <1>29, <1>30, <1>31, <1>32, <1>33, <1>34, <1>35, <1>36,
  <1>37 DEF Next, Install, Reconcile, Move

(* The counters keep their types. *)
LEMMA CountsTyped ==
    ASSUME JInv, [Next]_vars
    PROVE  CountTypeOK'
<1> USE DEF JInv, Typed, CountTypeOK
<1>1. CASE UNCHANGED <<session, starting, restores, crashes, faults>>
  BY <1>1 DEF CountTypeOK
<1>2. ASSUME (UNCHANGED vars \/ RenameOriginal \/ RenameFailed \/ InstallStaging \/
             InstallFailed \/ ReconcileNothing \/ ReconcilePrepared \/ ReconcileRenamed
             \/ ReconcileLater \/ InstallNow \/ VerifySucceeds \/ Quarantine \/
             ResumeRollback)
      PROVE  UNCHANGED <<session, starting, restores, crashes, faults>>
  BY <1>2 DEF vars, env, ghosts, RenameOriginal, RenameFailed, InstallStaging,
    InstallFailed, ReconcileNothing, ReconcilePrepared, ReconcileRenamed,
    ReconcileLater, InstallNow, VerifySucceeds, Quarantine, ResumeRollback, NoFault
<1>3. CASE InstallRestore
  <2>1. restores' \in 0 .. MaxRestores
    BY <1>3, RestoreBounds DEF InstallRestore
  <2> QED  BY <1>3, <2>1 DEF InstallRestore
<1>4. CASE StagingFails
  BY <1>4, RestoreBounds DEF StagingFails, env, ghosts, Goto, Fault, NoFault,
    MayRestore, RemoveStagingMain
<1>5. CASE Prepare
  BY <1>5, RestoreBounds DEF Prepare, env, ghosts, Goto, Fault, NoFault,
    RemoveStagingMain
<1>6. CASE CloseSession
  BY <1>6, RestoreBounds DEF CloseSession, env, ghosts, Goto, Fault, NoFault,
    RemoveStagingMain, CloseGroup
<1>7. CASE WriteRenamed
  BY <1>7, RestoreBounds DEF WriteRenamed, env, ghosts, Goto, Fault, NoFault,
    WriteJournal
<1>8. CASE WriteInstalled
  BY <1>8, RestoreBounds DEF WriteInstalled, env, ghosts, Goto, Fault, NoFault,
    WriteJournal, GiveUp
<1>9. CASE InstallStagedOnStartup
  BY <1>9, RestoreBounds DEF InstallStagedOnStartup, env, ghosts, Goto, Fault, NoFault,
    WriteJournal
<1>10. CASE VerifyFails
  BY <1>10, RestoreBounds DEF VerifyFails, env, ghosts, Goto, Fault, NoFault
<1>11. CASE Reset
  BY <1>11, RestoreBounds DEF Reset, env, ghosts, Goto, Fault, NoFault, OpenGroup
<1>12. CASE ResetClose
  BY <1>12, RestoreBounds DEF ResetClose, env, ghosts, Goto, Fault, NoFault, CloseGroup
<1>13. CASE WriteVerified
  BY <1>13, RestoreBounds DEF WriteVerified, env, ghosts, Goto, Fault, NoFault,
    WriteJournal
<1>14. CASE Finalize
  BY <1>14, RestoreBounds DEF Finalize, env, ghosts, Goto, Fault, NoFault, OpenGroup
<1>15. CASE WriteQuarantine
  BY <1>15, RestoreBounds DEF WriteQuarantine, env, ghosts, Goto, Fault, NoFault,
    WriteJournal
<1>16. CASE BeginRollback
  BY <1>16, RestoreBounds DEF BeginRollback, env, ghosts, Goto, Fault, NoFault,
    WriteJournal, GiveUp
<1>17. CASE FinishRecovery
  BY <1>17, RestoreBounds DEF FinishRecovery, env, ghosts, Goto, Fault, NoFault, GiveUp
<1>18. CASE RemoveJournal
  BY <1>18, RestoreBounds DEF RemoveJournal, env, ghosts, Goto, Fault, NoFault,
    WriteJournal, GiveUp
<1>19. CASE OpenLive
  BY <1>19, RestoreBounds DEF OpenLive, env, ghosts, Goto, Fault, NoFault
<1>20. CASE OpenFails
  BY <1>20, RestoreBounds DEF OpenFails, env, ghosts, Goto, Fault, NoFault
<1>21. CASE Quit
  BY <1>21, RestoreBounds DEF Quit, env, ghosts, Goto, Fault, NoFault, CloseGroup
<1>22. CASE Crash
  BY <1>22, RestoreBounds DEF Crash, env, ghosts, Goto, Fault, NoFault
<1>23. CASE Start
  BY <1>23, RestoreBounds DEF Start, env, ghosts, Goto, Fault, NoFault
<1>24. CASE MoveOne
  BY <1>24, RestoreBounds DEF MoveOne, env, ghosts, Goto, Fault, NoFault, Rename
<1>25. CASE MoveDone
  BY <1>25, RestoreBounds DEF MoveDone, env, ghosts, Goto, Fault, NoFault
<1>26. CASE MoveUndo
  BY <1>26, RestoreBounds DEF MoveUndo, env, ghosts, Goto, Fault, NoFault, Rename
<1> QED  BY <1>1, <1>2, <1>3, <1>4, <1>5, <1>6, <1>7, <1>8, <1>9, <1>10, <1>11, <1>12,
  <1>13, <1>14, <1>15, <1>16, <1>17, <1>18, <1>19, <1>20, <1>21, <1>22, <1>23, <1>24,
  <1>25, <1>26 DEF Next, Install, Reconcile, Move

(* The ghosts keep their types. *)
LEMMA GhostsTyped ==
    ASSUME JInv, [Next]_vars
    PROVE  GhostTypeOK'
<1> USE DEF JInv, Typed, GhostTypeOK
<1>1. CASE UNCHANGED <<parts, rotated, superseded>>
  BY <1>1 DEF GhostTypeOK
<1>2. ASSUME (UNCHANGED vars \/ InstallRestore \/ StagingFails \/ CloseSession \/
             RenameOriginal \/ RenameFailed \/ WriteRenamed \/ InstallStaging \/
             InstallFailed \/ WriteInstalled \/ ReconcileNothing \/ ReconcilePrepared \/
             ReconcileRenamed \/ ReconcileLater \/ InstallStagedOnStartup \/ InstallNow
             \/ VerifySucceeds \/ VerifyFails \/ Reset \/ WriteVerified \/ Finalize \/
             WriteQuarantine \/ Quarantine \/ BeginRollback \/ ResumeRollback \/
             FinishRecovery \/ RemoveJournal \/ OpenFails \/ Crash \/ Start \/ MoveOne \/
             MoveDone \/ MoveUndo)
      PROVE  UNCHANGED <<parts, rotated, superseded>>
  BY <1>2 DEF vars, env, ghosts, InstallRestore, StagingFails, CloseSession,
    RenameOriginal, RenameFailed, WriteRenamed, InstallStaging, InstallFailed,
    WriteInstalled, ReconcileNothing, ReconcilePrepared, ReconcileRenamed,
    ReconcileLater, InstallStagedOnStartup, InstallNow, VerifySucceeds, VerifyFails,
    Reset, WriteVerified, Finalize, WriteQuarantine, Quarantine, BeginRollback,
    ResumeRollback, FinishRecovery, RemoveJournal, OpenFails, Crash, Start, MoveOne,
    MoveDone, MoveUndo, WriteJournal
<1>3. CASE Prepare
  <2>1. parts' = parts \/ parts' = [parts EXCEPT ![file[Live]["main"]] = {"main"}]
    BY <1>3 DEF Prepare
  <2>2. parts' \in [Versions -> SUBSET Parts]
    BY <2>1, PartsAre
  <2>3. superseded' \in BOOLEAN /\ rotated' = rotated
    BY <1>3 DEF Prepare
  <2> QED  BY <2>2, <2>3
<1>4. CASE ResetClose
  <2>1. file[Live]["main"] \in Versions
    BY <1>4, PlacesDiffer, PartsAre, VersionsAre, RestoreBounds
    DEF ResetClose, LiveInv, Has, MainsInv, CountTypeOK, Versions, Empty
  <2>2. rotated' \in SUBSET Versions /\ parts' = parts /\ superseded' = superseded
    BY <1>4, <2>1 DEF ResetClose
  <2> QED  BY <2>2
<1>5. CASE OpenLive
  BY <1>5 DEF OpenLive, env, ghosts, Goto, Fault, NoFault
<1>6. CASE Quit
  <2>1. parts' = parts \/ parts' = [parts EXCEPT ![file[Live]["main"]] = {"main"}]
    BY <1>6 DEF Quit
  <2>2. parts' \in [Versions -> SUBSET Parts]
    BY <2>1, PartsAre
  <2> QED  BY <1>6, <2>2 DEF Quit
<1> QED  BY <1>1, <1>2, <1>3, <1>4, <1>5, <1>6 DEF Next, Install, Reconcile, Move


-----------------------------------------------------------------------------
(* Files *)

(* What a step does to the main files: nothing, or the staged one is removed, extracted
   or replaced, or sqlite.Open creates one, or one moves where there is none. *)
LEMMA MainsStep ==
    ASSUME JInv, [Next]_vars
    PROVE  \/ restores' = restores /\ \A pl \in Places : file'[pl]["main"] = file[pl]["main"]
           \/ /\ restores' = restores /\ file'[Staging]["main"] = None
              /\ \A pl \in Places \ {Staging} : file'[pl]["main"] = file[pl]["main"]
           \/ /\ restores' = restores + 1 /\ file'[Staging]["main"] = restores + 1
              /\ \A pl \in Places \ {Staging} : file'[pl]["main"] = file[pl]["main"]
           \/ /\ restores' = restores /\ file[Live]["main"] = None /\ file'[Live]["main"] = Empty
              /\ \A pl \in Places \ {Live} : file'[pl]["main"] = file[pl]["main"]
           \/ \E src, dst \in Places :
                /\ restores' = restores /\ src # dst /\ file[dst]["main"] = None
                /\ file'[dst]["main"] = file[src]["main"] /\ file'[src]["main"] = None
                /\ \A pl \in Places \ {src, dst} : file'[pl]["main"] = file[pl]["main"]
<1> USE DEF JInv, Typed
<1>1. CASE UNCHANGED <<file, restores>>
  BY <1>1 DEF JInv
<1>2. ASSUME (UNCHANGED vars \/ RenameOriginal \/ WriteRenamed \/ InstallStaging \/
             InstallFailed \/ WriteInstalled \/ ReconcileNothing \/ ReconcilePrepared \/
             ReconcileRenamed \/ ReconcileLater \/ InstallStagedOnStartup \/ InstallNow
             \/ VerifyFails \/ WriteVerified \/ WriteQuarantine \/ Quarantine \/
             BeginRollback \/ ResumeRollback \/ RemoveJournal \/ OpenFails \/ Crash \/
             Start \/ MoveDone)
      PROVE  UNCHANGED <<file, restores>>
  BY <1>2 DEF vars, env, ghosts, RenameOriginal, WriteRenamed, InstallStaging,
    InstallFailed, WriteInstalled, ReconcileNothing, ReconcilePrepared,
    ReconcileRenamed, ReconcileLater, InstallStagedOnStartup, InstallNow, VerifyFails,
    WriteVerified, WriteQuarantine, Quarantine, BeginRollback, ResumeRollback,
    RemoveJournal, OpenFails, Crash, Start, MoveDone, WriteJournal
<1>3. CASE InstallRestore
  <2>1. restores' = restores + 1
    BY <1>3 DEF InstallRestore
  <2>2. /\ file'[Staging]["main"] = restores + 1
        /\ \A pl \in Places \ {Staging} : file'[pl] = file[pl]
    BY <1>3, InstallRestoreIs
  <2> QED  BY <1>3, <2>1, <2>2 DEF CountTypeOK
<1>4. CASE StagingFails
  BY <1>4, RemoveStagingMainIs, PlacesDiffer, PartsAre DEF StagingFails, env, ghosts
<1>5. CASE Prepare
  BY <1>5, RemoveStagingMainIs, PlacesDiffer, PartsAre DEF Prepare, env, ghosts
<1>6. CASE CloseSession
  BY <1>6, RemoveStagingMainIs, CloseGroupIs, PlacesDiffer, PartsAre DEF CloseSession, env, ghosts
<1>7. CASE RenameFailed
  BY <1>7, RemoveStagingMainIs, PlacesDiffer, PartsAre DEF RenameFailed, env, ghosts
<1>8. CASE VerifySucceeds
  BY <1>8, VerifySucceedsIs, PlacesDiffer, PartsAre DEF VerifySucceeds, env, ghosts
<1>9. CASE Reset
  BY <1>9, OpenGroupIs, PlacesDiffer, PartsAre DEF Reset, env, ghosts
<1>10. CASE ResetClose
  BY <1>10, CloseGroupIs, PlacesDiffer, PartsAre DEF ResetClose, env, ghosts
<1>11. CASE Finalize
  BY <1>11, OpenGroupIs, PlacesDiffer, PartsAre DEF Finalize, env, ghosts
<1>12. CASE FinishRecovery
  BY <1>12, VersionsAre, PlacesDiffer, PartsAre DEF FinishRecovery, env, ghosts, NoFiles, FileTypeOK
<1>13. CASE OpenLive
  <2>1. restores' = restores
    BY <1>13 DEF OpenLive
  <2>2. \A pl \in Places \ {Live} : file'[pl] = file[pl]
    BY <1>13, OpenLiveIs
  <2>3. file'[Live]["main"] = file[Live]["main"] \/
        (file[Live]["main"] = None /\ file'[Live]["main"] = Empty)
    BY <1>13, OpenLiveIs, PartsAre
  <2> QED  BY <2>1, <2>2, <2>3, PlacesDiffer
<1>14. CASE Quit
  BY <1>14, CloseGroupIs, PlacesDiffer, PartsAre DEF Quit, env, ghosts
<1>15. CASE MoveOne
  <2>1. restores' = restores /\ pc = "moving"
    BY <1>15, MoveOneIs
  <2>2. mv.src \in Places /\ mv.dst \in Places /\ mv.src # mv.dst
    BY <2>1, MovePlaces
  <2>3. CASE file' = file
    BY <2>1, <2>3
  <2>4. CASE file' # file
    <3>1. PICK x \in mv.todo :
             /\ file'[mv.dst][x] = file[mv.src][x] /\ file'[mv.src][x] = None
             /\ \A pl \in Places, y \in Parts :
                  (pl \notin {mv.src, mv.dst} \/ y # x) => file'[pl][y] = file[pl][y]
      BY <1>15, <2>4, MoveOneIs
    <3>2. ~Has(mv.dst, x)
      BY <2>1, <3>1 DEF MoveInv, MoveFiles
    <3> QED  BY <2>1, <2>2, <3>1, <3>2, PartsAre DEF Has
  <2> QED  BY <2>3, <2>4
<1>16. CASE MoveUndo
  <2>1. restores' = restores /\ pc = "moving"
    BY <1>16, MoveUndoIs
  <2>2. mv.src \in Places /\ mv.dst \in Places /\ mv.src # mv.dst
    BY <2>1, MovePlaces
  <2>3. CASE file' = file
    BY <2>1, <2>3
  <2>4. CASE file' # file
    <3>1. PICK x \in mv.done :
             /\ file'[mv.src][x] = file[mv.dst][x] /\ file'[mv.dst][x] = None
             /\ \A pl \in Places, y \in Parts :
                  (pl \notin {mv.src, mv.dst} \/ y # x) => file'[pl][y] = file[pl][y]
      BY <1>16, <2>4, MoveUndoIs
    <3>2. ~Has(mv.src, x)
      BY <2>1, <3>1 DEF MoveInv, MoveFiles
    <3> QED  BY <2>1, <2>2, <3>1, <3>2, PartsAre DEF Has
  <2> QED  BY <2>3, <2>4
<1> QED  BY <1>1, <1>2, <1>3, <1>4, <1>5, <1>6, <1>7, <1>8, <1>9, <1>10, <1>11, <1>12,
  <1>13, <1>14, <1>15, <1>16 DEF Next, Install, Reconcile, Move

(* A ledger's main file stays part of it, and only the ledger of the live database changes,
   never while a replacement is being installed. *)
LEMMA PartsStep ==
    ASSUME JInv, [Next]_vars
    PROVE  /\ \A v \in Versions : "main" \in parts[v] => "main" \in parts'[v]
           /\ \A v \in Versions : parts'[v] # parts[v] => v = file[Live]["main"] \/ v = Empty
           /\ parts' # parts => journal'.state \notin Swapped
<1> USE DEF JInv, Typed
<1>1. CASE UNCHANGED <<parts, journal>>
  BY <1>1 DEF GhostTypeOK
<1>2. ASSUME (UNCHANGED vars \/ InstallRestore \/ StagingFails \/ RenameOriginal \/
             RenameFailed \/ InstallStaging \/ InstallFailed \/ ReconcileNothing \/
             ReconcilePrepared \/ ReconcileRenamed \/ ReconcileLater \/ InstallNow \/
             VerifySucceeds \/ VerifyFails \/ Reset \/ ResetClose \/ Finalize \/
             Quarantine \/ ResumeRollback \/ FinishRecovery \/ OpenFails \/ Crash \/
             Start \/ MoveOne \/ MoveDone \/ MoveUndo)
      PROVE  UNCHANGED <<parts, journal>>
  BY <1>2 DEF vars, env, ghosts, InstallRestore, StagingFails, RenameOriginal,
    RenameFailed, InstallStaging, InstallFailed, ReconcileNothing, ReconcilePrepared,
    ReconcileRenamed, ReconcileLater, InstallNow, VerifySucceeds, VerifyFails, Reset,
    ResetClose, Finalize, Quarantine, ResumeRollback, FinishRecovery, OpenFails, Crash,
    Start, MoveOne, MoveDone, MoveUndo
<1>3. CASE Prepare
  <2>1. parts' = parts \/ parts' = [parts EXCEPT ![file[Live]["main"]] = {"main"}]
    BY <1>3 DEF Prepare
  <2>2. parts' # parts => journal'.state \notin Swapped
    BY <1>3 DEF Prepare, SessionInv, Swapped
  <2> QED  BY <2>1, <2>2, PartsAre DEF GhostTypeOK
<1>4. CASE CloseSession
  BY <1>4 DEF CloseSession, env, ghosts, Goto, Fault, NoFault, RemoveStagingMain,
    CloseGroup
<1>5. CASE WriteRenamed
  BY <1>5 DEF WriteRenamed, env, ghosts, Goto, Fault, NoFault, WriteJournal
<1>6. CASE WriteInstalled
  BY <1>6 DEF WriteInstalled, env, ghosts, Goto, Fault, NoFault, WriteJournal, GiveUp
<1>7. CASE InstallStagedOnStartup
  BY <1>7 DEF InstallStagedOnStartup, env, ghosts, Goto, Fault, NoFault, WriteJournal
<1>8. CASE WriteVerified
  BY <1>8 DEF WriteVerified, env, ghosts, Goto, Fault, NoFault, WriteJournal
<1>9. CASE WriteQuarantine
  BY <1>9 DEF WriteQuarantine, env, ghosts, Goto, Fault, NoFault, WriteJournal
<1>10. CASE BeginRollback
  BY <1>10 DEF BeginRollback, env, ghosts, Goto, Fault, NoFault, WriteJournal, GiveUp
<1>11. CASE RemoveJournal
  BY <1>11 DEF RemoveJournal, env, ghosts, Goto, Fault, NoFault, WriteJournal, GiveUp
<1>12. CASE OpenLive
  <2>1. PICK v \in Versions : /\ v = file[Live]["main"] \/ v = Empty
                              /\ parts' = [parts EXCEPT ![v] = Parts]
    BY <1>12, OpenLiveIs
  <2>2. journal'.state \notin Swapped
    BY <1>12 DEF OpenLive, JournalInv, Swapped
  <2> QED  BY <2>1, <2>2, PartsAre DEF GhostTypeOK
<1>13. CASE Quit
  <2>1. parts' = parts \/ parts' = [parts EXCEPT ![file[Live]["main"]] = {"main"}]
    BY <1>13 DEF Quit
  <2>2. parts' # parts => journal'.state \notin Swapped
    BY <1>13 DEF Quit, SessionInv, Swapped
  <2> QED  BY <2>1, <2>2, PartsAre DEF GhostTypeOK
<1> QED  BY <1>1, <1>2, <1>3, <1>4, <1>5, <1>6, <1>7, <1>8, <1>9, <1>10, <1>11, <1>12,
  <1>13 DEF Next, Install, Reconcile, Move

(* The main files keep their versions apart. *)
LEMMA MainsKept ==
    ASSUME JInv, [Next]_vars
    PROVE  MainsInv'
<1>1. \A v \in Versions : "main" \in parts[v] => "main" \in parts'[v]
  BY PartsStep
<1>2. /\ restores \in Int /\ 0 \in Versions /\ None # 0 /\ Empty # 0 /\ None # Empty
      /\ restores + 1 \notin {None, Empty} \union (0 .. restores) \/ restores = MaxRestores
      /\ restores >= 0
  BY RestoreBounds, VersionsAre DEF JInv, Typed, CountTypeOK, None, Empty
<1>3. MainsInv
  BY DEF JInv
<1>4. CASE restores' = restores /\ \A pl \in Places : file'[pl]["main"] = file[pl]["main"]
  BY <1>1, <1>2, <1>3, <1>4 DEF MainsInv
<1>5. CASE /\ restores' = restores /\ file'[Staging]["main"] = None
           /\ \A pl \in Places \ {Staging} : file'[pl]["main"] = file[pl]["main"]
  BY <1>1, <1>2, <1>3, <1>5 DEF MainsInv
<1>6. CASE /\ restores' = restores + 1 /\ file'[Staging]["main"] = restores + 1
           /\ \A pl \in Places \ {Staging} : file'[pl]["main"] = file[pl]["main"]
  <2>1. restores < MaxRestores
    BY <1>6, RestoreBounds, CountsTyped DEF JInv, Typed, CountTypeOK
  <2> QED  BY <1>1, <1>2, <1>3, <1>6, <2>1 DEF MainsInv
<1>7. CASE /\ restores' = restores /\ file[Live]["main"] = None /\ file'[Live]["main"] = Empty
           /\ \A pl \in Places \ {Live} : file'[pl]["main"] = file[pl]["main"]
  BY <1>1, <1>2, <1>3, <1>7 DEF MainsInv
<1>8. CASE \E src, dst \in Places :
             /\ restores' = restores /\ src # dst /\ file[dst]["main"] = None
             /\ file'[dst]["main"] = file[src]["main"] /\ file'[src]["main"] = None
             /\ \A pl \in Places \ {src, dst} : file'[pl]["main"] = file[pl]["main"]
  <2>1. PICK src, dst \in Places :
             /\ restores' = restores /\ src # dst /\ file[dst]["main"] = None
             /\ file'[dst]["main"] = file[src]["main"] /\ file'[src]["main"] = None
             /\ \A pl \in Places \ {src, dst} : file'[pl]["main"] = file[pl]["main"]
    BY <1>8
  <2> QED  BY <1>1, <1>2, <1>3, <2>1 DEF MainsInv
<1> QED  BY <1>4, <1>5, <1>6, <1>7, <1>8, MainsStep

(* Only InstallRestore leads to the first journal. *)
LEMMA PrepareIsFirst ==
    ASSUME JInv, [Next]_vars
    PROVE  pc' = "prepare" => InstallRestore \/ (pc = "prepare" /\ UNCHANGED vars)
<1> USE DEF JInv
<1>1. CASE InstallRestore
  BY <1>1 DEF InstallRestore, env, ghosts, Goto, Fault, NoFault, MayRestore
<1>2. CASE StagingFails
  BY <1>2 DEF StagingFails, env, ghosts, Goto, Fault, NoFault, MayRestore,
    RemoveStagingMain
<1>3. CASE Prepare
  BY <1>3 DEF Prepare, env, ghosts, Goto, Fault, NoFault, RemoveStagingMain
<1>4. CASE CloseSession
  BY <1>4 DEF CloseSession, env, ghosts, Goto, Fault, NoFault, RemoveStagingMain,
    CloseGroup
<1>5. CASE RenameOriginal
  BY <1>5, RenameOriginalIs DEF Goes, MovesGroup, MovesSidecars, StartMove, GiveUp
<1>6. CASE RenameFailed
  BY <1>6 DEF RenameFailed, env, ghosts, Goto, Fault, NoFault, RemoveStagingMain
<1>7. CASE WriteRenamed
  BY <1>7 DEF WriteRenamed, env, ghosts, Goto, Fault, NoFault, WriteJournal
<1>8. CASE InstallStaging
  BY <1>8, InstallStagingIs DEF Goes, MovesGroup, MovesSidecars, StartMove, GiveUp
<1>9. CASE InstallFailed
  BY <1>9 DEF InstallFailed, env, ghosts, Goto, Fault, NoFault
<1>10. CASE WriteInstalled
  BY <1>10 DEF WriteInstalled, env, ghosts, Goto, Fault, NoFault, WriteJournal, GiveUp
<1>11. CASE ReconcileNothing
  BY <1>11 DEF ReconcileNothing, env, ghosts, Goto, Fault, NoFault
<1>12. CASE ReconcilePrepared
  <2>1. ~(Has(Live, "main") /\ FirstRestore)
    BY <1>12, PartsAre DEF ReconcilePrepared, LiveInv, GroupExists, Present
  <2> QED  BY <1>12, <2>1, ReconcilePreparedIs DEF Goes, MovesGroup, MovesSidecars, StartMove
<1>13. CASE ReconcileRenamed
  BY <1>13, ReconcileRenamedIs DEF Goes, MovesGroup, MovesSidecars, StartMove, GiveUp
<1>14. CASE ReconcileLater
  BY <1>14 DEF ReconcileLater, env, ghosts, Goto, Fault, NoFault
<1>15. CASE InstallStagedOnStartup
  BY <1>15 DEF InstallStagedOnStartup, env, ghosts, Goto, Fault, NoFault, WriteJournal
<1>16. CASE InstallNow
  BY <1>16, InstallNowIs DEF Goes, MovesGroup, MovesSidecars, StartMove, GiveUp
<1>17. CASE VerifySucceeds
  BY <1>17 DEF VerifySucceeds, env, ghosts, Goto, Fault, NoFault
<1>18. CASE VerifyFails
  BY <1>18 DEF VerifyFails, env, ghosts, Goto, Fault, NoFault
<1>19. CASE Reset
  BY <1>19 DEF Reset, env, ghosts, Goto, Fault, NoFault, OpenGroup
<1>20. CASE ResetClose
  BY <1>20 DEF ResetClose, env, ghosts, Goto, Fault, NoFault, CloseGroup
<1>21. CASE WriteVerified
  BY <1>21 DEF WriteVerified, env, ghosts, Goto, Fault, NoFault, WriteJournal
<1>22. CASE Finalize
  BY <1>22 DEF Finalize, env, ghosts, Goto, Fault, NoFault, OpenGroup
<1>23. CASE WriteQuarantine
  BY <1>23 DEF WriteQuarantine, env, ghosts, Goto, Fault, NoFault, WriteJournal
<1>24. CASE Quarantine
  BY <1>24, QuarantineIs DEF Goes, MovesGroup, MovesSidecars, StartMove, GiveUp
<1>25. CASE BeginRollback
  BY <1>25 DEF BeginRollback, env, ghosts, Goto, Fault, NoFault, WriteJournal, GiveUp
<1>26. CASE ResumeRollback
  BY <1>26, ResumeRollbackIs DEF Goes, MovesGroup, MovesSidecars, StartMove, GiveUp
<1>27. CASE FinishRecovery
  BY <1>27 DEF FinishRecovery, env, ghosts, Goto, Fault, NoFault, GiveUp
<1>28. CASE RemoveJournal
  BY <1>28 DEF RemoveJournal, env, ghosts, Goto, Fault, NoFault, WriteJournal, GiveUp
<1>29. CASE OpenLive
  BY <1>29 DEF OpenLive, env, ghosts, Goto, Fault, NoFault
<1>30. CASE OpenFails
  BY <1>30 DEF OpenFails, env, ghosts, Goto, Fault, NoFault
<1>31. CASE Quit
  BY <1>31 DEF Quit, env, ghosts, Goto, Fault, NoFault, CloseGroup
<1>32. CASE Crash
  BY <1>32 DEF Crash, env, ghosts, Goto, Fault, NoFault
<1>33. CASE Start
  BY <1>33 DEF Start, env, ghosts, Goto, Fault, NoFault
<1>34. CASE MoveOne
  BY <1>34 DEF MoveOne, env, ghosts, Goto, Fault, NoFault, Rename
<1>35. CASE MoveDone
  <2>1. pc = "moving"
    BY <1>35 DEF MoveDone
  <2>2. OwnMove
    BY <2>1 DEF MoveInv
  <2>3. mv.ok # "prepare" /\ mv.fail # "prepare"
    BY <2>2 DEF OwnMove, MoveIs, GiveUp
  <2> QED  BY <1>35, <2>1, <2>3 DEF MoveDone
<1>36. CASE MoveUndo
  <2>1. pc = "moving"
    BY <1>36 DEF MoveUndo
  <2>2. OwnMove
    BY <2>1 DEF MoveInv
  <2>3. mv.ok # "prepare" /\ mv.fail # "prepare"
    BY <2>2 DEF OwnMove, MoveIs, GiveUp
  <2> QED  BY <1>36, <2>1, <2>3 DEF MoveUndo
<1>37. CASE UNCHANGED vars
  BY <1>37 DEF vars, JInv
<1> QED  BY <1>1, <1>2, <1>3, <1>4, <1>5, <1>6, <1>7, <1>8, <1>9, <1>10, <1>11, <1>12,
  <1>13, <1>14, <1>15, <1>16, <1>17, <1>18, <1>19, <1>20, <1>21, <1>22, <1>23, <1>24,
  <1>25, <1>26, <1>27, <1>28, <1>29, <1>30, <1>31, <1>32, <1>33, <1>34, <1>35, <1>36,
  <1>37 DEF Next, Install, Reconcile, Move

(* What a step does to the staging group: a restore extracts its package there, files go,
   and a move that is undone puts a file of a replacement back. *)
LEMMA StagingStep ==
    ASSUME JInv, [Next]_vars
    PROVE  /\ restores' = restores \/ restores' = restores + 1
           /\ \/ file'[Staging]["main"] = None
              \/ file'[Staging]["main"] = file[Staging]["main"]
              \/ restores' = restores + 1 /\ file'[Staging]["main"] = restores + 1
              \/ /\ file'[Staging]["main"] \in 1 .. restores
                 /\ parts[file'[Staging]["main"]] = {} /\ parts' = parts
           /\ \A s \in Sidecars : file'[Staging][s] \in {None, Blank, file[Staging][s]}
<1> USE DEF JInv, Typed
<1>1. CASE UNCHANGED <<file, restores>>
  BY <1>1 DEF JInv
<1>2. ASSUME (UNCHANGED vars \/ RenameOriginal \/ WriteRenamed \/ InstallStaging \/
             InstallFailed \/ WriteInstalled \/ ReconcileNothing \/ ReconcilePrepared \/
             ReconcileRenamed \/ ReconcileLater \/ InstallStagedOnStartup \/ InstallNow
             \/ VerifyFails \/ WriteVerified \/ WriteQuarantine \/ Quarantine \/
             BeginRollback \/ ResumeRollback \/ RemoveJournal \/ OpenFails \/ Crash \/
             Start \/ MoveDone)
      PROVE  UNCHANGED <<file, restores>>
  BY <1>2 DEF vars, env, ghosts, RenameOriginal, WriteRenamed, InstallStaging,
    InstallFailed, WriteInstalled, ReconcileNothing, ReconcilePrepared,
    ReconcileRenamed, ReconcileLater, InstallStagedOnStartup, InstallNow, VerifyFails,
    WriteVerified, WriteQuarantine, Quarantine, BeginRollback, ResumeRollback,
    RemoveJournal, OpenFails, Crash, Start, MoveDone, WriteJournal
<1>3. CASE InstallRestore
  <2>1. restores' = restores + 1
    BY <1>3 DEF InstallRestore
  <2> QED  BY <1>3, <2>1, InstallRestoreIs
<1>4. CASE StagingFails
  BY <1>4, RemoveStagingMainIs, PlacesDiffer, PartsAre DEF StagingFails, env, ghosts
<1>5. CASE Prepare
  BY <1>5, RemoveStagingMainIs, PlacesDiffer, PartsAre DEF Prepare, env, ghosts
<1>6. CASE CloseSession
  BY <1>6, RemoveStagingMainIs, CloseGroupIs, PlacesDiffer, PartsAre DEF CloseSession, env, ghosts
<1>7. CASE RenameFailed
  BY <1>7, RemoveStagingMainIs, PlacesDiffer, PartsAre DEF RenameFailed, env, ghosts
<1>8. CASE VerifySucceeds
  BY <1>8, VerifySucceedsIs, PlacesDiffer, PartsAre DEF VerifySucceeds, env, ghosts
<1>9. CASE Reset
  BY <1>9, OpenGroupIs, PlacesDiffer, PartsAre DEF Reset, env, ghosts
<1>10. CASE ResetClose
  BY <1>10, CloseGroupIs, PlacesDiffer, PartsAre DEF ResetClose, env, ghosts
<1>11. CASE Finalize
  BY <1>11, OpenGroupIs, PlacesDiffer, PartsAre DEF Finalize, env, ghosts
<1>12. CASE FinishRecovery
  BY <1>12, VersionsAre, PlacesDiffer, PartsAre DEF FinishRecovery, env, ghosts, NoFiles, FileTypeOK
<1>13. CASE OpenLive
  <2>1. restores' = restores
    BY <1>13 DEF OpenLive
  <2> QED  BY <1>13, <2>1, OpenLiveIs, PlacesDiffer
<1>14. CASE Quit
  BY <1>14, CloseGroupIs, PlacesDiffer, PartsAre DEF Quit, env, ghosts
<1>15. CASE MoveOne
  <2>1. restores' = restores /\ pc = "moving" /\ parts' = parts
    BY <1>15, MoveOneIs
  <2>2. /\ mv.src \in Places /\ mv.dst \in Places /\ mv.src # mv.dst /\ mv.dst # Staging
        /\ mv.todo \in SUBSET Parts
    BY <2>1, MovePlaces
  <2>3. CASE file' = file
    BY <2>1, <2>3
  <2>4. CASE file' # file
    <3>1. PICK x \in mv.todo :
             /\ file'[mv.dst][x] = file[mv.src][x] /\ file'[mv.src][x] = None
             /\ \A pl \in Places, y \in Parts :
                  (pl \notin {mv.src, mv.dst} \/ y # x) => file'[pl][y] = file[pl][y]
      BY <1>15, <2>4, MoveOneIs
    <3> QED  BY <2>1, <2>2, <3>1, PartsAre, PlacesDiffer
  <2> QED  BY <2>3, <2>4
<1>16. CASE MoveUndo
  <2>1. restores' = restores /\ pc = "moving" /\ parts' = parts
    BY <1>16, MoveUndoIs
  <2>2. /\ mv.src \in Places /\ mv.dst \in Places /\ mv.src # mv.dst /\ mv.dst # Staging
        /\ mv.done \in SUBSET Parts
    BY <2>1, MovePlaces
  <2>3. CASE file' = file
    BY <2>1, <2>3
  <2>4. CASE file' # file
    <3>1. PICK x \in mv.done :
             /\ file'[mv.src][x] = file[mv.dst][x] /\ file'[mv.dst][x] = None
             /\ \A pl \in Places, y \in Parts :
                  (pl \notin {mv.src, mv.dst} \/ y # x) => file'[pl][y] = file[pl][y]
      BY <1>16, <2>4, MoveUndoIs
    <3>2. CASE mv.src = Staging
      <4>1. mv.dst = Live /\ journal.state = "original-renamed"
        BY <2>1, <2>2, <3>2, MyPlaces, PlacesDiffer DEF MoveInv, OwnMove, MoveIs
      <4>2. Has(Live, x) /\ (x # "main" => file[Live][x] = Blank)
        BY <2>1, <2>2, <3>1, <3>2, <4>1, PartsAre DEF MoveInv, MoveFiles, MoveContents
      <4>3. Has(Live, "main") => /\ file[Live]["main"] \in 1 .. restores
                                 /\ parts[file[Live]["main"]] = {}
        BY <4>1 DEF ReplacementInv, Swapped
      <4> QED  BY <2>1, <2>2, <3>1, <3>2, <4>1, <4>2, <4>3, PartsAre, PlacesDiffer
    <3>3. CASE mv.src # Staging
      BY <2>1, <2>2, <3>1, <3>3, PartsAre, PlacesDiffer
    <3> QED  BY <3>2, <3>3
  <2> QED  BY <2>3, <2>4
<1> QED  BY <1>1, <1>2, <1>3, <1>4, <1>5, <1>6, <1>7, <1>8, <1>9, <1>10, <1>11, <1>12,
  <1>13, <1>14, <1>15, <1>16 DEF Next, Install, Reconcile, Move

(* The staging group is no ledger in use. *)
LEMMA StagingKept ==
    ASSUME JInv, [Next]_vars
    PROVE  StagingInv'
<1>1. restores \in 0 .. MaxRestores /\ restores' \in 0 .. MaxRestores
  BY CountsTyped DEF JInv, Typed, CountTypeOK
<1>2. restores' = restores \/ restores' = restores + 1
  BY StagingStep
<1>3. \A s \in Sidecars : file'[Staging][s] \in {None, Blank}
  BY StagingStep DEF JInv, StagingInv
<1>4. file'[Staging]["main"] \in {None} \union (1 .. restores')
  BY <1>1, <1>2, StagingStep, RestoreBounds DEF JInv, StagingInv
<1>5. ASSUME file'[Staging]["main"] # None
      PROVE  parts'[file'[Staging]["main"]] = {}
  <2>1. file'[Staging]["main"] \in Versions /\ file'[Staging]["main"] # Empty
    BY <1>1, <1>4, <1>5, RestoreBounds DEF Versions, Empty
  <2>2. CASE file'[Staging]["main"] = file[Staging]["main"]
    <3>1. parts[file[Staging]["main"]] = {}
      BY <1>5, <2>2 DEF JInv, StagingInv
    <3>2. file[Staging]["main"] # file[Live]["main"]
      BY <1>5, <2>1, <2>2, PlacesDiffer DEF JInv, MainsInv
    <3> QED  BY <2>1, <2>2, <3>1, <3>2, PartsStep
  <2>3. CASE restores' = restores + 1 /\ file'[Staging]["main"] = restores + 1
    <3>1. parts[restores + 1] = {}
      BY <1>1, <2>1, <2>3, RestoreBounds DEF JInv, FreshInv
    <3>2. file[Live]["main"] # restores + 1
      BY <1>1, <2>1, <2>3, PlacesDiffer, RestoreBounds DEF JInv, MainsInv, None
    <3> QED  BY <2>1, <2>3, <3>1, <3>2, PartsStep
  <2> QED  BY <1>5, <2>2, <2>3, StagingStep
<1>6. ASSUME pc' = "prepare"
      PROVE  file'[Staging]["main"] = restores'
  <2>1. CASE InstallRestore
    BY <2>1, InstallRestoreIs DEF InstallRestore, JInv
  <2>2. CASE pc = "prepare" /\ UNCHANGED vars
    BY <2>2 DEF vars, JInv, StagingInv
  <2> QED  BY <1>6, <2>1, <2>2, PrepareIsFirst
<1> QED  BY <1>3, <1>4, <1>5, <1>6 DEF StagingInv

(* A step changes the live and the staging group, and a move the groups of its restore. *)
LEMMA PlacesStep ==
    ASSUME JInv, [Next]_vars
    PROVE  \A pl \in Places : file'[pl] # file[pl] =>
              \/ pl \in {Live, Staging}
              \/ pc = "moving" /\ journal.state # "none" /\ pl \in {MySafety, MyFailed}
<1> USE DEF JInv, Typed
<1>1. CASE UNCHANGED <<file>>
  BY <1>1 DEF JInv
<1>2. ASSUME (UNCHANGED vars \/ RenameOriginal \/ WriteRenamed \/ InstallStaging \/
             InstallFailed \/ WriteInstalled \/ ReconcileNothing \/ ReconcilePrepared \/
             ReconcileRenamed \/ ReconcileLater \/ InstallStagedOnStartup \/ InstallNow
             \/ VerifyFails \/ WriteVerified \/ WriteQuarantine \/ Quarantine \/
             BeginRollback \/ ResumeRollback \/ RemoveJournal \/ OpenFails \/ Crash \/
             Start \/ MoveDone)
      PROVE  UNCHANGED <<file>>
  BY <1>2 DEF vars, env, ghosts, RenameOriginal, WriteRenamed, InstallStaging,
    InstallFailed, WriteInstalled, ReconcileNothing, ReconcilePrepared,
    ReconcileRenamed, ReconcileLater, InstallStagedOnStartup, InstallNow, VerifyFails,
    WriteVerified, WriteQuarantine, Quarantine, BeginRollback, ResumeRollback,
    RemoveJournal, OpenFails, Crash, Start, MoveDone, WriteJournal
<1>3. CASE InstallRestore
  BY <1>3, InstallRestoreIs
<1>4. CASE StagingFails
  BY <1>4, RemoveStagingMainIs, PlacesDiffer DEF StagingFails
<1>5. CASE Prepare
  BY <1>5, RemoveStagingMainIs, PlacesDiffer DEF Prepare
<1>6. CASE CloseSession
  BY <1>6, RemoveStagingMainIs, CloseGroupIs, PlacesDiffer DEF CloseSession
<1>7. CASE RenameFailed
  BY <1>7, RemoveStagingMainIs, PlacesDiffer DEF RenameFailed
<1>8. CASE VerifySucceeds
  BY <1>8, VerifySucceedsIs, PlacesDiffer DEF VerifySucceeds
<1>9. CASE Reset
  BY <1>9, OpenGroupIs, PlacesDiffer DEF Reset
<1>10. CASE ResetClose
  BY <1>10, CloseGroupIs, PlacesDiffer DEF ResetClose
<1>11. CASE Finalize
  BY <1>11, OpenGroupIs, PlacesDiffer DEF Finalize
<1>12. CASE FinishRecovery
  BY <1>12, PlacesDiffer DEF FinishRecovery, FileTypeOK
<1>13. CASE OpenLive
  BY <1>13, OpenLiveIs
<1>14. CASE Quit
  BY <1>14, CloseGroupIs, PlacesDiffer DEF Quit
<1>15. CASE MoveOne
  <2>1. pc = "moving"
    BY <1>15, MoveOneIs
  <2>2. journal.state # "none" /\ mv.src \in {Live, Staging, MySafety} /\ mv.dst \in {Live, MySafety, MyFailed}
    BY <2>1 DEF MoveInv, OwnMove, MoveIs
  <2> QED  BY <1>15, <2>1, <2>2, MoveOneIs
<1>16. CASE MoveUndo
  <2>1. pc = "moving"
    BY <1>16, MoveUndoIs
  <2>2. journal.state # "none" /\ mv.src \in {Live, Staging, MySafety} /\ mv.dst \in {Live, MySafety, MyFailed}
    BY <2>1 DEF MoveInv, OwnMove, MoveIs
  <2> QED  BY <1>16, <2>1, <2>2, MoveUndoIs
<1> QED  BY <1>1, <1>2, <1>3, <1>4, <1>5, <1>6, <1>7, <1>8, <1>9, <1>10, <1>11, <1>12,
  <1>13, <1>14, <1>15, <1>16 DEF Next, Install, Reconcile, Move

(* The names of the next restores are not taken. *)
LEMMA UnusedKept ==
    ASSUME JInv, [Next]_vars
    PROVE  UnusedInv'
<1>1. restores \in 0 .. MaxRestores /\ restores' \in 0 .. MaxRestores
  BY CountsTyped DEF JInv, Typed, CountTypeOK
<1>2. restores' = restores \/ restores' = restores + 1
  BY StagingStep
<1>3. SUFFICES ASSUME NEW k \in 1 .. MaxRestores, k > restores' \/ (k = restores' /\ pc' = "prepare")
               PROVE  \A x \in Parts : /\ file'[Safety(k)][x] = None
                                       /\ file'[Failed(k)][x] = None
  BY DEF UnusedInv, Has
<1>4. k > restores \/ (k = restores /\ pc = "prepare")
  <2>1. CASE k > restores'
    BY <1>1, <1>2, <2>1, RestoreBounds
  <2>2. CASE k = restores' /\ pc' = "prepare"
    <3>1. CASE InstallRestore
      BY <1>1, <2>2, <3>1, RestoreBounds DEF InstallRestore
    <3>2. CASE pc = "prepare" /\ UNCHANGED vars
      BY <2>2, <3>2 DEF vars
    <3> QED  BY <2>2, <3>1, <3>2, PrepareIsFirst
  <2> QED  BY <1>3, <2>1, <2>2
<1>5. \A x \in Parts : file[Safety(k)][x] = None /\ file[Failed(k)][x] = None
  BY <1>4 DEF JInv, UnusedInv, Has
<1>6. file'[Safety(k)] = file[Safety(k)] /\ file'[Failed(k)] = file[Failed(k)]
  <2>1. Safety(k) \in Places /\ Failed(k) \in Places
        /\ Safety(k) \notin {Live, Staging} /\ Failed(k) \notin {Live, Staging}
    BY PlacesDiffer
  <2>2. ASSUME pc = "moving", journal.state # "none"
        PROVE  Safety(k) \notin {MySafety, MyFailed} /\ Failed(k) \notin {MySafety, MyFailed}
    <3>1. journal.n \in 1 .. MaxRestores /\ journal.n <= restores
      BY <2>2, MyPlaces DEF JInv
    <3>2. k # journal.n
      BY <1>1, <1>4, <2>2, <3>1, RestoreBounds
    <3> QED  BY <3>1, <3>2, PlacesDiffer DEF MySafety, MyFailed
  <2> QED  BY <2>1, <2>2, PlacesStep
<1> QED  BY <1>5, <1>6

(* Ledgers in use are the original, an empty one, or a package that was installed. *)
LEMMA FreshKept ==
    ASSUME JInv, [Next]_vars
    PROVE  FreshInv'
<1>1. restores \in 0 .. MaxRestores /\ restores' \in 0 .. MaxRestores
  BY CountsTyped DEF JInv, Typed, CountTypeOK
<1>2. restores' = restores \/ restores' = restores + 1
  BY StagingStep
<1>3. SUFFICES ASSUME NEW v \in Versions, v > restores', v # Empty
               PROVE  parts'[v] = {}
  BY DEF FreshInv
<1>4. v > restores /\ parts[v] = {}
  BY <1>1, <1>2, <1>3, VersionsAre, RestoreBounds DEF JInv, FreshInv, Versions, Empty
<1>5. v # file[Live]["main"]
  BY <1>1, <1>3, <1>4, PlacesDiffer, VersionsAre, RestoreBounds DEF JInv, MainsInv, Versions, Empty, None
<1> QED  BY <1>3, <1>4, <1>5, PartsStep

(* A replacement stays apart from the ledgers in use. *)
LEMMA ReplacementKept ==
    ASSUME JInv, [Next]_vars
    PROVE  ReplacementInv'
<1> USE DEF JInv, Typed, Swapped, ReplacementInv, Has
<1>1. CASE UNCHANGED <<file, journal, parts, restores>>
  BY <1>1 DEF ReplacementInv
<1>2. ASSUME (UNCHANGED vars \/ RenameOriginal \/ InstallStaging \/ InstallFailed \/
             ReconcileNothing \/ ReconcilePrepared \/ ReconcileRenamed \/ ReconcileLater
             \/ InstallNow \/ VerifyFails \/ Quarantine \/ ResumeRollback \/ OpenFails \/
             Crash \/ Start \/ MoveDone)
      PROVE  UNCHANGED <<file, journal, parts, restores>>
  BY <1>2 DEF vars, env, ghosts, RenameOriginal, InstallStaging, InstallFailed,
    ReconcileNothing, ReconcilePrepared, ReconcileRenamed, ReconcileLater, InstallNow,
    VerifyFails, Quarantine, ResumeRollback, OpenFails, Crash, Start, MoveDone
<1>3. CASE InstallRestore
  <2>1. /\ file'[Live] = file[Live] /\ journal' = journal /\ parts' = parts
        /\ restores' = restores + 1 /\ restores \in Int
    BY <1>3, InstallRestoreIs, PlacesDiffer DEF InstallRestore, ghosts, CountTypeOK
  <2> QED  BY <2>1
<1>4. CASE StagingFails
  BY <1>4, RemoveStagingMainIs, PlacesDiffer, PartsAre DEF StagingFails, env, ghosts
<1>5. CASE Prepare
  <2>1. file'[Live] = file[Live] /\ restores' = restores
    BY <1>5, RemoveStagingMainIs, PlacesDiffer DEF Prepare
  <2>2. journal'.state = "prepared" \/ (journal' = journal /\ parts' = parts)
    BY <1>5 DEF Prepare
  <2> QED  BY <2>1, <2>2
<1>6. CASE CloseSession
  <2>1. journal.state = "prepared"
    BY <1>6 DEF CloseSession, JournalInv
  <2>2. journal' = journal \/ journal' = NoJournal
    BY <1>6 DEF CloseSession
  <2> QED  BY <2>1, <2>2 DEF NoJournal
<1>7. CASE RenameFailed
  BY <1>7, RemoveStagingMainIs, PlacesDiffer, PartsAre DEF RenameFailed, env, ghosts
<1>8. CASE WriteRenamed
  <2>1. file' = file /\ restores' = restores /\ parts' = parts
    BY <1>8 DEF WriteRenamed, WriteJournal, env, ghosts
  <2>2. journal.state \in {"prepared"}
    BY <1>8 DEF WriteRenamed, JournalInv
  <2>3. journal' = journal \/ journal' = [journal EXCEPT !.state = "original-renamed"]
    BY <1>8 DEF WriteRenamed, WriteJournal
  <2>4. journal \in JournalRecords
    BY <2>2 DEF JournalTypeOK, NoJournal
  <2>5. journal'.state \in {journal.state, "original-renamed"}
    BY <2>3, <2>4 DEF JournalRecords
  <2>6. \A x \in Parts : ~Has(Live, x)
    BY <1>8 DEF WriteRenamed, LiveInv, GroupExists, Present
  <2> QED  BY <2>1, <2>2, <2>5, <2>6, PartsAre
<1>9. CASE WriteInstalled
  <2>1. file' = file /\ restores' = restores /\ parts' = parts
    BY <1>9 DEF WriteInstalled, WriteJournal, env, ghosts
  <2>2. journal.state \in {"original-renamed"}
    BY <1>9 DEF WriteInstalled, JournalInv
  <2>3. journal' = journal \/ journal' = [journal EXCEPT !.state = "replacement-installed"]
    BY <1>9 DEF WriteInstalled, WriteJournal
  <2>4. journal \in JournalRecords
    BY <2>2 DEF JournalTypeOK, NoJournal
  <2>5. journal'.state \in {journal.state, "replacement-installed"}
    BY <2>3, <2>4 DEF JournalRecords
  <2> QED  BY <2>1, <2>2, <2>5
<1>10. CASE InstallStagedOnStartup
  <2>1. file' = file /\ restores' = restores /\ parts' = parts
    BY <1>10 DEF InstallStagedOnStartup, WriteJournal, env, ghosts
  <2>2. journal.state \in {"prepared", "original-renamed"}
    BY <1>10 DEF InstallStagedOnStartup, JournalInv
  <2>3. journal' = journal \/ journal' = [journal EXCEPT !.state = "original-renamed"]
    BY <1>10 DEF InstallStagedOnStartup, WriteJournal
  <2>4. journal \in JournalRecords
    BY <2>2 DEF JournalTypeOK, NoJournal
  <2>5. journal'.state \in {journal.state, "original-renamed"}
    BY <2>3, <2>4 DEF JournalRecords
  <2>6. \A x \in Parts : ~Has(Live, x)
    BY <1>10 DEF InstallStagedOnStartup, LiveInv, GroupExists, Present
  <2> QED  BY <2>1, <2>2, <2>5, <2>6, PartsAre
<1>11. CASE VerifySucceeds
  BY <1>11, VerifySucceedsIs, PlacesDiffer, PartsAre DEF VerifySucceeds, env, ghosts
<1>12. CASE Reset
  BY <1>12, OpenGroupIs, PlacesDiffer, PartsAre DEF Reset, env, ghosts
<1>13. CASE ResetClose
  BY <1>13, CloseGroupIs, PlacesDiffer, PartsAre DEF ResetClose, env, ghosts
<1>14. CASE WriteVerified
  <2>1. file' = file /\ restores' = restores /\ parts' = parts
    BY <1>14 DEF WriteVerified, WriteJournal, env, ghosts
  <2>2. journal.state \in {"original-renamed", "replacement-installed"}
    BY <1>14 DEF WriteVerified, JournalInv
  <2>3. journal' = journal \/ journal' = [journal EXCEPT !.state = "verified"]
    BY <1>14 DEF WriteVerified, WriteJournal
  <2>4. journal \in JournalRecords
    BY <2>2 DEF JournalTypeOK, NoJournal
  <2>5. journal'.state \in {journal.state, "verified"}
    BY <2>3, <2>4 DEF JournalRecords
  <2> QED  BY <2>1, <2>2, <2>5
<1>15. CASE Finalize
  BY <1>15, OpenGroupIs, PlacesDiffer, PartsAre DEF Finalize, env, ghosts
<1>16. CASE WriteQuarantine
  <2>1. file' = file /\ restores' = restores /\ parts' = parts
    BY <1>16 DEF WriteQuarantine, WriteJournal, env, ghosts
  <2>2. journal.state \in {"original-renamed", "replacement-installed", "verified"}
    BY <1>16 DEF WriteQuarantine, JournalInv
  <2>3. journal' = journal \/ journal' = [journal EXCEPT !.state = "quarantining"]
    BY <1>16 DEF WriteQuarantine, WriteJournal
  <2>4. journal \in JournalRecords
    BY <2>2 DEF JournalTypeOK, NoJournal
  <2>5. journal'.state \in {journal.state, "quarantining"}
    BY <2>3, <2>4 DEF JournalRecords
  <2> QED  BY <2>1, <2>2, <2>5
<1>17. CASE BeginRollback
  <2>1. file' = file /\ restores' = restores /\ parts' = parts
    BY <1>17 DEF BeginRollback, WriteJournal, env, ghosts
  <2>2. journal.state \in JournalStates
    BY <1>17 DEF BeginRollback, JournalInv, JournalTypeOK, JournalRecords, NoJournal
  <2>3. journal' = journal \/ journal' = [journal EXCEPT !.state = "rolling-back"]
    BY <1>17 DEF BeginRollback, WriteJournal
  <2>4. journal \in JournalRecords
    BY <2>2 DEF JournalTypeOK, NoJournal, JournalStates
  <2>5. journal'.state \in {journal.state, "rolling-back"}
    BY <2>3, <2>4 DEF JournalRecords
  <2> QED  BY <2>1, <2>2, <2>5
<1>18. CASE FinishRecovery
  BY <1>18, VersionsAre, PlacesDiffer, PartsAre DEF FinishRecovery, env, ghosts, FileTypeOK
<1>19. CASE RemoveJournal
  BY <1>19 DEF RemoveJournal, WriteJournal, NoJournal, env, ghosts
<1>20. CASE OpenLive
  BY <1>20 DEF OpenLive, JournalInv
<1>21. CASE Quit
  <2>1. CASE session = "open"
    BY <1>21, <2>1 DEF Quit, SessionInv
  <2>2. CASE session # "open"
    BY <1>21, <2>2 DEF Quit
  <2> QED  BY <2>1, <2>2
<1>22. CASE MoveOne
  <2>1. /\ pc = "moving" /\ ~mv.undo /\ journal' = journal /\ parts' = parts
        /\ restores' = restores
    BY <1>22, MoveOneIs
  <2>2. OwnMove /\ MoveFiles
    BY <2>1 DEF MoveInv
  <2>3. journal.state # "none" /\ mv.todo \in SUBSET Parts
    BY <2>1, MovePlaces
  <2>4. CASE file' = file
    BY <2>1, <2>4
  <2>5. CASE file' # file /\ journal.state \in Swapped
    <3>1. PICK x \in mv.todo :
             /\ "main" \in mv.todo => x = "main"
             /\ file'[mv.dst][x] = file[mv.src][x] /\ file'[mv.src][x] = None
             /\ \A pl \in Places, y \in Parts :
                  (pl \notin {mv.src, mv.dst} \/ y # x) => file'[pl][y] = file[pl][y]
      BY <1>22, <2>5, MoveOneIs
    <3>2. x \in Parts /\ Has(mv.src, x)
      BY <2>2, <2>3, <3>1 DEF MoveFiles
    <3>3. CASE mv.src = Staging /\ mv.dst = Live
      <4>1. file[Staging]["main"] # None =>
               /\ file[Staging]["main"] \in 1 .. restores
               /\ parts[file[Staging]["main"]] = {}
        BY DEF StagingInv
      <4>2. \A s \in Sidecars : file[Staging][s] \in {None, Blank}
        BY DEF StagingInv
      <4>3. ~Has(Live, x)
        BY <2>2, <3>1, <3>3 DEF MoveFiles
      <4> QED  BY <2>1, <3>1, <3>2, <3>3, <4>1, <4>2, <4>3, PartsAre, PlacesDiffer
    <3>4. CASE mv.src = Live /\ mv.dst \in {MySafety, MyFailed}
      <4>1. \A y \in Parts : y # x => file'[Live][y] = file[Live][y]
        BY <3>1, PlacesDiffer
      <4>2. file'[Live][x] = None
        BY <3>1, <3>4
      <4>3. x = "main" => journal.state = "quarantining"
        BY <2>2, <2>5, <3>1, <3>4, MyPlaces, PlacesDiffer DEF OwnMove, MoveIs, MoveFiles
      <4> QED  BY <2>1, <3>2, <4>1, <4>2, <4>3, PartsAre
    <3> QED  BY <2>2, <2>5, <3>3, <3>4 DEF OwnMove, MoveIs
  <2>6. CASE journal.state \notin Swapped
    BY <2>1, <2>6
  <2> QED  BY <2>4, <2>5, <2>6
<1>23. CASE MoveUndo
  <2>1. /\ pc = "moving" /\ mv.undo /\ journal' = journal /\ parts' = parts
        /\ restores' = restores
    BY <1>23, MoveUndoIs
  <2>2. OwnMove /\ MoveFiles /\ MoveContents
    BY <2>1 DEF MoveInv
  <2>3. journal.state # "none" /\ mv.done \in SUBSET Parts
    BY <2>1, MovePlaces
  <2>4. CASE file' = file
    BY <2>1, <2>4
  <2>5. CASE file' # file /\ journal.state \in Swapped
    <3>1. PICK x \in mv.done :
             /\ x = "main" => mv.done = {"main"}
             /\ file'[mv.src][x] = file[mv.dst][x] /\ file'[mv.dst][x] = None
             /\ \A pl \in Places, y \in Parts :
                  (pl \notin {mv.src, mv.dst} \/ y # x) => file'[pl][y] = file[pl][y]
      BY <1>23, <2>5, MoveUndoIs
    <3>2. x \in Parts
      BY <2>3, <3>1
    <3>3. CASE mv.src = Staging /\ mv.dst = Live
      <4>1. \A y \in Parts : y # x => file'[Live][y] = file[Live][y]
        BY <3>1, PlacesDiffer
      <4>2. file'[Live][x] = None
        BY <3>1, <3>3
      <4>3. x = "main" => \A s \in Sidecars : file[Live][s] = None
        BY <2>2, <3>1, <3>3, PartsAre DEF MoveFiles
      <4> QED  BY <2>1, <3>2, <4>1, <4>2, <4>3, PartsAre
    <3>4. CASE mv.src = Live /\ mv.dst = MySafety /\ journal.state = "original-renamed"
      <4>1. file[MySafety][x] = Blank /\ x # "main"
        BY <2>2, <3>1, <3>4, MyPlaces, PlacesDiffer DEF MoveContents, OwnMove, MoveIs, MoveFiles
      <4>2. \A y \in Parts : y # x => file'[Live][y] = file[Live][y]
        BY <3>1, PlacesDiffer
      <4>3. file'[Live][x] = Blank
        BY <3>1, <3>4, <4>1
      <4> QED  BY <2>1, <3>2, <4>1, <4>2, <4>3, PartsAre
    <3>5. CASE mv.src = Live /\ mv.dst = MyFailed /\ journal.state = "quarantining"
      <4>1. \A y \in Parts : y # x => file'[Live][y] = file[Live][y]
        BY <3>1, PlacesDiffer
      <4>2. x = "main" => /\ file[MyFailed]["main"] \in 1 .. restores
                          /\ parts[file[MyFailed]["main"]] = {}
        BY <2>2, <3>1, <3>5 DEF MoveContents
      <4>3. file'[Live][x] = file[MyFailed][x]
        BY <3>1, <3>5
      <4> QED  BY <2>1, <3>2, <3>5, <4>1, <4>2, <4>3, PartsAre
    <3> QED  BY <2>2, <2>5, <3>3, <3>4, <3>5 DEF OwnMove, MoveIs
  <2>6. CASE journal.state \notin Swapped
    BY <2>1, <2>6
  <2> QED  BY <2>4, <2>5, <2>6
<1> QED  BY <1>1, <1>2, <1>3, <1>4, <1>5, <1>6, <1>7, <1>8, <1>9, <1>10, <1>11, <1>12,
  <1>13, <1>14, <1>15, <1>16, <1>17, <1>18, <1>19, <1>20, <1>21, <1>22, <1>23 DEF Next,
  Install, Reconcile, Move


-----------------------------------------------------------------------------
(* The steps *)

(* Where a move may lead, and what its restore's journal is. *)
LEMMA MoveEnds ==
    ASSUME Typed, MoveInv, pc = "moving"
    PROVE  /\ journal.state \in {"prepared", "original-renamed", "quarantining", "rolling-back"}
           /\ mv.ok \in {"renamed", "installed", "beginrollback", "finish", "verify"}
           /\ mv.fail \in {"renamefailed", "installfailed", "blocked", "quit"}
           /\ mv.ok = "renamed" \/ mv.fail = "renamefailed" =>
                 /\ journal.state = "prepared" /\ ~starting
                 /\ mv.src = Live /\ mv.dst = MySafety /\ ~mv.strict
           /\ mv.fail = "installfailed" => journal.state = "original-renamed" /\ ~starting
           /\ mv.ok = "installed" => journal.state = "original-renamed"
           /\ mv.ok = "verify" => journal.state = "original-renamed" /\ starting
           /\ mv.ok = "beginrollback" => journal.state # "rolling-back"
           /\ mv.ok = "finish" =>
                 /\ journal.state \in {"prepared", "rolling-back"}
                 /\ mv.src = MySafety /\ mv.dst = Live
                 /\ Has(Live, "main") \/ Has(MySafety, "main")
           /\ mv.fail = "quit" => ~starting
BY DEF MoveInv, OwnMove, MoveIs, GiveUp

(* The journal says how far the restore is. *)
LEMMA JournalKept ==
    ASSUME JInv, [Next]_vars
    PROVE  JournalInv'
<1> USE DEF JInv, Typed, JournalInv, FirstRestore
<1>1. CASE UNCHANGED <<pc, journal, starting>>
  BY <1>1 DEF JournalInv
<1>2. ASSUME (UNCHANGED vars \/ StagingFails \/ MoveOne)
      PROVE  UNCHANGED <<pc, journal, starting>>
  BY <1>2 DEF vars, env, ghosts, StagingFails, MoveOne
<1>3. CASE InstallRestore
  BY <1>3 DEF InstallRestore, env, ghosts, Goto, Fault, NoFault, MayRestore
<1>4. CASE Prepare
  <2>1. session = "open" => Has(Live, "main")
    BY DEF SessionInv
  <2>2. session = "open" => GroupExists(Live)
    BY <2>1, PartsAre DEF GroupExists, Present
  <2> QED  BY <1>4, <2>2 DEF Prepare, Goto
<1>5. CASE CloseSession
  BY <1>5 DEF CloseSession, env, ghosts, Goto, Fault, NoFault, RemoveStagingMain,
    CloseGroup, NoJournal
<1>6. CASE RenameOriginal
  BY <1>6, RenameOriginalIs DEF Goes, MovesGroup, MovesSidecars, StartMove, GiveUp
<1>7. CASE RenameFailed
  BY <1>7 DEF RenameFailed, env, ghosts, Goto, Fault, NoFault, RemoveStagingMain
<1>8. CASE WriteRenamed
  <2>1. journal.state \in {"prepared"}
    BY <1>8 DEF WriteRenamed
  <2>2. journal \in JournalRecords
    BY <2>1 DEF JournalTypeOK, NoJournal
  <2>3. [journal EXCEPT !.state = "original-renamed"].state = "original-renamed"
    BY <2>2 DEF JournalRecords
  <2> QED  BY <1>8, <2>1, <2>3 DEF WriteRenamed, WriteJournal, Goto, GiveUp
<1>9. CASE InstallStaging
  BY <1>9, InstallStagingIs DEF Goes, MovesGroup, MovesSidecars, StartMove, GiveUp
<1>10. CASE InstallFailed
  BY <1>10 DEF InstallFailed, env, ghosts, Goto, Fault, NoFault
<1>11. CASE WriteInstalled
  <2>1. journal.state \in {"original-renamed"}
    BY <1>11 DEF WriteInstalled
  <2>2. journal \in JournalRecords
    BY <2>1 DEF JournalTypeOK, NoJournal
  <2>3. [journal EXCEPT !.state = "replacement-installed"].state = "replacement-installed"
    BY <2>2 DEF JournalRecords
  <2> QED  BY <1>11, <2>1, <2>3 DEF WriteInstalled, WriteJournal, Goto, GiveUp
<1>12. CASE ReconcileNothing
  BY <1>12 DEF ReconcileNothing, env, ghosts, Goto, Fault, NoFault
<1>13. CASE ReconcilePrepared
  <2>1. ~(Has(Live, "main") /\ FirstRestore)
    BY <1>13, PartsAre DEF ReconcilePrepared, LiveInv, GroupExists, Present
  <2> QED  BY <1>13, <2>1, ReconcilePreparedIs DEF Goes, MovesGroup, MovesSidecars, StartMove
<1>14. CASE ReconcileRenamed
  BY <1>14, ReconcileRenamedIs DEF Goes, MovesGroup, MovesSidecars, StartMove, GiveUp
<1>15. CASE ReconcileLater
  BY <1>15 DEF ReconcileLater, env, ghosts, Goto, Fault, NoFault
<1>16. CASE InstallStagedOnStartup
  <2>1. journal.state \in {"prepared", "original-renamed"}
    BY <1>16 DEF InstallStagedOnStartup
  <2>2. journal \in JournalRecords
    BY <2>1 DEF JournalTypeOK, NoJournal
  <2>3. [journal EXCEPT !.state = "original-renamed"].state = "original-renamed"
    BY <2>2 DEF JournalRecords
  <2> QED  BY <1>16, <2>1, <2>3 DEF InstallStagedOnStartup, WriteJournal, Goto, GiveUp
<1>17. CASE InstallNow
  BY <1>17, InstallNowIs DEF Goes, MovesGroup, MovesSidecars, StartMove, GiveUp
<1>18. CASE VerifySucceeds
  BY <1>18 DEF VerifySucceeds, env, ghosts, Goto, Fault, NoFault
<1>19. CASE VerifyFails
  BY <1>19 DEF VerifyFails, env, ghosts, Goto, Fault, NoFault
<1>20. CASE Reset
  BY <1>20 DEF Reset, env, ghosts, Goto, Fault, NoFault, OpenGroup
<1>21. CASE ResetClose
  BY <1>21 DEF ResetClose, env, ghosts, Goto, Fault, NoFault, CloseGroup
<1>22. CASE WriteVerified
  <2>1. journal.state \in {"original-renamed", "replacement-installed"}
    BY <1>22 DEF WriteVerified
  <2>2. journal \in JournalRecords
    BY <2>1 DEF JournalTypeOK, NoJournal
  <2>3. [journal EXCEPT !.state = "verified"].state = "verified"
    BY <2>2 DEF JournalRecords
  <2> QED  BY <1>22, <2>1, <2>3 DEF WriteVerified, WriteJournal, Goto, GiveUp
<1>23. CASE Finalize
  BY <1>23 DEF Finalize, env, ghosts, Goto, Fault, NoFault, OpenGroup
<1>24. CASE WriteQuarantine
  <2>1. journal.state \in {"original-renamed", "replacement-installed", "verified"}
    BY <1>24 DEF WriteQuarantine
  <2>2. journal \in JournalRecords
    BY <2>1 DEF JournalTypeOK, NoJournal
  <2>3. [journal EXCEPT !.state = "quarantining"].state = "quarantining"
    BY <2>2 DEF JournalRecords
  <2> QED  BY <1>24, <2>1, <2>3 DEF WriteQuarantine, WriteJournal, Goto, GiveUp
<1>25. CASE Quarantine
  BY <1>25, QuarantineIs DEF Goes, MovesGroup, MovesSidecars, StartMove, GiveUp
<1>26. CASE BeginRollback
  <2>1. journal.state \in JournalStates
    BY <1>26 DEF BeginRollback, JournalTypeOK, JournalRecords, NoJournal, JournalStates
  <2>2. journal \in JournalRecords
    BY <2>1 DEF JournalTypeOK, JournalRecords, NoJournal, JournalStates
  <2>3. [journal EXCEPT !.state = "rolling-back"].state = "rolling-back"
    BY <2>2 DEF JournalRecords
  <2> QED  BY <1>26, <2>1, <2>3 DEF BeginRollback, WriteJournal, Goto, GiveUp
<1>27. CASE ResumeRollback
  BY <1>27, ResumeRollbackIs DEF Goes, MovesGroup, MovesSidecars, StartMove, GiveUp
<1>28. CASE FinishRecovery
  BY <1>28 DEF FinishRecovery, env, ghosts, Goto, Fault, NoFault, GiveUp
<1>29. CASE RemoveJournal
  BY <1>29 DEF RemoveJournal, env, ghosts, Goto, Fault, NoFault, WriteJournal, GiveUp,
    NoJournal
<1>30. CASE OpenLive
  BY <1>30 DEF OpenLive, env, ghosts, Goto, Fault, NoFault
<1>31. CASE OpenFails
  BY <1>31 DEF OpenFails, env, ghosts, Goto, Fault, NoFault
<1>32. CASE Quit
  BY <1>32 DEF Quit, env, ghosts, Goto, Fault, NoFault, CloseGroup
<1>33. CASE Crash
  BY <1>33 DEF Crash, env, ghosts, Goto, Fault, NoFault
<1>34. CASE Start
  BY <1>34 DEF Start, env, ghosts, Goto, Fault, NoFault
<1>35. CASE MoveDone
  BY <1>35, MoveEnds DEF MoveDone
<1>36. CASE MoveUndo
  <2>1. /\ pc' \in {pc, mv.fail} /\ journal' = journal /\ starting' = starting
        /\ pc = "moving"
    BY <1>36 DEF MoveUndo
  <2> QED  BY <2>1, MoveEnds
<1> QED  BY <1>1, <1>2, <1>3, <1>4, <1>5, <1>6, <1>7, <1>8, <1>9, <1>10, <1>11, <1>12,
  <1>13, <1>14, <1>15, <1>16, <1>17, <1>18, <1>19, <1>20, <1>21, <1>22, <1>23, <1>24,
  <1>25, <1>26, <1>27, <1>28, <1>29, <1>30, <1>31, <1>32, <1>33, <1>34, <1>35, <1>36 DEF
  Next, Install, Reconcile, Move

(* A main file that is there is a version of the ledger. *)
LEMMA MainVersion ==
    ASSUME Typed, MainsInv, NEW pl \in Places, Has(pl, "main")
    PROVE  file[pl]["main"] \in Versions
<1>1. 0 .. restores \subseteq Versions
  BY RestoreBounds DEF Typed, CountTypeOK, Versions, Empty
<1> QED  BY <1>1, VersionsAre DEF MainsInv, Has

(* An open session owns the live group. *)
LEMMA SessionKept ==
    ASSUME JInv, [Next]_vars
    PROVE  SessionInv'
<1> USE DEF JInv, Typed, SessionInv, Has
<1>1. CASE InstallRestore
  <2>1. /\ file'[Live] = file[Live] /\ journal' = journal /\ session' = session
        /\ pc' = "prepare" /\ parts' = parts
    BY <1>1, InstallRestoreIs, PlacesDiffer DEF InstallRestore, Goto, ghosts
  <2> QED  BY <2>1, PartsAre
<1>2. CASE StagingFails
  <2>1. /\ file'[Live] = file[Live] /\ journal' = journal /\ session' = session
        /\ pc' = pc /\ pc # "close" /\ parts' = parts
    BY <1>2, RemoveStagingMainIs, PlacesDiffer DEF StagingFails, MayRestore, env, ghosts
  <2> QED  BY <2>1, PartsAre
<1>3. CASE Prepare
  <2>1. file'[Live] = file[Live] /\ session' = session /\ pc' \in {"close", "rename", "quit"}
    BY <1>3, RemoveStagingMainIs, PlacesDiffer DEF Prepare, Goto
  <2>2. session # "open" => pc' # "close"
    BY <1>3 DEF Prepare, Goto
  <2>3. pc' \in {"close", "quit"} \/ session # "open"
    BY <1>3 DEF Prepare, Goto
  <2>4. journal' = journal \/ journal'.state = "prepared"
    BY <1>3 DEF Prepare
  <2>5. ASSUME pc' = "close"
        PROVE  parts'[file'[Live]["main"]] = {"main"}
    <3>1. session = "open" /\ Has(Live, "main")
      BY <2>2, <2>5
    <3>2. file[Live]["main"] \in Versions
      BY <3>1, MainVersion, PlacesDiffer
    <3>3. parts' = [parts EXCEPT ![file[Live]["main"]] = {"main"}]
      BY <1>3, <2>5, <3>1 DEF Prepare, Goto
    <3> QED  BY <2>1, <3>2, <3>3 DEF GhostTypeOK
  <2>6. session = "open" => "main" \in parts'[file'[Live]["main"]]
    BY <2>1, PartsStep, MainVersion, PlacesDiffer
  <2> QED  BY <2>1, <2>2, <2>3, <2>4, <2>5, <2>6, PartsAre
<1>4. CASE CloseSession
  <2>1. CASE session' = "closed"
    BY <1>4, <2>1 DEF CloseSession, Goto
  <2>2. CASE session' # "closed"
    <3>1. /\ RemoveStagingMain /\ journal' \in {NoJournal, journal} /\ pc' = "quit"
          /\ parts' = parts
      BY <1>4, <2>2 DEF CloseSession, Goto, env, ghosts
    <3>2. file'[Live] = file[Live]
      BY <3>1, RemoveStagingMainIs, PlacesDiffer
    <3>3. session = "open"
      BY <1>4 DEF CloseSession
    <3> QED  BY <3>1, <3>2, <3>3, PartsAre DEF NoJournal
  <2> QED  BY <2>1, <2>2
<1>5. CASE RenameOriginal
  BY <1>5, RenameOriginalIs DEF Goes, MovesGroup, MovesSidecars, StartMove, GiveUp
<1>6. CASE RenameFailed
  BY <1>6 DEF RenameFailed, env, ghosts, Goto, Fault, NoFault, RemoveStagingMain
<1>7. CASE WriteRenamed
  BY <1>7 DEF WriteRenamed, env, ghosts, Goto, Fault, NoFault, WriteJournal
<1>8. CASE InstallStaging
  BY <1>8, InstallStagingIs DEF Goes, MovesGroup, MovesSidecars, StartMove, GiveUp
<1>9. CASE InstallFailed
  BY <1>9 DEF InstallFailed, env, ghosts, Goto, Fault, NoFault
<1>10. CASE WriteInstalled
  BY <1>10 DEF WriteInstalled, env, ghosts, Goto, Fault, NoFault, WriteJournal, GiveUp
<1>11. CASE ReconcileNothing
  BY <1>11 DEF ReconcileNothing, env, ghosts, Goto, Fault, NoFault
<1>12. CASE ReconcilePrepared
  <2>1. ~(Has(Live, "main") /\ FirstRestore)
    BY <1>12, PartsAre DEF ReconcilePrepared, LiveInv, GroupExists, Present
  <2> QED  BY <1>12, <2>1, ReconcilePreparedIs DEF Goes, MovesGroup, MovesSidecars, StartMove
<1>13. CASE ReconcileRenamed
  BY <1>13, ReconcileRenamedIs DEF Goes, MovesGroup, MovesSidecars, StartMove, GiveUp
<1>14. CASE ReconcileLater
  BY <1>14 DEF ReconcileLater, env, ghosts, Goto, Fault, NoFault
<1>15. CASE InstallStagedOnStartup
  BY <1>15 DEF InstallStagedOnStartup, env, ghosts, Goto, Fault, NoFault, WriteJournal
<1>16. CASE InstallNow
  BY <1>16, InstallNowIs DEF Goes, MovesGroup, MovesSidecars, StartMove, GiveUp
<1>17. CASE VerifySucceeds
  BY <1>17 DEF VerifySucceeds, env, ghosts, Goto, Fault, NoFault
<1>18. CASE VerifyFails
  BY <1>18 DEF VerifyFails, env, ghosts, Goto, Fault, NoFault
<1>19. CASE Reset
  BY <1>19 DEF Reset, env, ghosts, Goto, Fault, NoFault, OpenGroup
<1>20. CASE ResetClose
  BY <1>20 DEF ResetClose, env, ghosts, Goto, Fault, NoFault, CloseGroup
<1>21. CASE WriteVerified
  BY <1>21 DEF WriteVerified, env, ghosts, Goto, Fault, NoFault, WriteJournal
<1>22. CASE Finalize
  BY <1>22 DEF Finalize, env, ghosts, Goto, Fault, NoFault, OpenGroup
<1>23. CASE WriteQuarantine
  BY <1>23 DEF WriteQuarantine, env, ghosts, Goto, Fault, NoFault, WriteJournal
<1>24. CASE Quarantine
  BY <1>24, QuarantineIs DEF Goes, MovesGroup, MovesSidecars, StartMove, GiveUp
<1>25. CASE BeginRollback
  BY <1>25 DEF BeginRollback, env, ghosts, Goto, Fault, NoFault, WriteJournal, GiveUp
<1>26. CASE ResumeRollback
  BY <1>26, ResumeRollbackIs DEF Goes, MovesGroup, MovesSidecars, StartMove, GiveUp
<1>27. CASE FinishRecovery
  BY <1>27 DEF FinishRecovery, env, ghosts, Goto, Fault, NoFault, GiveUp
<1>28. CASE RemoveJournal
  BY <1>28 DEF RemoveJournal, env, ghosts, Goto, Fault, NoFault, WriteJournal, GiveUp
<1>29. CASE OpenLive
  <2>1. /\ journal' = journal /\ pc' = "running" /\ journal.state = "none"
    BY <1>29 DEF OpenLive, Goto, JournalInv
  <2>2. PICK v \in Versions : /\ \A x \in Parts : file'[Live][x] = v
                                /\ parts' = [parts EXCEPT ![v] = Parts]
    BY <1>29, OpenLiveIs
  <2>6. "main" \in parts'[file'[Live]["main"]]
    BY <2>2, PartsAre DEF GhostTypeOK
  <2>3. v # None /\ "main" \in Parts
    BY VersionsAre, PartsAre
  <2>4. /\ file'[Live]["main"] # None
        /\ \A x \in Parts : file'[Live][x] = file'[Live]["main"]
    BY <2>2, <2>3
  <2>5. session' = "open"
    BY <1>29 DEF OpenLive
  <2> QED  BY <2>1, <2>4, <2>5, <2>6
<1>30. CASE OpenFails
  BY <1>30 DEF OpenFails, env, ghosts, Goto, Fault, NoFault
<1>31. CASE Quit
  BY <1>31 DEF Quit, Goto
<1>32. CASE Crash
  BY <1>32 DEF Crash, env, ghosts, Goto, Fault, NoFault
<1>33. CASE Start
  BY <1>33 DEF Start, env, ghosts, Goto, Fault, NoFault
<1>34. CASE MoveOne
  BY <1>34 DEF MoveOne
<1>35. CASE MoveDone
  BY <1>35, MoveEnds DEF MoveDone
<1>36. CASE MoveUndo
  <2>1. /\ pc' \in {pc, mv.fail} /\ session' = session /\ pc = "moving"
    BY <1>36 DEF MoveUndo
  <2> QED  BY <2>1, MoveEnds
<1>37. CASE UNCHANGED vars
  BY <1>37 DEF vars, SessionInv
<1> QED  BY <1>1, <1>2, <1>3, <1>4, <1>5, <1>6, <1>7, <1>8, <1>9, <1>10, <1>11, <1>12,
  <1>13, <1>14, <1>15, <1>16, <1>17, <1>18, <1>19, <1>20, <1>21, <1>22, <1>23, <1>24,
  <1>25, <1>26, <1>27, <1>28, <1>29, <1>30, <1>31, <1>32, <1>33, <1>34, <1>35, <1>36,
  <1>37 DEF Next, Install, Reconcile, Move

(* The live group is where the step expects it. *)
LEMMA LiveKept ==
    ASSUME JInv, [Next]_vars
    PROVE  LiveInv'
<1> USE DEF JInv, Typed, LiveInv, GroupExists, Present, Has, FirstRestore
<1>1. CASE InstallRestore
  <2>1. /\ file'[Live] = file[Live] /\ journal' = journal /\ pc' = "prepare"
    BY <1>1, InstallRestoreIs, PlacesDiffer DEF InstallRestore, Goto
  <2> QED  BY <2>1
<1>2. CASE StagingFails
  <2>1. /\ file'[Live] = file[Live] /\ journal' = journal /\ pc' = pc
    BY <1>2, RemoveStagingMainIs, PlacesDiffer DEF StagingFails
  <2> QED  BY <2>1
<1>3. CASE Prepare
  <2>1. file'[Live] = file[Live] /\ pc' \in {"close", "rename", "quit"}
    BY <1>3, RemoveStagingMainIs, PlacesDiffer DEF Prepare, Goto
  <2>2. journal' = journal \/ journal'.originalPresent = GroupExists(Live)
    BY <1>3 DEF Prepare
  <2> QED  BY <2>1, <2>2
<1>4. CASE CloseSession
  <2>1. pc' \in {"rename", "quit"} /\ journal' \in {NoJournal, journal}
    BY <1>4 DEF CloseSession, Goto
  <2>2. ~FirstRestore
    BY <1>4 DEF CloseSession, JournalInv
  <2> QED  BY <2>1, <2>2 DEF NoJournal
<1>5. CASE RenameOriginal
  BY <1>5, RenameOriginalIs DEF Goes, MovesGroup, StartMove
<1>6. CASE RenameFailed
  <2>1. file'[Live] = file[Live] /\ journal' = journal /\ pc' = "quit"
    BY <1>6, RemoveStagingMainIs, PlacesDiffer DEF RenameFailed, Goto
  <2> QED  BY <2>1
<1>7. CASE WriteRenamed
  <2>1. journal.state \in {"prepared"}
    BY <1>7 DEF WriteRenamed, JournalInv
  <2>2. journal \in JournalRecords
    BY <2>1 DEF JournalTypeOK, NoJournal
  <2>3. [journal EXCEPT !.state = "original-renamed"].state = "original-renamed"
    BY <2>2 DEF JournalRecords
  <2>4. file' = file /\ (journal' = journal \/ journal'.state = "original-renamed")
    BY <1>7, <2>3 DEF WriteRenamed, WriteJournal
  <2> QED  BY <1>7, <2>1, <2>4 DEF WriteRenamed, WriteJournal, Goto, GiveUp
<1>8. CASE InstallStaging
  BY <1>8, InstallStagingIs DEF Goes, MovesGroup, MovesSidecars, StartMove, GiveUp, JournalInv
<1>9. CASE InstallFailed
  BY <1>9 DEF InstallFailed, env, ghosts, Goto, Fault, NoFault
<1>10. CASE WriteInstalled
  <2>1. journal.state \in {"original-renamed"}
    BY <1>10 DEF WriteInstalled, JournalInv
  <2>2. journal \in JournalRecords
    BY <2>1 DEF JournalTypeOK, NoJournal
  <2>3. [journal EXCEPT !.state = "replacement-installed"].state = "replacement-installed"
    BY <2>2 DEF JournalRecords
  <2>4. file' = file /\ (journal' = journal \/ journal'.state = "replacement-installed")
    BY <1>10, <2>3 DEF WriteInstalled, WriteJournal
  <2> QED  BY <1>10, <2>1, <2>4 DEF WriteInstalled, WriteJournal, Goto, GiveUp
<1>11. CASE ReconcileNothing
  BY <1>11 DEF ReconcileNothing, env, ghosts, Goto, Fault, NoFault
<1>12. CASE ReconcilePrepared
  <2>1. ~(Has(Live, "main") /\ FirstRestore)
    BY <1>12, PartsAre DEF ReconcilePrepared, LiveInv, GroupExists, Present
  <2> QED  BY <1>12, <2>1, ReconcilePreparedIs DEF Goes, MovesGroup, MovesSidecars, StartMove
<1>13. CASE ReconcileRenamed
  BY <1>13, ReconcileRenamedIs DEF Goes, MovesGroup, MovesSidecars, StartMove, GiveUp, JournalInv
<1>14. CASE ReconcileLater
  BY <1>14 DEF ReconcileLater, env, ghosts, Goto, Fault, NoFault
<1>15. CASE InstallStagedOnStartup
  <2>1. journal.state \in {"prepared", "original-renamed"}
    BY <1>15 DEF InstallStagedOnStartup, JournalInv
  <2>2. journal \in JournalRecords
    BY <2>1 DEF JournalTypeOK, NoJournal
  <2>3. [journal EXCEPT !.state = "original-renamed"].state = "original-renamed"
    BY <2>2 DEF JournalRecords
  <2>4. file' = file /\ (journal' = journal \/ journal'.state = "original-renamed")
    BY <1>15, <2>3 DEF InstallStagedOnStartup, WriteJournal
  <2> QED  BY <1>15, <2>1, <2>4 DEF InstallStagedOnStartup, WriteJournal, Goto, GiveUp
<1>16. CASE InstallNow
  BY <1>16, InstallNowIs DEF Goes, MovesGroup, MovesSidecars, StartMove, GiveUp, JournalInv
<1>17. CASE VerifySucceeds
  <2>1. /\ file'[Live]["main"] = file[Live]["main"] /\ file[Live]["main"] # None
        /\ journal' = journal /\ pc' \in {"finalize", "reset"}
        /\ journal.state # "prepared"
    BY <1>17, VerifySucceedsIs DEF VerifySucceeds, Goto, JournalInv
  <2> QED  BY <2>1
<1>18. CASE VerifyFails
  BY <1>18 DEF VerifyFails, env, ghosts, Goto, Fault, NoFault
<1>19. CASE Reset
  <2>1. /\ file'[Live]["main"] = file[Live]["main"] /\ file[Live]["main"] # None
        /\ journal' = journal /\ pc' \in {"resetclose", "blocked"}
        /\ journal.state # "prepared"
    BY <1>19, OpenGroupIs, PlacesDiffer, PartsAre DEF Reset, Goto, JournalInv
  <2>2. pc' = "resetclose" => \A x \in Parts : file'[Live][x] = file[Live]["main"]
    BY <1>19, OpenGroupIs DEF Reset, Goto
  <2> QED  BY <2>1, <2>2
<1>20. CASE ResetClose
  <2>1. /\ file'[Live]["main"] = file[Live]["main"] /\ file[Live]["main"] # None
        /\ journal' = journal /\ pc' \in {"writeverified", "blocked"}
        /\ journal.state # "prepared"
    BY <1>20, CloseGroupIs, PlacesDiffer, PartsAre DEF ResetClose, Goto, JournalInv
  <2>2. pc' = "resetclose" => \A x \in Parts : file'[Live][x] = file[Live]["main"]
    BY <1>20, OpenGroupIs DEF ResetClose, Goto
  <2> QED  BY <2>1, <2>2
<1>21. CASE WriteVerified
  <2>1. journal.state \in {"original-renamed", "replacement-installed"}
    BY <1>21 DEF WriteVerified, JournalInv
  <2>2. journal \in JournalRecords
    BY <2>1 DEF JournalTypeOK, NoJournal
  <2>3. [journal EXCEPT !.state = "verified"].state = "verified"
    BY <2>2 DEF JournalRecords
  <2>4. file' = file /\ (journal' = journal \/ journal'.state = "verified")
    BY <1>21, <2>3 DEF WriteVerified, WriteJournal
  <2> QED  BY <1>21, <2>1, <2>4 DEF WriteVerified, WriteJournal, Goto, GiveUp
<1>22. CASE Finalize
  <2>1. /\ file'[Live]["main"] = file[Live]["main"] /\ file[Live]["main"] # None
        /\ journal' = journal /\ pc' \in {"finish", "blocked"}
        /\ journal.state # "prepared"
    BY <1>22, OpenGroupIs, PlacesDiffer, PartsAre DEF Finalize, Goto, JournalInv
  <2>2. pc' = "resetclose" => \A x \in Parts : file'[Live][x] = file[Live]["main"]
    BY <1>22, OpenGroupIs DEF Finalize, Goto
  <2> QED  BY <2>1, <2>2
<1>23. CASE WriteQuarantine
  <2>1. journal.state \in {"original-renamed", "replacement-installed", "verified"}
    BY <1>23 DEF WriteQuarantine, JournalInv
  <2>2. journal \in JournalRecords
    BY <2>1 DEF JournalTypeOK, NoJournal
  <2>3. [journal EXCEPT !.state = "quarantining"].state = "quarantining"
    BY <2>2 DEF JournalRecords
  <2>4. file' = file /\ (journal' = journal \/ journal'.state = "quarantining")
    BY <1>23, <2>3 DEF WriteQuarantine, WriteJournal
  <2> QED  BY <1>23, <2>1, <2>4 DEF WriteQuarantine, WriteJournal, Goto, GiveUp
<1>24. CASE Quarantine
  BY <1>24, QuarantineIs DEF Goes, MovesGroup, MovesSidecars, StartMove, GiveUp, JournalInv
<1>25. CASE BeginRollback
  <2>1. journal.state \in JournalStates
    BY <1>25 DEF BeginRollback, JournalInv, JournalTypeOK, JournalRecords, NoJournal, JournalStates
  <2>2. journal \in JournalRecords
    BY <2>1 DEF JournalTypeOK, JournalRecords, NoJournal, JournalStates
  <2>3. [journal EXCEPT !.state = "rolling-back"].state = "rolling-back"
    BY <2>2 DEF JournalRecords
  <2>4. file' = file /\ (journal' = journal \/ journal'.state = "rolling-back")
    BY <1>25, <2>3 DEF BeginRollback, WriteJournal
  <2> QED  BY <1>25, <2>1, <2>4 DEF BeginRollback, WriteJournal, Goto, GiveUp
<1>26. CASE ResumeRollback
  BY <1>26, ResumeRollbackIs DEF Goes, MovesGroup, MovesSidecars, StartMove, GiveUp, JournalInv
<1>27. CASE FinishRecovery
  <2>1. file'[Live] = file[Live] /\ journal' = journal /\ pc' \in {"unjournal", GiveUp}
    BY <1>27, PlacesDiffer DEF FinishRecovery, Goto, FileTypeOK
  <2> QED  BY <1>27, <2>1 DEF FinishRecovery, GiveUp
<1>28. CASE RemoveJournal
  BY <1>28 DEF RemoveJournal, WriteJournal, Goto, GiveUp, NoJournal
<1>29. CASE OpenLive
  BY <1>29 DEF OpenLive, Goto, JournalInv
<1>30. CASE OpenFails
  BY <1>30 DEF OpenFails, env, ghosts, Goto, Fault, NoFault
<1>31. CASE Quit
  <2>1. CASE session = "open"
    <3>1. /\ file'[Live]["main"] = file[Live]["main"] /\ file[Live]["main"] # None
          /\ journal' = journal /\ pc' = "down"
      BY <1>31, <2>1, CloseGroupIs DEF Quit, Goto, SessionInv
    <3>2. ~(journal.state = "prepared" /\ FirstRestore)
      BY <3>1, PartsAre
    <3> QED  BY <3>1, <3>2
  <2>2. CASE session # "open"
    BY <1>31, <2>2 DEF Quit, Goto
  <2> QED  BY <2>1, <2>2
<1>32. CASE Crash
  BY <1>32 DEF Crash, env, ghosts, Goto, Fault, NoFault
<1>33. CASE Start
  BY <1>33 DEF Start, env, ghosts, Goto, Fault, NoFault
<1>34. CASE MoveOne
  <2>1. pc = "moving" /\ pc' = pc /\ journal' = journal
    BY <1>34, MoveOneIs
  <2>2. ~(journal.state = "prepared" /\ FirstRestore)
    BY <2>1
  <2> QED  BY <2>1, <2>2
<1>35. CASE MoveDone
  <2>1. /\ pc = "moving" /\ ~mv.undo /\ mv.todo = {} /\ pc' \in {mv.ok, mv.fail}
        /\ file' = file /\ journal' = journal
    BY <1>35 DEF MoveDone
  <2>2. \A x \in Parts : ~Has(mv.src, x)
    BY <2>1 DEF MoveInv, MoveFiles
  <2>3. pc' = "renamed" => ~GroupExists(Live)
    BY <2>1, <2>2, MoveEnds
  <2>4. pc' = "finish" => Has(Live, "main")
    BY <2>1, <2>2, MoveEnds, PartsAre
  <2> QED  BY <2>1, <2>3, <2>4, MoveEnds
<1>36. CASE MoveUndo
  <2>1. pc = "moving" /\ pc' \in {pc, mv.fail} /\ journal' = journal
    BY <1>36 DEF MoveUndo
  <2>2. ~(journal.state = "prepared" /\ FirstRestore)
    BY <2>1
  <2> QED  BY <2>1, <2>2, MoveEnds
<1>37. CASE UNCHANGED vars
  BY <1>37 DEF vars, LiveInv
<1> QED  BY <1>1, <1>2, <1>3, <1>4, <1>5, <1>6, <1>7, <1>8, <1>9, <1>10, <1>11, <1>12,
  <1>13, <1>14, <1>15, <1>16, <1>17, <1>18, <1>19, <1>20, <1>21, <1>22, <1>23, <1>24,
  <1>25, <1>26, <1>27, <1>28, <1>29, <1>30, <1>31, <1>32, <1>33, <1>34, <1>35, <1>36,
  <1>37 DEF Next, Install, Reconcile, Move

(* A step that moves nothing. *)
LEMMA IdleKept ==
    ASSUME JInv, pc # "moving", pc' # "moving", mv' = mv
    PROVE  MoveInv'
BY DEF JInv, MoveInv

(* A move that starts. *)
LEMMA StartFiles ==
    ASSUME JInv, NEW src \in Places, NEW dst \in Places, NEW ok, NEW fail, file' = file,
           MovesGroup(src, dst, ok, fail) \/ MovesSidecars(src, dst, ok, fail)
    PROVE  /\ pc' = "moving" /\ mv'.src = src /\ mv'.dst = dst /\ mv'.ok = ok /\ mv'.fail = fail
           /\ mv'.strict = TRUE \/ mv'.strict = FALSE
           /\ mv'.strict = FALSE => MovesGroup(src, dst, ok, fail)
           /\ mv'.strict = TRUE => MovesSidecars(src, dst, ok, fail)
           /\ MoveFiles' /\ MoveContents'
<1>1. PICK strict \in BOOLEAN :
         /\ StartMove(src, dst, Present(src), strict, ok, fail)
         /\ strict = FALSE => MovesGroup(src, dst, ok, fail)
         /\ strict = TRUE => MovesSidecars(src, dst, ok, fail)
  BY DEF MovesGroup, MovesSidecars
<1>2. /\ pc' = "moving" /\ mv'.src = src /\ mv'.dst = dst /\ mv'.ok = ok /\ mv'.fail = fail
      /\ mv'.strict = strict /\ mv'.todo = Present(src) /\ mv'.done = {} /\ mv'.undo = FALSE
  BY <1>1 DEF StartMove
<1>3. MoveContents'
  BY <1>2 DEF MoveContents
<1>4. \A x \in Present(src) : x \in Parts /\ Has(src, x)
  BY DEF Present
<1>5. \A x \in Parts : Has(src, x) => x \in Present(src)
  BY DEF Present
<1>6. CASE strict = FALSE
  <2>1. \A x \in Parts : ~Has(dst, x)
    BY <1>1, <1>6 DEF MovesGroup, GroupExists, Present
  <2>2. MoveFiles'
    BY <1>2, <1>4, <1>5, <1>6, <2>1 DEF MoveFiles, Has
  <2> QED  BY <1>1, <1>2, <1>3, <1>6, <2>2
<1>7. CASE strict = TRUE
  <2>1. ~Has(src, "main") /\ \A s \in Sidecars : ~(Has(src, s) /\ Has(dst, s))
    BY <1>1, <1>7 DEF MovesSidecars
  <2>2. "main" \notin Present(src)
    BY <1>4, <2>1
  <2>3. \A x \in Present(src) : ~Has(dst, x)
    BY <1>4, <2>1, <2>2, PartsAre
  <2>4. MoveFiles'
    BY <1>2, <1>4, <1>5, <1>7, <2>1, <2>2, <2>3 DEF MoveFiles, Has
  <2> QED  BY <1>1, <1>2, <1>3, <1>7, <2>4
<1> QED  BY <1>6, <1>7

(* Every move is one of the restore's own, and moves what it says. *)
LEMMA MoveKept ==
    ASSUME JInv, [Next]_vars
    PROVE  MoveInv'
<1> USE DEF JInv, Typed
<1>1. CASE InstallRestore
  BY <1>1, IdleKept DEF InstallRestore, Goto, MayRestore
<1>2. CASE StagingFails
  BY <1>2, IdleKept DEF StagingFails, MayRestore, RemoveStagingMain
<1>3. CASE Prepare
  BY <1>3, IdleKept DEF Prepare, Goto, RemoveStagingMain
<1>4. CASE CloseSession
  BY <1>4, IdleKept DEF CloseSession, Goto, RemoveStagingMain, CloseGroup
<1>5. CASE RenameOriginal
  <2>1. pc # "moving" /\ UNCHANGED <<file, journal, starting>> /\ MySafety' = MySafety /\ MyFailed' = MyFailed
    BY <1>5 DEF RenameOriginal, MySafety, MyFailed
  <2>2. journal.state # "none"
    BY <1>5 DEF RenameOriginal, JournalInv
  <2>3. /\ Live \in Places /\ Staging \in Places /\ MySafety \in Places /\ MyFailed \in Places
    BY <2>2, MyPlaces, PlacesDiffer
  <2>4. CASE MovesGroup(Live, MySafety, "renamed", "renamefailed")
    <3>1. StartMove(Live, MySafety, Present(Live), FALSE, "renamed", "renamefailed")
      BY <2>4 DEF MovesGroup
    <3>2. /\ mv'.src = Live /\ mv'.dst = MySafety /\ mv'.strict = FALSE /\ mv'.ok = "renamed" /\ mv'.fail = "renamefailed"
      BY <3>1 DEF StartMove
    <3>3. OwnMove'
      BY <1>5, <2>1, <2>4, <3>2 DEF RenameOriginal, JournalInv, OwnMove, MoveIs, Has, GiveUp
    <3> QED  BY <2>1, <2>3, <2>4, <3>3, StartFiles DEF MoveInv
  <2>5. CASE pc' # "moving" /\ mv' = mv
    BY <2>1, <2>5, IdleKept
  <2> QED  BY <1>5, <2>4, <2>5, RenameOriginalIs DEF Goes
<1>6. CASE RenameFailed
  BY <1>6, IdleKept DEF RenameFailed, Goto, RemoveStagingMain
<1>7. CASE WriteRenamed
  BY <1>7, IdleKept DEF WriteRenamed, Goto, WriteJournal
<1>8. CASE InstallStaging
  <2>1. pc # "moving" /\ UNCHANGED <<file, journal, starting>> /\ MySafety' = MySafety /\ MyFailed' = MyFailed
    BY <1>8 DEF InstallStaging, MySafety, MyFailed
  <2>2. journal.state # "none"
    BY <1>8 DEF InstallStaging, JournalInv
  <2>3. /\ Live \in Places /\ Staging \in Places /\ MySafety \in Places /\ MyFailed \in Places
    BY <2>2, MyPlaces, PlacesDiffer
  <2>4. CASE MovesGroup(Staging, Live, "installed", "installfailed")
    <3>1. StartMove(Staging, Live, Present(Staging), FALSE, "installed", "installfailed")
      BY <2>4 DEF MovesGroup
    <3>2. /\ mv'.src = Staging /\ mv'.dst = Live /\ mv'.strict = FALSE /\ mv'.ok = "installed" /\ mv'.fail = "installfailed"
      BY <3>1 DEF StartMove
    <3>3. OwnMove'
      BY <1>8, <2>1, <2>4, <3>2 DEF InstallStaging, JournalInv, OwnMove, MoveIs, Has, GiveUp
    <3> QED  BY <2>1, <2>3, <2>4, <3>3, StartFiles DEF MoveInv
  <2>5. CASE pc' # "moving" /\ mv' = mv
    BY <2>1, <2>5, IdleKept
  <2> QED  BY <1>8, <2>4, <2>5, InstallStagingIs DEF Goes
<1>9. CASE InstallFailed
  BY <1>9, IdleKept DEF InstallFailed, Goto
<1>10. CASE WriteInstalled
  BY <1>10, IdleKept DEF WriteInstalled, Goto, WriteJournal, GiveUp
<1>11. CASE ReconcileNothing
  BY <1>11, IdleKept DEF ReconcileNothing, Goto
<1>12. CASE ReconcilePrepared
  <2>1. pc # "moving" /\ UNCHANGED <<file, journal, starting>> /\ MySafety' = MySafety /\ MyFailed' = MyFailed
    BY <1>12 DEF ReconcilePrepared, MySafety, MyFailed
  <2>2. journal.state # "none"
    BY <1>12 DEF ReconcilePrepared, JournalInv
  <2>3. /\ Live \in Places /\ Staging \in Places /\ MySafety \in Places /\ MyFailed \in Places
    BY <2>2, MyPlaces, PlacesDiffer
  <2>4. CASE MovesSidecars(Live, MySafety, "beginrollback", "blocked")
    <3>1. StartMove(Live, MySafety, Present(Live), TRUE, "beginrollback", "blocked")
      BY <2>4 DEF MovesSidecars
    <3>2. /\ mv'.src = Live /\ mv'.dst = MySafety /\ mv'.strict = TRUE /\ mv'.ok = "beginrollback" /\ mv'.fail = "blocked"
      BY <3>1 DEF StartMove
    <3>3. OwnMove'
      BY <1>12, <2>1, <2>4, <3>2 DEF ReconcilePrepared, JournalInv, OwnMove, MoveIs, Has, GiveUp
    <3> QED  BY <2>1, <2>3, <2>4, <3>3, StartFiles DEF MoveInv
  <2>5. CASE MovesSidecars(MySafety, Live, "finish", "blocked") /\ Has(Live, "main")
    <3>1. StartMove(MySafety, Live, Present(MySafety), TRUE, "finish", "blocked")
      BY <2>5 DEF MovesSidecars
    <3>2. /\ mv'.src = MySafety /\ mv'.dst = Live /\ mv'.strict = TRUE /\ mv'.ok = "finish" /\ mv'.fail = "blocked"
      BY <3>1 DEF StartMove
    <3>3. OwnMove'
      BY <1>12, <2>1, <2>5, <3>2 DEF ReconcilePrepared, JournalInv, OwnMove, MoveIs, Has, GiveUp
    <3> QED  BY <2>1, <2>3, <2>5, <3>3, StartFiles DEF MoveInv
  <2>6. CASE pc' # "moving" /\ mv' = mv
    BY <2>1, <2>6, IdleKept
  <2>0. ~(Has(Live, "main") /\ FirstRestore)
    BY <1>12, PartsAre DEF ReconcilePrepared, LiveInv, GroupExists, Present
  <2> QED  BY <1>12, <2>4, <2>5, <2>6, <2>0, ReconcilePreparedIs DEF Goes
<1>13. CASE ReconcileRenamed
  <2>1. pc # "moving" /\ UNCHANGED <<file, journal, starting>> /\ MySafety' = MySafety /\ MyFailed' = MyFailed
    BY <1>13 DEF ReconcileRenamed, MySafety, MyFailed
  <2>2. journal.state # "none"
    BY <1>13 DEF ReconcileRenamed, JournalInv
  <2>3. /\ Live \in Places /\ Staging \in Places /\ MySafety \in Places /\ MyFailed \in Places
    BY <2>2, MyPlaces, PlacesDiffer
  <2>4. CASE MovesSidecars(Staging, Live, "verify", "blocked") /\ Has(Live, "main")
    <3>1. StartMove(Staging, Live, Present(Staging), TRUE, "verify", "blocked")
      BY <2>4 DEF MovesSidecars
    <3>2. /\ mv'.src = Staging /\ mv'.dst = Live /\ mv'.strict = TRUE /\ mv'.ok = "verify" /\ mv'.fail = "blocked"
      BY <3>1 DEF StartMove
    <3>3. OwnMove'
      BY <1>13, <2>1, <2>4, <3>2 DEF ReconcileRenamed, JournalInv, OwnMove, MoveIs, Has, GiveUp
    <3> QED  BY <2>1, <2>3, <2>4, <3>3, StartFiles DEF MoveInv
  <2>5. CASE MovesSidecars(Live, MySafety, "beginrollback", "blocked")
    <3>1. StartMove(Live, MySafety, Present(Live), TRUE, "beginrollback", "blocked")
      BY <2>5 DEF MovesSidecars
    <3>2. /\ mv'.src = Live /\ mv'.dst = MySafety /\ mv'.strict = TRUE /\ mv'.ok = "beginrollback" /\ mv'.fail = "blocked"
      BY <3>1 DEF StartMove
    <3>3. OwnMove'
      BY <1>13, <2>1, <2>5, <3>2 DEF ReconcileRenamed, JournalInv, OwnMove, MoveIs, Has, GiveUp
    <3> QED  BY <2>1, <2>3, <2>5, <3>3, StartFiles DEF MoveInv
  <2>6. CASE pc' # "moving" /\ mv' = mv
    BY <2>1, <2>6, IdleKept
  <2> QED  BY <1>13, <2>4, <2>5, <2>6, ReconcileRenamedIs DEF Goes
<1>14. CASE ReconcileLater
  BY <1>14, IdleKept DEF ReconcileLater, Goto
<1>15. CASE InstallStagedOnStartup
  BY <1>15, IdleKept DEF InstallStagedOnStartup, Goto, WriteJournal
<1>16. CASE InstallNow
  <2>1. pc # "moving" /\ UNCHANGED <<file, journal, starting>> /\ MySafety' = MySafety /\ MyFailed' = MyFailed
    BY <1>16 DEF InstallNow, MySafety, MyFailed
  <2>2. journal.state # "none"
    BY <1>16 DEF InstallNow, JournalInv
  <2>3. /\ Live \in Places /\ Staging \in Places /\ MySafety \in Places /\ MyFailed \in Places
    BY <2>2, MyPlaces, PlacesDiffer
  <2>4. CASE MovesGroup(Staging, Live, "installed", "blocked")
    <3>1. StartMove(Staging, Live, Present(Staging), FALSE, "installed", "blocked")
      BY <2>4 DEF MovesGroup
    <3>2. /\ mv'.src = Staging /\ mv'.dst = Live /\ mv'.strict = FALSE /\ mv'.ok = "installed" /\ mv'.fail = "blocked"
      BY <3>1 DEF StartMove
    <3>3. OwnMove'
      BY <1>16, <2>1, <2>4, <3>2 DEF InstallNow, JournalInv, OwnMove, MoveIs, Has, GiveUp
    <3> QED  BY <2>1, <2>3, <2>4, <3>3, StartFiles DEF MoveInv
  <2>5. CASE pc' # "moving" /\ mv' = mv
    BY <2>1, <2>5, IdleKept
  <2> QED  BY <1>16, <2>4, <2>5, InstallNowIs DEF Goes
<1>17. CASE VerifySucceeds
  BY <1>17, IdleKept DEF VerifySucceeds, Goto
<1>18. CASE VerifyFails
  BY <1>18, IdleKept DEF VerifyFails, Goto
<1>19. CASE Reset
  BY <1>19, IdleKept DEF Reset, Goto, OpenGroup
<1>20. CASE ResetClose
  BY <1>20, IdleKept DEF ResetClose, Goto, CloseGroup
<1>21. CASE WriteVerified
  BY <1>21, IdleKept DEF WriteVerified, Goto, WriteJournal
<1>22. CASE Finalize
  BY <1>22, IdleKept DEF Finalize, Goto, OpenGroup
<1>23. CASE WriteQuarantine
  BY <1>23, IdleKept DEF WriteQuarantine, Goto, WriteJournal
<1>24. CASE Quarantine
  <2>1. pc # "moving" /\ UNCHANGED <<file, journal, starting>> /\ MySafety' = MySafety /\ MyFailed' = MyFailed
    BY <1>24 DEF Quarantine, MySafety, MyFailed
  <2>2. journal.state # "none"
    BY <1>24 DEF Quarantine, JournalInv
  <2>3. /\ Live \in Places /\ Staging \in Places /\ MySafety \in Places /\ MyFailed \in Places
    BY <2>2, MyPlaces, PlacesDiffer
  <2>4. CASE MovesGroup(Live, MyFailed, "beginrollback", "blocked")
    <3>1. StartMove(Live, MyFailed, Present(Live), FALSE, "beginrollback", "blocked")
      BY <2>4 DEF MovesGroup
    <3>2. /\ mv'.src = Live /\ mv'.dst = MyFailed /\ mv'.strict = FALSE /\ mv'.ok = "beginrollback" /\ mv'.fail = "blocked"
      BY <3>1 DEF StartMove
    <3>3. OwnMove'
      BY <1>24, <2>1, <2>4, <3>2 DEF Quarantine, JournalInv, OwnMove, MoveIs, Has, GiveUp
    <3> QED  BY <2>1, <2>3, <2>4, <3>3, StartFiles DEF MoveInv
  <2>5. CASE MovesSidecars(Live, MyFailed, "beginrollback", "blocked")
    <3>1. StartMove(Live, MyFailed, Present(Live), TRUE, "beginrollback", "blocked")
      BY <2>5 DEF MovesSidecars
    <3>2. /\ mv'.src = Live /\ mv'.dst = MyFailed /\ mv'.strict = TRUE /\ mv'.ok = "beginrollback" /\ mv'.fail = "blocked"
      BY <3>1 DEF StartMove
    <3>3. OwnMove'
      BY <1>24, <2>1, <2>5, <3>2 DEF Quarantine, JournalInv, OwnMove, MoveIs, Has, GiveUp
    <3> QED  BY <2>1, <2>3, <2>5, <3>3, StartFiles DEF MoveInv
  <2>6. CASE pc' # "moving" /\ mv' = mv
    BY <2>1, <2>6, IdleKept
  <2> QED  BY <1>24, <2>4, <2>5, <2>6, QuarantineIs DEF Goes
<1>25. CASE BeginRollback
  BY <1>25, IdleKept DEF BeginRollback, Goto, WriteJournal, GiveUp
<1>26. CASE ResumeRollback
  <2>1. pc # "moving" /\ UNCHANGED <<file, journal, starting>> /\ MySafety' = MySafety /\ MyFailed' = MyFailed
    BY <1>26 DEF ResumeRollback, MySafety, MyFailed
  <2>2. journal.state # "none"
    BY <1>26 DEF ResumeRollback, JournalInv
  <2>3. /\ Live \in Places /\ Staging \in Places /\ MySafety \in Places /\ MyFailed \in Places
    BY <2>2, MyPlaces, PlacesDiffer
  <2>4. CASE MovesGroup(MySafety, Live, "finish", GiveUp) /\ Has(MySafety, "main")
    <3>1. StartMove(MySafety, Live, Present(MySafety), FALSE, "finish", GiveUp)
      BY <2>4 DEF MovesGroup
    <3>2. /\ mv'.src = MySafety /\ mv'.dst = Live /\ mv'.strict = FALSE /\ mv'.ok = "finish" /\ mv'.fail = GiveUp
      BY <3>1 DEF StartMove
    <3>3. OwnMove'
      BY <1>26, <2>1, <2>4, <3>2 DEF ResumeRollback, JournalInv, OwnMove, MoveIs, Has, GiveUp
    <3> QED  BY <2>1, <2>3, <2>4, <3>3, StartFiles DEF MoveInv
  <2>5. CASE MovesSidecars(MySafety, Live, "finish", GiveUp) /\ Has(Live, "main")
    <3>1. StartMove(MySafety, Live, Present(MySafety), TRUE, "finish", GiveUp)
      BY <2>5 DEF MovesSidecars
    <3>2. /\ mv'.src = MySafety /\ mv'.dst = Live /\ mv'.strict = TRUE /\ mv'.ok = "finish" /\ mv'.fail = GiveUp
      BY <3>1 DEF StartMove
    <3>3. OwnMove'
      BY <1>26, <2>1, <2>5, <3>2 DEF ResumeRollback, JournalInv, OwnMove, MoveIs, Has, GiveUp
    <3> QED  BY <2>1, <2>3, <2>5, <3>3, StartFiles DEF MoveInv
  <2>6. CASE pc' # "moving" /\ mv' = mv
    BY <2>1, <2>6, IdleKept
  <2> QED  BY <1>26, <2>4, <2>5, <2>6, ResumeRollbackIs DEF Goes, GiveUp
<1>27. CASE FinishRecovery
  BY <1>27, IdleKept DEF FinishRecovery, Goto, GiveUp
<1>28. CASE RemoveJournal
  BY <1>28, IdleKept DEF RemoveJournal, Goto, WriteJournal, GiveUp
<1>29. CASE OpenLive
  BY <1>29, IdleKept DEF OpenLive, Goto
<1>30. CASE OpenFails
  BY <1>30, IdleKept DEF OpenFails, Goto
<1>31. CASE Quit
  BY <1>31, IdleKept DEF Quit, Goto, CloseGroup
<1>32. CASE Crash
  BY <1>32 DEF Crash, MoveInv
<1>33. CASE Start
  BY <1>33, IdleKept DEF Start, Goto
<1>34. CASE MoveOne
  <2>0. /\ pc = "moving" /\ OwnMove /\ MoveFiles /\ MoveContents
        /\ UNCHANGED <<journal, starting, restores, parts>>
    BY <1>34, MoveOneIs DEF MoveInv
  <2>1. MySafety' = MySafety /\ MyFailed' = MyFailed /\ GiveUp' = GiveUp
    BY <2>0 DEF MySafety, MyFailed, GiveUp
  <2>2. /\ mv.src \in Places /\ mv.dst \in Places /\ mv.src # mv.dst
        /\ mv.todo \in SUBSET Parts /\ mv.done \in SUBSET Parts
        /\ journal.state # "none"
    BY <2>0, MovePlaces
  <2>3. /\ MySafety \notin {Live, Staging} /\ MyFailed \notin {Live, Staging}
        /\ MySafety # MyFailed /\ Live # Staging /\ MySafety \in Places /\ MyFailed \in Places
        /\ Live \in Places /\ Staging \in Places
    BY <2>2, MyPlaces, PlacesDiffer
  <2>4. ~mv.undo /\ SameMove /\ pc' = "moving"
    BY <1>34, MoveOneIs
  <2>5. CASE file' = file /\ mv'.undo = TRUE /\ mv'.todo = mv.todo /\ mv'.done = mv.done
    <3>1. OwnMove' /\ MoveFiles'
      BY <2>0, <2>1, <2>4, <2>5 DEF OwnMove, MoveIs, MoveFiles, SameMove, Has
    <3>2. MoveContents'
      BY <2>0, <2>1, <2>4, <2>5 DEF MoveContents, SameMove
    <3> QED  BY <2>4, <3>1, <3>2 DEF MoveInv
  <2>6. CASE \E x \in mv.todo :
               /\ "main" \in mv.todo => x = "main"
               /\ mv'.todo = mv.todo \ {x} /\ mv'.done = mv.done \union {x} /\ mv'.undo = FALSE
               /\ file'[mv.dst][x] = file[mv.src][x] /\ file'[mv.src][x] = None
               /\ \A pl \in Places, y \in Parts :
                    (pl \notin {mv.src, mv.dst} \/ y # x) => file'[pl][y] = file[pl][y]
    <3>1. PICK x \in mv.todo :
               /\ "main" \in mv.todo => x = "main"
               /\ mv'.todo = mv.todo \ {x} /\ mv'.done = mv.done \union {x} /\ mv'.undo = FALSE
               /\ file'[mv.dst][x] = file[mv.src][x] /\ file'[mv.src][x] = None
               /\ \A pl \in Places, y \in Parts :
                    (pl \notin {mv.src, mv.dst} \/ y # x) => file'[pl][y] = file[pl][y]
      BY <2>6
    <3>2. x \in Parts /\ Has(mv.src, x) /\ ~Has(mv.dst, x) /\ (mv.strict => x # "main")
      BY <2>0, <2>2, <3>1 DEF MoveFiles
    <3>3. MoveFiles'
      BY <2>0, <2>2, <2>4, <3>1, <3>2, PartsAre DEF MoveFiles, SameMove, Has
    <3>4. OwnMove'
      BY <2>0, <2>1, <2>2, <2>3, <2>4, <3>1, <3>2, PartsAre DEF OwnMove, MoveIs, SameMove, Has
    <3>5. ASSUME mv.src = Staging
          PROVE  \A s \in Sidecars \intersect mv'.done : file'[Live][s] = Blank
      <4>1. mv.dst = Live
        BY <2>0, <2>3, <3>5 DEF OwnMove, MoveIs
      <4>2. x \in Sidecars => file[Staging][x] = Blank
        BY <3>2, <3>5 DEF StagingInv, Has
      <4> QED  BY <2>0, <2>3, <3>1, <3>2, <3>5, <4>1, <4>2, PartsAre DEF MoveContents
    <3>6. ASSUME mv.dst = MySafety, journal.state = "original-renamed"
          PROVE  \A y \in mv'.done : file'[MySafety][y] = Blank
      <4>1. mv.src = Live /\ mv.strict
        BY <2>0, <2>3, <3>6 DEF OwnMove, MoveIs
      <4>2. ~Has(Live, "main")
        BY <2>0, <2>4, <4>1, PartsAre DEF MoveFiles
      <4>3. file[Live][x] = Blank
        BY <3>2, <3>6, <4>1, <4>2, PartsAre DEF ReplacementInv, Has
      <4> QED  BY <2>0, <2>2, <2>3, <3>1, <3>6, <4>1, <4>3 DEF MoveContents
    <3>7. ASSUME mv.dst = MyFailed, "main" \in mv'.done
          PROVE  /\ file'[MyFailed]["main"] \in 1 .. restores
                 /\ parts[file'[MyFailed]["main"]] = {}
      <4>1. mv.src = Live /\ journal.state = "quarantining"
        BY <2>0, <2>3, <3>7 DEF OwnMove, MoveIs
      <4>2. CASE x = "main"
        BY <3>1, <3>2, <3>7, <4>1, <4>2 DEF ReplacementInv, Swapped
      <4>3. CASE x # "main"
        BY <2>0, <2>3, <3>1, <3>7, <4>1, <4>3, PartsAre DEF MoveContents
      <4> QED  BY <4>2, <4>3
    <3>8. MoveContents'
      BY <2>0, <2>1, <2>4, <3>5, <3>6, <3>7 DEF MoveContents, SameMove
    <3> QED  BY <2>4, <3>3, <3>4, <3>8 DEF MoveInv
  <2> QED  BY <1>34, <2>5, <2>6, MoveOneIs
<1>35. CASE MoveDone
  <2>1. pc = "moving" /\ pc' \in {mv.ok, mv.fail} /\ mv' = NoMove
    BY <1>35 DEF MoveDone
  <2>2. pc' # "moving"
    BY <2>1, MoveEnds
  <2> QED  BY <2>1, <2>2 DEF MoveInv
<1>36. CASE MoveUndo
  <2>0. /\ pc = "moving" /\ mv.undo /\ OwnMove /\ MoveFiles /\ MoveContents
        /\ UNCHANGED <<journal, starting, restores, parts>>
    BY <1>36, MoveUndoIs DEF MoveInv
  <2>1. MySafety' = MySafety /\ MyFailed' = MyFailed /\ GiveUp' = GiveUp
    BY <2>0 DEF MySafety, MyFailed, GiveUp
  <2>2. /\ mv.src \in Places /\ mv.dst \in Places /\ mv.src # mv.dst
        /\ mv.todo \in SUBSET Parts /\ mv.done \in SUBSET Parts
        /\ journal.state # "none"
    BY <2>0, MovePlaces
  <2>3. /\ MySafety \notin {Live, Staging} /\ MyFailed \notin {Live, Staging}
        /\ MySafety # MyFailed /\ Live # Staging /\ MySafety \in Places /\ MyFailed \in Places
        /\ Live \in Places /\ Staging \in Places
    BY <2>2, MyPlaces, PlacesDiffer
  <2>5. CASE file' = file /\ pc' = mv.fail /\ mv' = NoMove
    <3>1. pc' # "moving"
      BY <2>0, <2>5, MoveEnds
    <3> QED  BY <2>5, <3>1 DEF MoveInv
  <2>6. CASE \E x \in mv.done :
               /\ x = "main" => mv.done = {"main"}
               /\ SameMove /\ pc' = pc
               /\ mv'.todo = mv.todo /\ mv'.done = mv.done \ {x} /\ mv'.undo = mv.undo
               /\ file'[mv.src][x] = file[mv.dst][x] /\ file'[mv.dst][x] = None
               /\ \A pl \in Places, y \in Parts :
                    (pl \notin {mv.src, mv.dst} \/ y # x) => file'[pl][y] = file[pl][y]
    <3>1. PICK x \in mv.done :
               /\ x = "main" => mv.done = {"main"}
               /\ SameMove /\ pc' = pc
               /\ mv'.todo = mv.todo /\ mv'.done = mv.done \ {x} /\ mv'.undo = mv.undo
               /\ file'[mv.src][x] = file[mv.dst][x] /\ file'[mv.dst][x] = None
               /\ \A pl \in Places, y \in Parts :
                    (pl \notin {mv.src, mv.dst} \/ y # x) => file'[pl][y] = file[pl][y]
      BY <2>6
    <3>2. x \in Parts /\ Has(mv.dst, x) /\ ~Has(mv.src, x) /\ (mv.strict => x # "main")
      BY <2>0, <2>2, <3>1 DEF MoveFiles
    <3>3. MoveFiles'
      BY <2>0, <2>2, <3>1, <3>2, PartsAre DEF MoveFiles, SameMove, Has
    <3>4. OwnMove'
      BY <2>0, <2>1, <2>2, <2>3, <3>1, <3>2, PartsAre DEF OwnMove, MoveIs, SameMove, Has
    <3>5. ASSUME mv.src = Staging
          PROVE  \A s \in Sidecars \intersect mv'.done : file'[Live][s] = Blank
      BY <2>0, <2>2, <2>3, <3>1, <3>5 DEF MoveContents
    <3>6. ASSUME mv.dst = MySafety, journal.state = "original-renamed"
          PROVE  \A y \in mv'.done : file'[MySafety][y] = Blank
      BY <2>0, <2>2, <2>3, <3>1, <3>6 DEF MoveContents
    <3>7. ASSUME mv.dst = MyFailed, "main" \in mv'.done
          PROVE  /\ file'[MyFailed]["main"] \in 1 .. restores
                 /\ parts[file'[MyFailed]["main"]] = {}
      BY <2>0, <2>2, <2>3, <3>1, <3>7 DEF MoveContents
    <3>8. MoveContents'
      BY <2>0, <2>1, <3>1, <3>5, <3>6, <3>7 DEF MoveContents, SameMove
    <3> QED  BY <2>0, <3>1, <3>3, <3>4, <3>8 DEF MoveInv
  <2> QED  BY <1>36, <2>5, <2>6, MoveUndoIs
<1>37. CASE UNCHANGED vars
  BY <1>37 DEF vars, MoveInv, OwnMove, MoveIs, MoveFiles, MoveContents, MySafety, MyFailed, GiveUp, Has
<1> QED  BY <1>1, <1>2, <1>3, <1>4, <1>5, <1>6, <1>7, <1>8, <1>9, <1>10, <1>11, <1>12,
  <1>13, <1>14, <1>15, <1>16, <1>17, <1>18, <1>19, <1>20, <1>21, <1>22, <1>23, <1>24,
  <1>25, <1>26, <1>27, <1>28, <1>29, <1>30, <1>31, <1>32, <1>33, <1>34, <1>35, <1>36,
  <1>37 DEF Next, Install, Reconcile, Move

(* The staged main file waits for its installation. *)
LEMMA StagedKept ==
    ASSUME JInv, [Next]_vars
    PROVE  StagedInv'
<1> USE DEF JInv, Typed, StagedInv, Has
<1>1. CASE InstallRestore
  BY <1>1 DEF InstallRestore, Goto
<1>2. CASE StagingFails
  BY <1>2 DEF StagingFails, MayRestore
<1>3. CASE Prepare
  <2>1. CASE file' = file
    <3>1. restores \in 1 .. restores /\ file[Staging]["main"] = restores
      BY <1>3, RestoreStarted DEF Prepare, StagingInv
    <3>2. file[Staging]["main"] # None
      BY <3>1, VersionsAre, RestoreBounds DEF CountTypeOK, None
    <3> QED  BY <1>3, <2>1, <3>2 DEF Prepare, Goto
  <2>2. CASE pc' = "quit"
    BY <2>2
  <2> QED  BY <1>3, <2>1, <2>2 DEF Prepare, Goto
<1>4. CASE CloseSession
  <2>1. CASE file' = CloseGroup /\ pc' = "rename"
    BY <1>4, <2>1, CloseGroupIs, PlacesDiffer DEF CloseSession
  <2>2. CASE pc' = "quit"
    BY <2>2
  <2> QED  BY <1>4, <2>1, <2>2 DEF CloseSession, Goto
<1>5. CASE RenameOriginal
  <2>1. file' = file /\ pc # "moving"
    BY <1>5 DEF RenameOriginal
  <2>2. CASE pc' # "moving"
    BY <1>5, <2>1, <2>2, RenameOriginalIs DEF Goes, MovesGroup, MovesSidecars, StartMove, GiveUp
  <2>3. CASE pc' = "moving"
    <3>1. mv'.ok \in {"renamed"}
      BY <1>5, <2>1, <2>3, RenameOriginalIs DEF Goes, MovesGroup, MovesSidecars, StartMove, GiveUp
    <3> QED  BY <1>5, <2>1, <2>3, <3>1 DEF RenameOriginal
  <2> QED  BY <2>2, <2>3
<1>6. CASE RenameFailed
  BY <1>6 DEF RenameFailed, env, ghosts, Goto, Fault, NoFault, RemoveStagingMain
<1>7. CASE WriteRenamed
  BY <1>7 DEF WriteRenamed, WriteJournal, Goto
<1>8. CASE InstallStaging
  <2>1. file' = file /\ pc # "moving"
    BY <1>8 DEF InstallStaging
  <2>2. CASE pc' # "moving"
    BY <1>8, <2>1, <2>2, InstallStagingIs DEF Goes, MovesGroup, MovesSidecars, StartMove, GiveUp
  <2>3. CASE pc' = "moving"
    <3>1. mv'.ok \in {"installed"}
      BY <1>8, <2>1, <2>3, InstallStagingIs DEF Goes, MovesGroup, MovesSidecars, StartMove, GiveUp
    <3> QED  BY <1>8, <2>1, <2>3, <3>1 DEF InstallStaging
  <2> QED  BY <2>2, <2>3
<1>9. CASE InstallFailed
  BY <1>9 DEF InstallFailed, env, ghosts, Goto, Fault, NoFault
<1>10. CASE WriteInstalled
  BY <1>10 DEF WriteInstalled, env, ghosts, Goto, Fault, NoFault, WriteJournal, GiveUp
<1>11. CASE ReconcileNothing
  BY <1>11 DEF ReconcileNothing, env, ghosts, Goto, Fault, NoFault
<1>12. CASE ReconcilePrepared
  <2>1. file' = file /\ pc # "moving"
    BY <1>12 DEF ReconcilePrepared
  <2>0. ~(Has(Live, "main") /\ FirstRestore)
    BY <1>12, PartsAre DEF ReconcilePrepared, LiveInv, GroupExists, Present
  <2>2. CASE pc' # "moving"
    BY <1>12, <2>1, <2>2, <2>0, ReconcilePreparedIs DEF Goes, MovesGroup, MovesSidecars, StartMove, GiveUp
  <2>3. CASE pc' = "moving"
    <3>1. mv'.ok \in {"beginrollback", "finish", "verify"}
      BY <1>12, <2>1, <2>3, <2>0, ReconcilePreparedIs DEF Goes, MovesGroup, MovesSidecars, StartMove, GiveUp
    <3> QED  BY <1>12, <2>1, <2>3, <3>1 DEF ReconcilePrepared
  <2> QED  BY <2>2, <2>3
<1>13. CASE ReconcileRenamed
  <2>1. file' = file /\ pc # "moving"
    BY <1>13 DEF ReconcileRenamed
  <2>2. CASE pc' # "moving"
    BY <1>13, <2>1, <2>2, ReconcileRenamedIs DEF Goes, MovesGroup, MovesSidecars, StartMove, GiveUp
  <2>3. CASE pc' = "moving"
    <3>1. mv'.ok \in {"beginrollback", "finish", "verify"}
      BY <1>13, <2>1, <2>3, ReconcileRenamedIs DEF Goes, MovesGroup, MovesSidecars, StartMove, GiveUp
    <3> QED  BY <1>13, <2>1, <2>3, <3>1 DEF ReconcileRenamed
  <2> QED  BY <2>2, <2>3
<1>14. CASE ReconcileLater
  BY <1>14 DEF ReconcileLater, env, ghosts, Goto, Fault, NoFault
<1>15. CASE InstallStagedOnStartup
  BY <1>15 DEF InstallStagedOnStartup, env, ghosts, Goto, Fault, NoFault, WriteJournal
<1>16. CASE InstallNow
  <2>1. file' = file /\ pc # "moving"
    BY <1>16 DEF InstallNow
  <2>2. CASE pc' # "moving"
    BY <1>16, <2>1, <2>2, InstallNowIs DEF Goes, MovesGroup, MovesSidecars, StartMove, GiveUp
  <2>3. CASE pc' = "moving"
    <3>1. mv'.ok \in {"installed"}
      BY <1>16, <2>1, <2>3, InstallNowIs DEF Goes, MovesGroup, MovesSidecars, StartMove, GiveUp
    <3> QED  BY <1>16, <2>1, <2>3, <3>1 DEF InstallNow
  <2> QED  BY <2>2, <2>3
<1>17. CASE VerifySucceeds
  BY <1>17 DEF VerifySucceeds, Goto, GiveUp
<1>18. CASE VerifyFails
  BY <1>18 DEF VerifyFails, env, ghosts, Goto, Fault, NoFault
<1>19. CASE Reset
  BY <1>19 DEF Reset, Goto, GiveUp
<1>20. CASE ResetClose
  BY <1>20 DEF ResetClose, Goto, GiveUp
<1>21. CASE WriteVerified
  BY <1>21 DEF WriteVerified, env, ghosts, Goto, Fault, NoFault, WriteJournal
<1>22. CASE Finalize
  BY <1>22 DEF Finalize, Goto, GiveUp
<1>23. CASE WriteQuarantine
  BY <1>23 DEF WriteQuarantine, env, ghosts, Goto, Fault, NoFault, WriteJournal
<1>24. CASE Quarantine
  <2>1. file' = file /\ pc # "moving"
    BY <1>24 DEF Quarantine
  <2>2. CASE pc' # "moving"
    BY <1>24, <2>1, <2>2, QuarantineIs DEF Goes, MovesGroup, MovesSidecars, StartMove, GiveUp
  <2>3. CASE pc' = "moving"
    <3>1. mv'.ok \in {"beginrollback", "finish", "verify"}
      BY <1>24, <2>1, <2>3, QuarantineIs DEF Goes, MovesGroup, MovesSidecars, StartMove, GiveUp
    <3> QED  BY <1>24, <2>1, <2>3, <3>1 DEF Quarantine
  <2> QED  BY <2>2, <2>3
<1>25. CASE BeginRollback
  BY <1>25 DEF BeginRollback, env, ghosts, Goto, Fault, NoFault, WriteJournal, GiveUp
<1>26. CASE ResumeRollback
  <2>1. file' = file /\ pc # "moving"
    BY <1>26 DEF ResumeRollback
  <2>2. CASE pc' # "moving"
    BY <1>26, <2>1, <2>2, ResumeRollbackIs DEF Goes, MovesGroup, MovesSidecars, StartMove, GiveUp
  <2>3. CASE pc' = "moving"
    <3>1. mv'.ok \in {"beginrollback", "finish", "verify"}
      BY <1>26, <2>1, <2>3, ResumeRollbackIs DEF Goes, MovesGroup, MovesSidecars, StartMove, GiveUp
    <3> QED  BY <1>26, <2>1, <2>3, <3>1 DEF ResumeRollback
  <2> QED  BY <2>2, <2>3
<1>27. CASE FinishRecovery
  BY <1>27 DEF FinishRecovery, Goto, GiveUp
<1>28. CASE RemoveJournal
  BY <1>28 DEF RemoveJournal, env, ghosts, Goto, Fault, NoFault, WriteJournal, GiveUp
<1>29. CASE OpenLive
  BY <1>29 DEF OpenLive, Goto, GiveUp
<1>30. CASE OpenFails
  BY <1>30 DEF OpenFails, env, ghosts, Goto, Fault, NoFault
<1>31. CASE Quit
  BY <1>31 DEF Quit, Goto, GiveUp
<1>32. CASE Crash
  BY <1>32 DEF Crash, env, ghosts, Goto, Fault, NoFault
<1>33. CASE Start
  BY <1>33 DEF Start, env, ghosts, Goto, Fault, NoFault
<1>34. CASE MoveOne
  <2>1. pc = "moving" /\ pc' = pc /\ SameMove
    BY <1>34, MoveOneIs
  <2>2. /\ mv.src \in Places /\ mv.dst \in Places /\ mv.src # mv.dst /\ mv.todo \in SUBSET Parts
        /\ journal.state # "none"
    BY <2>1, MovePlaces
  <2>3. CASE file' = file
    BY <2>1, <2>3 DEF SameMove
  <2>4. CASE file' # file
    <3>1. PICK x \in mv.todo :
             /\ file'[mv.dst][x] = file[mv.src][x] /\ file'[mv.src][x] = None
             /\ \A pl \in Places, y \in Parts :
                  (pl \notin {mv.src, mv.dst} \/ y # x) => file'[pl][y] = file[pl][y]
      BY <1>34, <2>4, MoveOneIs
    <3>2. mv.ok = "renamed" => mv.src = Live /\ mv.dst = MySafety
      BY <2>1, MoveEnds
    <3>3. mv.ok = "installed" => mv.src = Staging /\ mv.dst = Live
      BY <2>1 DEF MoveInv, OwnMove, MoveIs
    <3>4. x \in Parts /\ file[mv.src][x] # None
      BY <2>1, <2>2, <3>1 DEF MoveInv, MoveFiles
    <3> QED  BY <2>1, <2>2, <3>1, <3>2, <3>3, <3>4, MyPlaces, PlacesDiffer, PartsAre DEF SameMove
  <2> QED  BY <2>3, <2>4
<1>35. CASE MoveDone
  <2>1. /\ pc = "moving" /\ ~mv.undo /\ mv.todo = {} /\ pc' \in {mv.ok, mv.fail}
        /\ file' = file
    BY <1>35 DEF MoveDone
  <2>2. ~Has(mv.src, "main")
    BY <2>1, PartsAre DEF MoveInv, MoveFiles
  <2>3. pc' = "renamed" => mv.ok = "renamed"
    BY <2>1, MoveEnds
  <2>4. pc' = "installed" => mv.ok = "installed" /\ mv.src = Staging
    BY <2>1, MoveEnds DEF MoveInv, OwnMove, MoveIs
  <2> QED  BY <2>1, <2>2, <2>3, <2>4, MoveEnds
<1>36. CASE MoveUndo
  <2>1. pc = "moving"
    BY <1>36, MoveUndoIs
  <2>0. CASE pc' = mv.fail
    BY <2>0, <2>1, MoveEnds
  <2>2. /\ mv.src \in Places /\ mv.dst \in Places /\ mv.src # mv.dst /\ mv.done \in SUBSET Parts
        /\ journal.state # "none"
    BY <2>1, MovePlaces
  <2>4. CASE pc' # mv.fail
    <3>1. PICK x \in mv.done :
             /\ SameMove /\ pc' = pc
             /\ file'[mv.src][x] = file[mv.dst][x] /\ file'[mv.dst][x] = None
             /\ \A pl \in Places, y \in Parts :
                  (pl \notin {mv.src, mv.dst} \/ y # x) => file'[pl][y] = file[pl][y]
      BY <1>36, <2>4, MoveUndoIs
    <3>2. mv.ok = "renamed" => mv.src = Live /\ mv.dst = MySafety
      BY <2>1, MoveEnds
    <3>3. mv.ok = "installed" => mv.src = Staging /\ mv.dst = Live
      BY <2>1 DEF MoveInv, OwnMove, MoveIs
    <3>4. x \in Parts /\ file[mv.dst][x] # None
      BY <2>1, <2>2, <3>1 DEF MoveInv, MoveFiles
    <3> QED  BY <2>1, <2>2, <3>1, <3>2, <3>3, <3>4, MyPlaces, PlacesDiffer, PartsAre DEF SameMove
  <2> QED  BY <2>0, <2>4
<1>37. CASE UNCHANGED vars
  BY <1>37 DEF vars, StagedInv
<1> QED  BY <1>1, <1>2, <1>3, <1>4, <1>5, <1>6, <1>7, <1>8, <1>9, <1>10, <1>11, <1>12,
  <1>13, <1>14, <1>15, <1>16, <1>17, <1>18, <1>19, <1>20, <1>21, <1>22, <1>23, <1>24,
  <1>25, <1>26, <1>27, <1>28, <1>29, <1>30, <1>31, <1>32, <1>33, <1>34, <1>35, <1>36,
  <1>37 DEF Next, Install, Reconcile, Move


-----------------------------------------------------------------------------
(* Nothing is lost *)

(* A step that keeps the ledgers and every file of one loses nothing. *)
LEMMA FilesStay ==
    ASSUME JInv, Kept, parts' = parts,
           \A pl \in Places, x \in Parts : Needed(file[pl][x], x) =>
              \E q \in Places : file'[q][x] = file[pl][x]
    PROVE  Kept'
<1>1. SUFFICES ASSUME NEW v \in Versions, "main" \in parts[v], NEW x \in parts[v]
               PROVE  \E q \in Places : file'[q][x] = v
  BY DEF Kept
<1>2. x \in Parts
  BY DEF JInv, Typed, GhostTypeOK
<1>3. PICK pl \in Places : file[pl][x] = v
  BY <1>1 DEF Kept
<1>4. Needed(file[pl][x], x)
  BY <1>1, <1>3 DEF Needed
<1> QED  BY <1>2, <1>3, <1>4

(* What is staged is not needed, and neither is a blank or a missing file. *)
LEMMA StagingIsSpare ==
    ASSUME JInv
    PROVE  /\ \A x \in Parts : ~Needed(file[Staging][x], x)
           /\ \A x \in Parts : ~Needed(None, x) /\ ~Needed(Blank, x)
BY VersionsAre, PartsAre DEF JInv, StagingInv, Needed

(* No step overwrites or removes a file of a ledger in use. *)
LEMMA KeptStays ==
    ASSUME JInv, Kept, GroupsInv, [Next]_vars
    PROVE  Kept'
<1> USE DEF JInv, Typed
<1>1. CASE UNCHANGED <<file, parts>>
  BY <1>1 DEF Kept
<1>2. ASSUME (UNCHANGED vars \/ RenameOriginal \/ WriteRenamed \/ InstallStaging \/
             InstallFailed \/ WriteInstalled \/ ReconcileNothing \/ ReconcilePrepared \/
             ReconcileRenamed \/ ReconcileLater \/ InstallStagedOnStartup \/ InstallNow
             \/ VerifyFails \/ WriteVerified \/ WriteQuarantine \/ Quarantine \/
             BeginRollback \/ ResumeRollback \/ RemoveJournal \/ OpenFails \/ Crash \/
             Start \/ MoveDone)
      PROVE  UNCHANGED <<file, parts>>
  BY <1>2 DEF vars, env, ghosts, RenameOriginal, WriteRenamed, InstallStaging,
    InstallFailed, WriteInstalled, ReconcileNothing, ReconcilePrepared,
    ReconcileRenamed, ReconcileLater, InstallStagedOnStartup, InstallNow, VerifyFails,
    WriteVerified, WriteQuarantine, Quarantine, BeginRollback, ResumeRollback,
    RemoveJournal, OpenFails, Crash, Start, MoveDone, WriteJournal
<1>3. CASE InstallRestore
  <2>1. parts' = parts
    BY <1>3 DEF InstallRestore, env, ghosts
  <2>9. \A pl \in Places, x \in Parts : Needed(file[pl][x], x) =>
              \E q \in Places : file'[q][x] = file[pl][x]
    BY <1>3, InstallRestoreIs, StagingIsSpare, PlacesDiffer, PartsAre
  <2> QED  BY <2>1, <2>9, FilesStay
<1>4. CASE StagingFails
  <2>1. parts' = parts
    BY <1>4 DEF StagingFails, env, ghosts
  <2>9. \A pl \in Places, x \in Parts : Needed(file[pl][x], x) =>
              \E q \in Places : file'[q][x] = file[pl][x]
    BY <1>4, RemoveStagingMainIs, StagingIsSpare, PlacesDiffer, PartsAre DEF StagingFails
  <2> QED  BY <2>1, <2>9, FilesStay
<1>5. CASE Prepare
  <2>1. CASE parts' = parts
    <3>1. \A pl \in Places, x \in Parts : Needed(file[pl][x], x) =>
              \E q \in Places : file'[q][x] = file[pl][x]
      BY <1>5, RemoveStagingMainIs, StagingIsSpare, PlacesDiffer, PartsAre DEF Prepare
    <3> QED  BY <2>1, <3>1, FilesStay
  <2>2. CASE parts' # parts
    <3>1. /\ session = "open" /\ file' = file
          /\ parts' = [parts EXCEPT ![file[Live]["main"]] = {"main"}]
      BY <1>5, <2>2 DEF Prepare
    <3> QED  BY <3>1, PlacesDiffer DEF Kept, GhostTypeOK
  <2> QED  BY <2>1, <2>2
<1>6. CASE CloseSession
  <2>1. parts' = parts
    BY <1>6 DEF CloseSession, env, ghosts
  <2>2. \A s \in Sidecars : ~Needed(file[Live][s], s)
    BY <1>6, PartsAre DEF CloseSession, SessionInv, Needed
  <2>3. CASE RemoveStagingMain
    <3>1. \A pl \in Places, x \in Parts : Needed(file[pl][x], x) =>
              \E q \in Places : file'[q][x] = file[pl][x]
      BY <2>3, RemoveStagingMainIs, StagingIsSpare, PlacesDiffer, PartsAre
    <3> QED  BY <2>1, <3>1, FilesStay
  <2>4. CASE file' = CloseGroup
    <3>1. \A pl \in Places, x \in Parts : Needed(file[pl][x], x) =>
              \E q \in Places : file'[q][x] = file[pl][x]
      BY <2>2, <2>4, CloseGroupIs, PlacesDiffer, PartsAre
    <3> QED  BY <2>1, <3>1, FilesStay
  <2> QED  BY <1>6, <2>3, <2>4 DEF CloseSession
<1>7. CASE RenameFailed
  <2>1. parts' = parts
    BY <1>7 DEF RenameFailed, env, ghosts
  <2>9. \A pl \in Places, x \in Parts : Needed(file[pl][x], x) =>
              \E q \in Places : file'[q][x] = file[pl][x]
    BY <1>7, RemoveStagingMainIs, StagingIsSpare, PlacesDiffer, PartsAre DEF RenameFailed
  <2> QED  BY <2>1, <2>9, FilesStay
<1>8. CASE VerifySucceeds
  <2>1. parts' = parts
    BY <1>8 DEF VerifySucceeds, env, ghosts
  <2>9. \A pl \in Places, x \in Parts : Needed(file[pl][x], x) =>
              \E q \in Places : file'[q][x] = file[pl][x]
    BY <1>8, VerifySucceedsIs, StagingIsSpare, PlacesDiffer, PartsAre
  <2> QED  BY <2>1, <2>9, FilesStay
<1>9. CASE Reset
  <2>1. parts' = parts
    BY <1>9 DEF Reset, env, ghosts
  <2>2. \A x \in Parts : ~Needed(file[Live][x], x)
    BY <1>9 DEF Reset, JournalInv, GroupsInv, Spare, Swapped
  <2>9. \A pl \in Places, x \in Parts : Needed(file[pl][x], x) =>
              \E q \in Places : file'[q][x] = file[pl][x]
    BY <1>9, <2>2, OpenGroupIs, PlacesDiffer, PartsAre DEF Reset
  <2> QED  BY <2>1, <2>9, FilesStay
<1>10. CASE ResetClose
  <2>1. parts' = parts
    BY <1>10 DEF ResetClose, env, ghosts
  <2>2. \A x \in Parts : ~Needed(file[Live][x], x)
    BY <1>10 DEF ResetClose, JournalInv, GroupsInv, Spare, Swapped
  <2>9. \A pl \in Places, x \in Parts : Needed(file[pl][x], x) =>
              \E q \in Places : file'[q][x] = file[pl][x]
    BY <1>10, <2>2, CloseGroupIs, PlacesDiffer, PartsAre DEF ResetClose
  <2> QED  BY <2>1, <2>9, FilesStay
<1>11. CASE Finalize
  <2>1. parts' = parts
    BY <1>11 DEF Finalize, env, ghosts
  <2>2. \A x \in Parts : ~Needed(file[Live][x], x)
    BY <1>11 DEF Finalize, JournalInv, GroupsInv, Spare, Swapped
  <2>9. \A pl \in Places, x \in Parts : Needed(file[pl][x], x) =>
              \E q \in Places : file'[q][x] = file[pl][x]
    BY <1>11, <2>2, OpenGroupIs, PlacesDiffer, PartsAre DEF Finalize
  <2> QED  BY <2>1, <2>9, FilesStay
<1>12. CASE FinishRecovery
  <2>1. parts' = parts
    BY <1>12 DEF FinishRecovery, env, ghosts
  <2>2. \A pl \in Places \ {Staging} : file'[pl] = file[pl]
    BY <1>12, PlacesDiffer DEF FinishRecovery, FileTypeOK
  <2>9. \A pl \in Places, x \in Parts : Needed(file[pl][x], x) =>
              \E q \in Places : file'[q][x] = file[pl][x]
    BY <1>12, <2>2, StagingIsSpare
  <2> QED  BY <2>1, <2>9, FilesStay
<1>13. CASE OpenLive
  <2>1. PICK v \in Versions :
           /\ v = file[Live]["main"] \/ (file[Live]["main"] = None /\ v = Empty)
           /\ \A x \in Parts : file'[Live][x] = v
           /\ \A pl \in Places \ {Live} : file'[pl] = file[pl]
           /\ parts' = [parts EXCEPT ![v] = Parts]
    BY <1>13, OpenLiveIs
  <2>2. OneGroup({Live})
    BY <1>13 DEF OpenLive, JournalInv, GroupsInv, Settled
  <2>3. SUFFICES ASSUME NEW w \in Versions, "main" \in parts'[w], NEW x \in parts'[w]
                 PROVE  \E q \in Places : file'[q][x] = w
    BY DEF Kept
  <2>4. CASE w = v
    BY <2>1, <2>4, PlacesDiffer DEF GhostTypeOK
  <2>5. CASE w # v
    <3>1. parts'[w] = parts[w] /\ x \in Parts
      BY <2>1, <2>5 DEF GhostTypeOK
    <3>2. PICK pl \in Places : file[pl][x] = w
      BY <2>3, <3>1 DEF Kept
    <3>3. Needed(file[pl][x], x)
      BY <2>3, <3>1, <3>2 DEF Needed
    <3>4. pl # Live
      BY <2>1, <2>2, <2>5, <3>1, <3>2, <3>3, PartsAre, VersionsAre DEF OneGroup
    <3> QED  BY <2>1, <3>2, <3>4
  <2> QED  BY <2>4, <2>5
<1>14. CASE Quit
  <2>1. CASE session # "open"
    BY <1>14, <2>1 DEF Quit, Kept
  <2>2. CASE session = "open"
    <3>1. /\ file' = CloseGroup
          /\ parts' = [parts EXCEPT ![file[Live]["main"]] = {"main"}]
      BY <1>14, <2>2 DEF Quit
    <3>2. \A x \in Parts : file[Live][x] = file[Live]["main"]
      BY <2>2 DEF SessionInv
    <3>3. SUFFICES ASSUME NEW v \in Versions, "main" \in parts'[v], NEW x \in parts'[v]
                   PROVE  \E q \in Places : file'[q][x] = v
      BY DEF Kept
    <3>4. CASE v = file[Live]["main"]
      BY <3>1, <3>4, CloseGroupIs, PlacesDiffer DEF GhostTypeOK
    <3>5. CASE v # file[Live]["main"]
      <4>1. parts'[v] = parts[v] /\ x \in Parts
        BY <3>1, <3>5 DEF GhostTypeOK
      <4>2. PICK pl \in Places : file[pl][x] = v
        BY <3>3, <4>1 DEF Kept
      <4>3. pl # Live
        BY <3>2, <3>5, <4>1, <4>2
      <4> QED  BY <3>1, <4>2, <4>3, CloseGroupIs
    <3> QED  BY <3>4, <3>5
  <2> QED  BY <2>1, <2>2
<1>15. CASE MoveOne
  <2>1. pc = "moving" /\ parts' = parts
    BY <1>15, MoveOneIs
  <2>2. /\ mv.src \in Places /\ mv.dst \in Places /\ mv.src # mv.dst /\ mv.todo \in SUBSET Parts
    BY <2>1, MovePlaces
  <2>3. CASE file' = file
    BY <2>1, <2>3, FilesStay
  <2>4. CASE file' # file
    <3>1. PICK x \in mv.todo :
             /\ file'[mv.dst][x] = file[mv.src][x]
             /\ \A pl \in Places, y \in Parts :
                  (pl \notin {mv.src, mv.dst} \/ y # x) => file'[pl][y] = file[pl][y]
      BY <1>15, <2>4, MoveOneIs
    <3>2. file[mv.dst][x] = None
      BY <2>1, <3>1 DEF MoveInv, MoveFiles, Has
    <3>3. \A pl \in Places, y \in Parts : Needed(file[pl][y], y) =>
              \E q \in Places : file'[q][y] = file[pl][y]
      BY <2>2, <3>1, <3>2, StagingIsSpare
    <3> QED  BY <2>1, <3>3, FilesStay
  <2> QED  BY <2>3, <2>4
<1>16. CASE MoveUndo
  <2>1. pc = "moving" /\ parts' = parts
    BY <1>16, MoveUndoIs
  <2>2. /\ mv.src \in Places /\ mv.dst \in Places /\ mv.src # mv.dst /\ mv.done \in SUBSET Parts
    BY <2>1, MovePlaces
  <2>3. CASE file' = file
    BY <2>1, <2>3, FilesStay
  <2>4. CASE file' # file
    <3>1. PICK x \in mv.done :
             /\ file'[mv.src][x] = file[mv.dst][x]
             /\ \A pl \in Places, y \in Parts :
                  (pl \notin {mv.src, mv.dst} \/ y # x) => file'[pl][y] = file[pl][y]
      BY <1>16, <2>4, MoveUndoIs
    <3>2. file[mv.src][x] = None
      BY <2>1, <3>1 DEF MoveInv, MoveFiles, Has
    <3>3. \A pl \in Places, y \in Parts : Needed(file[pl][y], y) =>
              \E q \in Places : file'[q][y] = file[pl][y]
      BY <2>2, <3>1, <3>2, StagingIsSpare
    <3> QED  BY <2>1, <3>3, FilesStay
  <2> QED  BY <2>3, <2>4
<1> QED  BY <1>1, <1>2, <1>3, <1>4, <1>5, <1>6, <1>7, <1>8, <1>9, <1>10, <1>11, <1>12,
  <1>13, <1>14, <1>15, <1>16 DEF Next, Install, Reconcile, Move

(* A step that leaves the ledgers, the journal and every group but the staging one alone. *)
LEMMA GroupsStay ==
    ASSUME JInv, GroupsInv, parts' = parts, journal' = journal,
           \A pl \in Places \ {Staging} : file'[pl] = file[pl],
           pc' \in {"finish", "unjournal"} => Settled \/ OneGroup({Live})
    PROVE  GroupsInv'
<1>1. file'[Live] = file[Live]
  BY PlacesDiffer
<1>2. journal.state # "none" => file'[MySafety] = file[MySafety] /\ file'[MyFailed] = file[MyFailed]
  BY MyPlaces DEF JInv
<1>3. MySafety' = MySafety /\ MyFailed' = MyFailed
  BY DEF MySafety, MyFailed
<1>4. Settled' => OneGroup({Live})'
  BY <1>1 DEF GroupsInv, Settled, OneGroup, Needed
<1>5. journal'.state \in Swapped => Spare(Live)'
  BY <1>1 DEF GroupsInv, Spare, Needed
<1>6. journal'.state # "none" => OneGroup({Live, MySafety})' /\ Spare(MyFailed)'
  BY <1>1, <1>2, <1>3 DEF GroupsInv, OneGroup, Spare, Needed
<1> QED  BY <1>4, <1>5, <1>6 DEF GroupsInv

(* Once the safety group is gone, its files are with the live database. *)
LEMMA BackInLive ==
    ASSUME JInv, GroupsInv, journal.state # "none", ~GroupExists(MySafety)
    PROVE  OneGroup({Live})
<1>1. \A x \in Parts : file[MySafety][x] = None
  BY DEF GroupExists, Present, Has
<1>2. OneGroup({Live, MySafety})
  BY DEF GroupsInv
<1> QED  BY <1>1, <1>2, PartsAre, VersionsAre DEF OneGroup, Needed

(* A connection to a replacement changes its own sidecars only. *)
LEMMA ReplacementGroups ==
    ASSUME JInv, GroupsInv, parts' = parts, journal' = journal, journal.state \in Swapped,
           file'[Live]["main"] = file[Live]["main"],
           \A s \in Sidecars : file'[Live][s] \in {None, Blank, file[Live][s], file[Live]["main"]},
           \A pl \in Places \ {Live} : file'[pl] = file[pl],
           pc' \in {"finish", "unjournal"} => \A s \in Sidecars : file'[Live][s] = file[Live]["main"]
    PROVE  GroupsInv'
<1>1. journal.state # "none" /\ MySafety' = MySafety /\ MyFailed' = MyFailed
  BY DEF Swapped, MySafety, MyFailed
<1>2. file'[MySafety] = file[MySafety] /\ file'[MyFailed] = file[MyFailed]
  BY <1>1, MyPlaces DEF JInv
<1>3. \A x \in Parts : ~Needed(file[Live]["main"], x)
  BY VersionsAre DEF JInv, ReplacementInv, Has, Needed
<1>4. \A x \in Parts : ~Needed(file[Live][x], x)
  BY DEF GroupsInv, Spare
<1>5. \A x \in Parts : ~Needed(file'[Live][x], x)
  BY <1>3, <1>4, StagingIsSpare, PartsAre
<1>6. Spare(Live)'
  BY <1>5 DEF Spare, Needed
<1>7. OneGroup({Live, MySafety})'
  BY <1>1, <1>2, <1>3, <1>5, PartsAre DEF GroupsInv, OneGroup, Needed
<1>8. Spare(MyFailed)'
  BY <1>1, <1>2 DEF GroupsInv, Spare, Needed
<1>9. Settled' => OneGroup({Live})'
  BY <1>1 DEF Settled, OneGroup
<1> QED  BY <1>1, <1>6, <1>7, <1>8, <1>9 DEF GroupsInv

(* A rename within the live and the safety group, or of a file that is not needed. *)
LEMMA RenameGroups ==
    ASSUME JInv, GroupsInv, parts' = parts, journal' = journal, journal.state # "none",
           pc' \notin {"finish", "unjournal"}, NEW p \in Places, NEW q \in Places, p # q,
           NEW x \in Parts, file'[q][x] = file[p][x], file'[p][x] = None, file[q][x] = None,
           \A pl \in Places, y \in Parts :
              (pl \notin {p, q} \/ y # x) => file'[pl][y] = file[pl][y],
           \/ ~Needed(file[p][x], x)
           \/ p \in {Live, MySafety} /\ q \in {Live, MySafety} /\ journal.state \notin Swapped
    PROVE  GroupsInv'
<1>1. MySafety' = MySafety /\ MyFailed' = MyFailed
  BY DEF MySafety, MyFailed
<1>2. /\ Live \in Places /\ MySafety \in Places /\ MyFailed \in Places
      /\ Live # MyFailed /\ MySafety # MyFailed
  BY MyPlaces, PlacesDiffer DEF JInv
<1>3. /\ OneGroup({Live, MySafety}) /\ Spare(MyFailed)
      /\ journal.state \in Swapped => Spare(Live)
  BY DEF GroupsInv
<1>4. ~Settled'
  BY DEF Settled
<1>5. CASE ~Needed(file[p][x], x)
  <2>1. \A pl \in Places, y \in Parts : Needed(file'[pl][y], y) =>
           file'[pl][y] = file[pl][y] /\ Needed(file[pl][y], y)
    BY <1>5, StagingIsSpare
  <2>2. Spare(MyFailed)'
    BY <1>1, <1>2, <1>3, <2>1 DEF Spare, Needed
  <2>3. journal.state \in Swapped => Spare(Live)'
    BY <1>1, <1>2, <1>3, <2>1 DEF Spare, Needed
  <2>4. ASSUME NEW pl \in {Live, MySafety}, NEW s \in Sidecars, Needed(file'[pl][s], s)
        PROVE  \E r \in {Live, MySafety} : file'[r]["main"] = file'[pl][s]
    <3>1. file'[pl][s] = file[pl][s] /\ Needed(file[pl][s], s)
      BY <1>2, <2>1, <2>4, PartsAre
    <3>2. PICK r \in {Live, MySafety} : file[r]["main"] = file[pl][s]
      BY <1>3, <3>1 DEF OneGroup
    <3>3. Needed(file[r]["main"], "main")
      BY <3>1, <3>2 DEF Needed
    <3>4. file'[r]["main"] = file[r]["main"]
      BY <1>2, <1>5, <3>3, StagingIsSpare, PartsAre
    <3> QED  BY <3>1, <3>2, <3>4
  <2>5. OneGroup({Live, MySafety})'
    BY <1>1, <2>4 DEF OneGroup, Needed
  <2> QED  BY <1>1, <1>4, <2>2, <2>3, <2>5 DEF GroupsInv
<1>6. CASE p \in {Live, MySafety} /\ q \in {Live, MySafety} /\ journal.state \notin Swapped
  <2>1. \A y \in Parts : file'[MyFailed][y] = file[MyFailed][y]
    BY <1>2, <1>6
  <2>2. Spare(MyFailed)'
    BY <1>1, <1>3, <2>1 DEF Spare, Needed
  <2>3. ASSUME NEW pl \in {Live, MySafety}, NEW s \in Sidecars, Needed(file'[pl][s], s)
        PROVE  \E r \in {Live, MySafety} : file'[r]["main"] = file'[pl][s]
    <3>1. PICK o \in {Live, MySafety} : file[o][s] = file'[pl][s]
      BY <1>2, <1>6, <2>3, StagingIsSpare, PartsAre
    <3>2. PICK r \in {Live, MySafety} : file[r]["main"] = file[o][s]
      BY <1>3, <2>3, <3>1 DEF OneGroup
    <3>3. file[r]["main"] # None
      BY <2>3, <3>1, <3>2, StagingIsSpare, PartsAre
    <3> QED  BY <1>2, <1>6, <3>1, <3>2, <3>3, PartsAre
  <2>4. OneGroup({Live, MySafety})'
    BY <1>1, <2>3 DEF OneGroup, Needed
  <2> QED  BY <1>1, <1>4, <1>6, <2>2, <2>4 DEF GroupsInv
<1> QED  BY <1>5, <1>6

(* A restore that was superseded stays so. *)
LEMMA SupersededStays ==
    ASSUME JInv, [Next]_vars
    PROVE  superseded => superseded'
<1> USE DEF JInv, Typed, GhostTypeOK
<1>1. CASE UNCHANGED <<superseded>>
  BY <1>1 DEF JInv
<1>2. ASSUME (UNCHANGED vars \/ InstallRestore \/ StagingFails \/ CloseSession \/
             RenameOriginal \/ RenameFailed \/ WriteRenamed \/ InstallStaging \/
             InstallFailed \/ WriteInstalled \/ ReconcileNothing \/ ReconcilePrepared \/
             ReconcileRenamed \/ ReconcileLater \/ InstallStagedOnStartup \/ InstallNow
             \/ VerifySucceeds \/ VerifyFails \/ Reset \/ ResetClose \/ WriteVerified \/
             Finalize \/ WriteQuarantine \/ Quarantine \/ BeginRollback \/ ResumeRollback
             \/ FinishRecovery \/ RemoveJournal \/ OpenLive \/ OpenFails \/ Quit \/ Crash
             \/ Start \/ MoveOne \/ MoveDone \/ MoveUndo)
      PROVE  UNCHANGED <<superseded>>
  BY <1>2 DEF vars, env, ghosts, InstallRestore, StagingFails, CloseSession,
    RenameOriginal, RenameFailed, WriteRenamed, InstallStaging, InstallFailed,
    WriteInstalled, ReconcileNothing, ReconcilePrepared, ReconcileRenamed,
    ReconcileLater, InstallStagedOnStartup, InstallNow, VerifySucceeds, VerifyFails,
    Reset, ResetClose, WriteVerified, Finalize, WriteQuarantine, Quarantine,
    BeginRollback, ResumeRollback, FinishRecovery, RemoveJournal, OpenLive, OpenFails,
    Quit, Crash, Start, MoveOne, MoveDone, MoveUndo, WriteJournal
<1>3. CASE Prepare
  BY <1>3 DEF Prepare, env, ghosts, Goto, Fault, NoFault, RemoveStagingMain
<1> QED  BY <1>1, <1>2, <1>3 DEF Next, Install, Reconcile, Move

(* Needed files stay with their main file, away from what a step removes. *)
LEMMA GroupsKept ==
    ASSUME JInv, Kept, GroupsInv, ~superseded', [Next]_vars
    PROVE  GroupsInv'
<1> USE DEF JInv, Typed
<1>1. CASE InstallRestore
  <2>1. parts' = parts /\ journal' = journal /\ (pc' \in {"finish", "unjournal"} => Settled)
    BY <1>1 DEF InstallRestore, env, ghosts, Goto, Settled, GiveUp
  <2>2. \A pl \in Places \ {Staging} : file'[pl] = file[pl]
    BY <1>1, InstallRestoreIs
  <2> QED  BY <2>1, <2>2, GroupsStay
<1>2. CASE StagingFails
  <2>1. parts' = parts /\ journal' = journal /\ (pc' \in {"finish", "unjournal"} => Settled)
    BY <1>2 DEF StagingFails, env, ghosts, Goto, Settled, GiveUp, JournalInv, MayRestore
  <2>2. \A pl \in Places \ {Staging} : file'[pl] = file[pl]
    BY <1>2, RemoveStagingMainIs DEF StagingFails
  <2> QED  BY <2>1, <2>2, GroupsStay
<1>3. CASE Prepare
  <2>1. CASE journal' = journal /\ parts' = parts /\ RemoveStagingMain
    <3>1. pc' \in {"close", "rename", "quit"}
      BY <1>3 DEF Prepare, Goto
    <3> QED  BY <2>1, <3>1, RemoveStagingMainIs, GroupsStay
  <2>2. CASE /\ journal' = [state |-> "prepared", n |-> restores, originalPresent |-> GroupExists(Live)]
             /\ superseded' = (superseded \/ journal.state # "none") /\ file' = file
             /\ parts' = IF session = "open" THEN [parts EXCEPT ![file[Live]["main"]] = {"main"}]
                                             ELSE parts
    <3>1. journal.state = "none" /\ OneGroup({Live})
      BY <2>2 DEF GroupsInv, Settled
    <3>2. /\ MySafety' = Safety(restores) /\ MyFailed' = Failed(restores)
          /\ journal'.state = "prepared" /\ pc' \in {"close", "rename", "quit"}
      BY <1>3, <2>2 DEF MySafety, MyFailed, Prepare, Goto
    <3>3. restores \in 1 .. MaxRestores
      BY <1>3, RestoreStarted, RestoreBounds DEF Prepare, CountTypeOK
    <3>4. \A x \in Parts : file[Safety(restores)][x] = None /\ file[Failed(restores)][x] = None
      BY <1>3, <3>3 DEF Prepare, UnusedInv, Has
    <3>5. \A v \in Versions, s \in Sidecars : s \in parts'[v] => parts'[v] = parts[v]
      BY <2>2, PartsAre DEF GhostTypeOK
    <3>6. OneGroup({Live, MySafety})'
      BY <2>2, <3>1, <3>2, <3>4, <3>5, PartsAre, VersionsAre DEF OneGroup, Needed
    <3>7. Spare(MyFailed)'
      BY <2>2, <3>2, <3>4, VersionsAre DEF Spare, Needed
    <3> QED  BY <3>2, <3>6, <3>7 DEF GroupsInv, Settled, Swapped
  <2> QED  BY <1>3, <2>1, <2>2 DEF Prepare
<1>4. CASE CloseSession
  <2>1. parts' = parts /\ pc' \in {"rename", "quit"} /\ journal.state = "prepared"
    BY <1>4 DEF CloseSession, env, ghosts, Goto, JournalInv
  <2>2. CASE RemoveStagingMain /\ journal' \in {NoJournal, journal}
    <3>1. CASE journal' = journal
      BY <2>1, <2>2, <3>1, RemoveStagingMainIs, GroupsStay
    <3>2. CASE journal' = NoJournal
      <4>1. \A x \in Parts : file[Live][x] = file[Live]["main"]
        BY <1>4 DEF CloseSession, SessionInv
      <4>2. file'[Live] = file[Live]
        BY <2>2, RemoveStagingMainIs, PlacesDiffer
      <4> QED  BY <2>1, <3>2, <4>1, <4>2, PartsAre DEF NoJournal, GroupsInv, Swapped, OneGroup
    <3> QED  BY <2>2, <3>1, <3>2
  <2>3. CASE file' = CloseGroup /\ journal' = journal
    <3>1. /\ file'[Live]["main"] = file[Live]["main"] /\ \A s \in Sidecars : file'[Live][s] = None
          /\ \A pl \in Places \ {Live} : file'[pl] = file[pl]
      BY <2>3, CloseGroupIs
    <3>2. /\ MySafety' = MySafety /\ MyFailed' = MyFailed
          /\ file'[MySafety] = file[MySafety] /\ file'[MyFailed] = file[MyFailed]
      BY <2>1, <2>3, <3>1, MyPlaces DEF MySafety, MyFailed
    <3>3. OneGroup({Live, MySafety})'
      BY <2>1, <3>1, <3>2, PartsAre, VersionsAre DEF GroupsInv, OneGroup, Needed
    <3>4. Spare(MyFailed)'
      BY <2>1, <3>2 DEF GroupsInv, Spare, Needed
    <3> QED  BY <2>1, <2>3, <3>3, <3>4 DEF GroupsInv, Settled, Swapped
  <2> QED  BY <1>4, <2>2, <2>3 DEF CloseSession
<1>5. CASE RenameOriginal
  <2>1. parts' = parts /\ journal' = journal /\ file' = file
    BY <1>5 DEF RenameOriginal, env, ghosts
  <2>2. pc' \notin {"finish", "unjournal"}
    BY <1>5, RenameOriginalIs DEF Goes, MovesGroup, MovesSidecars, StartMove
  <2> QED  BY <2>1, <2>2, GroupsStay
<1>6. CASE RenameFailed
  <2>1. parts' = parts /\ journal' = journal /\ (pc' \in {"finish", "unjournal"} => Settled)
    BY <1>6 DEF RenameFailed, env, ghosts, Goto, Settled, GiveUp
  <2>2. \A pl \in Places \ {Staging} : file'[pl] = file[pl]
    BY <1>6, RemoveStagingMainIs DEF RenameFailed
  <2> QED  BY <2>1, <2>2, GroupsStay
<1>7. CASE WriteRenamed
  <2>1. file' = file /\ parts' = parts /\ pc' \notin {"finish", "unjournal"}
    BY <1>7 DEF WriteRenamed, WriteJournal, env, ghosts, Goto, GiveUp
  <2>2. journal.state \in {"prepared"}
    BY <1>7 DEF WriteRenamed, JournalInv
  <2>3. journal \in JournalRecords
    BY <2>2 DEF JournalTypeOK, NoJournal, JournalStates
  <2>4. journal' = journal \/ journal' = [journal EXCEPT !.state = "original-renamed"]
    BY <1>7 DEF WriteRenamed, WriteJournal
  <2>5. /\ journal'.state \in {journal.state, "original-renamed"} /\ journal'.n = journal.n
        /\ journal.state # "none"
    BY <2>2, <2>3, <2>4 DEF JournalRecords, JournalStates
  <2>6. MySafety' = MySafety /\ MyFailed' = MyFailed
    BY <2>5 DEF MySafety, MyFailed
  <2>7. journal'.state \in Swapped => Spare(Live)
    <3>1. \A x \in Parts : file[Live][x] = None
      BY <1>7 DEF WriteRenamed, LiveInv, GroupExists, Present, Has
    <3> QED  BY <3>1, StagingIsSpare DEF Spare
  <2> QED  BY <2>1, <2>5, <2>6, <2>7 DEF GroupsInv, Settled, OneGroup, Spare, Needed
<1>8. CASE InstallStaging
  <2>1. parts' = parts /\ journal' = journal /\ file' = file
    BY <1>8 DEF InstallStaging, env, ghosts
  <2>2. pc' \notin {"finish", "unjournal"}
    BY <1>8, InstallStagingIs DEF Goes, MovesGroup, MovesSidecars, StartMove
  <2> QED  BY <2>1, <2>2, GroupsStay
<1>9. CASE InstallFailed
  <2>1. parts' = parts /\ journal' = journal /\ (pc' \in {"finish", "unjournal"} => Settled)
    BY <1>9 DEF InstallFailed, env, ghosts, Goto, Settled, GiveUp
  <2>2. \A pl \in Places \ {Staging} : file'[pl] = file[pl]
    BY <1>9 DEF InstallFailed
  <2> QED  BY <2>1, <2>2, GroupsStay
<1>10. CASE WriteInstalled
  <2>1. file' = file /\ parts' = parts /\ pc' \notin {"finish", "unjournal"}
    BY <1>10 DEF WriteInstalled, WriteJournal, env, ghosts, Goto, GiveUp
  <2>2. journal.state \in {"original-renamed"}
    BY <1>10 DEF WriteInstalled, JournalInv
  <2>3. journal \in JournalRecords
    BY <2>2 DEF JournalTypeOK, NoJournal, JournalStates
  <2>4. journal' = journal \/ journal' = [journal EXCEPT !.state = "replacement-installed"]
    BY <1>10 DEF WriteInstalled, WriteJournal
  <2>5. /\ journal'.state \in {journal.state, "replacement-installed"} /\ journal'.n = journal.n
        /\ journal.state # "none"
    BY <2>2, <2>3, <2>4 DEF JournalRecords, JournalStates
  <2>6. MySafety' = MySafety /\ MyFailed' = MyFailed
    BY <2>5 DEF MySafety, MyFailed
  <2>7. journal'.state \in Swapped => Spare(Live)
    BY <2>2, <2>5 DEF GroupsInv, Swapped
  <2> QED  BY <2>1, <2>5, <2>6, <2>7 DEF GroupsInv, Settled, OneGroup, Spare, Needed
<1>11. CASE ReconcileNothing
  <2>1. parts' = parts /\ journal' = journal /\ (pc' \in {"finish", "unjournal"} => Settled)
    BY <1>11 DEF ReconcileNothing, env, ghosts, Goto, Settled, GiveUp
  <2>2. \A pl \in Places \ {Staging} : file'[pl] = file[pl]
    BY <1>11 DEF ReconcileNothing
  <2> QED  BY <2>1, <2>2, GroupsStay
<1>12. CASE ReconcilePrepared
  <2>0. ~(journal.state = "prepared" /\ Has(Live, "main") /\ FirstRestore)
    BY <1>12, PartsAre DEF LiveInv, GroupExists, Present
  <2>1. parts' = parts /\ journal' = journal /\ file' = file /\ journal.state # "none"
    BY <1>12 DEF ReconcilePrepared, JournalInv, env, ghosts
  <2>2. pc' # "unjournal" /\ (pc' = "finish" => ~GroupExists(MySafety))
    BY <1>12, <2>0, ReconcilePreparedIs DEF Goes, MovesGroup, MovesSidecars, StartMove, GiveUp
  <2> QED  BY <2>1, <2>2, GroupsStay, BackInLive
<1>13. CASE ReconcileRenamed
  <2>1. parts' = parts /\ journal' = journal /\ file' = file
    BY <1>13 DEF ReconcileRenamed, env, ghosts
  <2>2. pc' \notin {"finish", "unjournal"}
    BY <1>13, ReconcileRenamedIs DEF Goes, MovesGroup, MovesSidecars, StartMove
  <2> QED  BY <2>1, <2>2, GroupsStay
<1>14. CASE ReconcileLater
  <2>1. parts' = parts /\ journal' = journal /\ (pc' \in {"finish", "unjournal"} => Settled)
    BY <1>14 DEF ReconcileLater, env, ghosts, Goto, Settled, GiveUp, JournalInv, MayRestore
  <2>2. \A pl \in Places \ {Staging} : file'[pl] = file[pl]
    BY <1>14 DEF ReconcileLater
  <2> QED  BY <2>1, <2>2, GroupsStay
<1>15. CASE InstallStagedOnStartup
  <2>1. file' = file /\ parts' = parts /\ pc' \notin {"finish", "unjournal"}
    BY <1>15 DEF InstallStagedOnStartup, WriteJournal, env, ghosts, Goto, GiveUp
  <2>2. journal.state \in {"prepared", "original-renamed"}
    BY <1>15 DEF InstallStagedOnStartup, JournalInv
  <2>3. journal \in JournalRecords
    BY <2>2 DEF JournalTypeOK, NoJournal, JournalStates
  <2>4. journal' = journal \/ journal' = [journal EXCEPT !.state = "original-renamed"]
    BY <1>15 DEF InstallStagedOnStartup, WriteJournal
  <2>5. /\ journal'.state \in {journal.state, "original-renamed"} /\ journal'.n = journal.n
        /\ journal.state # "none"
    BY <2>2, <2>3, <2>4 DEF JournalRecords, JournalStates
  <2>6. MySafety' = MySafety /\ MyFailed' = MyFailed
    BY <2>5 DEF MySafety, MyFailed
  <2>7. journal'.state \in Swapped => Spare(Live)
    <3>1. \A x \in Parts : file[Live][x] = None
      BY <1>15 DEF InstallStagedOnStartup, LiveInv, GroupExists, Present, Has
    <3> QED  BY <3>1, StagingIsSpare DEF Spare
  <2> QED  BY <2>1, <2>5, <2>6, <2>7 DEF GroupsInv, Settled, OneGroup, Spare, Needed
<1>16. CASE InstallNow
  <2>1. parts' = parts /\ journal' = journal /\ file' = file
    BY <1>16 DEF InstallNow, env, ghosts
  <2>2. pc' \notin {"finish", "unjournal"}
    BY <1>16, InstallNowIs DEF Goes, MovesGroup, MovesSidecars, StartMove
  <2> QED  BY <2>1, <2>2, GroupsStay
<1>17. CASE VerifySucceeds
  <2>1. parts' = parts /\ journal' = journal /\ journal.state \in Swapped
    BY <1>17 DEF VerifySucceeds, env, ghosts, JournalInv, Swapped
  <2>2. /\ file'[Live]["main"] = file[Live]["main"]
        /\ \A s \in Sidecars : file'[Live][s] \in {None, Blank, file[Live][s], file[Live]["main"]}
        /\ \A pl \in Places \ {Live} : file'[pl] = file[pl]
    BY <1>17, VerifySucceedsIs, PlacesDiffer, PartsAre
  <2>3. pc' \in {"finish", "unjournal"} => \A s \in Sidecars : file'[Live][s] = file[Live]["main"]
    BY <1>17, VerifySucceedsIs, PartsAre DEF VerifySucceeds, Goto
  <2> QED  BY <2>1, <2>2, <2>3, ReplacementGroups
<1>18. CASE VerifyFails
  <2>1. parts' = parts /\ journal' = journal /\ (pc' \in {"finish", "unjournal"} => Settled)
    BY <1>18 DEF VerifyFails, env, ghosts, Goto, Settled, GiveUp
  <2>2. \A pl \in Places \ {Staging} : file'[pl] = file[pl]
    BY <1>18 DEF VerifyFails
  <2> QED  BY <2>1, <2>2, GroupsStay
<1>19. CASE Reset
  <2>1. parts' = parts /\ journal' = journal /\ journal.state \in Swapped
    BY <1>19 DEF Reset, env, ghosts, JournalInv, Swapped
  <2>2. /\ file'[Live]["main"] = file[Live]["main"]
        /\ \A s \in Sidecars : file'[Live][s] \in {None, Blank, file[Live][s], file[Live]["main"]}
        /\ \A pl \in Places \ {Live} : file'[pl] = file[pl]
    BY <1>19, OpenGroupIs, PlacesDiffer, PartsAre DEF Reset
  <2>3. pc' \in {"finish", "unjournal"} => \A s \in Sidecars : file'[Live][s] = file[Live]["main"]
    BY <1>19, OpenGroupIs, PartsAre DEF Reset, Goto
  <2> QED  BY <2>1, <2>2, <2>3, ReplacementGroups
<1>20. CASE ResetClose
  <2>1. parts' = parts /\ journal' = journal /\ journal.state \in Swapped
    BY <1>20 DEF ResetClose, env, ghosts, JournalInv, Swapped
  <2>2. /\ file'[Live]["main"] = file[Live]["main"]
        /\ \A s \in Sidecars : file'[Live][s] \in {None, Blank, file[Live][s], file[Live]["main"]}
        /\ \A pl \in Places \ {Live} : file'[pl] = file[pl]
    BY <1>20, CloseGroupIs, PlacesDiffer, PartsAre DEF ResetClose
  <2>3. pc' \in {"finish", "unjournal"} => \A s \in Sidecars : file'[Live][s] = file[Live]["main"]
    BY <1>20, CloseGroupIs, PartsAre DEF ResetClose, Goto
  <2> QED  BY <2>1, <2>2, <2>3, ReplacementGroups
<1>21. CASE WriteVerified
  <2>1. file' = file /\ parts' = parts /\ pc' \notin {"finish", "unjournal"}
    BY <1>21 DEF WriteVerified, WriteJournal, env, ghosts, Goto, GiveUp
  <2>2. journal.state \in {"original-renamed", "replacement-installed"}
    BY <1>21 DEF WriteVerified, JournalInv
  <2>3. journal \in JournalRecords
    BY <2>2 DEF JournalTypeOK, NoJournal, JournalStates
  <2>4. journal' = journal \/ journal' = [journal EXCEPT !.state = "verified"]
    BY <1>21 DEF WriteVerified, WriteJournal
  <2>5. /\ journal'.state \in {journal.state, "verified"} /\ journal'.n = journal.n
        /\ journal.state # "none"
    BY <2>2, <2>3, <2>4 DEF JournalRecords, JournalStates
  <2>6. MySafety' = MySafety /\ MyFailed' = MyFailed
    BY <2>5 DEF MySafety, MyFailed
  <2>7. journal'.state \in Swapped => Spare(Live)
    BY <2>2, <2>5 DEF GroupsInv, Swapped
  <2> QED  BY <2>1, <2>5, <2>6, <2>7 DEF GroupsInv, Settled, OneGroup, Spare, Needed
<1>22. CASE Finalize
  <2>1. parts' = parts /\ journal' = journal /\ journal.state \in Swapped
    BY <1>22 DEF Finalize, env, ghosts, JournalInv, Swapped
  <2>2. /\ file'[Live]["main"] = file[Live]["main"]
        /\ \A s \in Sidecars : file'[Live][s] \in {None, Blank, file[Live][s], file[Live]["main"]}
        /\ \A pl \in Places \ {Live} : file'[pl] = file[pl]
    BY <1>22, OpenGroupIs, PlacesDiffer, PartsAre DEF Finalize
  <2>3. pc' \in {"finish", "unjournal"} => \A s \in Sidecars : file'[Live][s] = file[Live]["main"]
    BY <1>22, OpenGroupIs, PartsAre DEF Finalize, Goto
  <2> QED  BY <2>1, <2>2, <2>3, ReplacementGroups
<1>23. CASE WriteQuarantine
  <2>1. file' = file /\ parts' = parts /\ pc' \notin {"finish", "unjournal"}
    BY <1>23 DEF WriteQuarantine, WriteJournal, env, ghosts, Goto, GiveUp
  <2>2. journal.state \in {"original-renamed", "replacement-installed", "verified"}
    BY <1>23 DEF WriteQuarantine, JournalInv
  <2>3. journal \in JournalRecords
    BY <2>2 DEF JournalTypeOK, NoJournal, JournalStates
  <2>4. journal' = journal \/ journal' = [journal EXCEPT !.state = "quarantining"]
    BY <1>23 DEF WriteQuarantine, WriteJournal
  <2>5. /\ journal'.state \in {journal.state, "quarantining"} /\ journal'.n = journal.n
        /\ journal.state # "none"
    BY <2>2, <2>3, <2>4 DEF JournalRecords, JournalStates
  <2>6. MySafety' = MySafety /\ MyFailed' = MyFailed
    BY <2>5 DEF MySafety, MyFailed
  <2>7. journal'.state \in Swapped => Spare(Live)
    BY <2>2, <2>5 DEF GroupsInv, Swapped
  <2> QED  BY <2>1, <2>5, <2>6, <2>7 DEF GroupsInv, Settled, OneGroup, Spare, Needed
<1>24. CASE Quarantine
  <2>1. parts' = parts /\ journal' = journal /\ file' = file
    BY <1>24 DEF Quarantine, env, ghosts
  <2>2. pc' \notin {"finish", "unjournal"}
    BY <1>24, QuarantineIs DEF Goes, MovesGroup, MovesSidecars, StartMove
  <2> QED  BY <2>1, <2>2, GroupsStay
<1>25. CASE BeginRollback
  <2>1. file' = file /\ parts' = parts /\ pc' \notin {"finish", "unjournal"}
    BY <1>25 DEF BeginRollback, WriteJournal, env, ghosts, Goto, GiveUp
  <2>2. journal.state \in JournalStates
    BY <1>25 DEF BeginRollback, JournalInv, JournalTypeOK, JournalRecords, NoJournal
  <2>3. journal \in JournalRecords
    BY <2>2 DEF JournalTypeOK, NoJournal, JournalStates
  <2>4. journal' = journal \/ journal' = [journal EXCEPT !.state = "rolling-back"]
    BY <1>25 DEF BeginRollback, WriteJournal
  <2>5. /\ journal'.state \in {journal.state, "rolling-back"} /\ journal'.n = journal.n
        /\ journal.state # "none"
    BY <2>2, <2>3, <2>4 DEF JournalRecords, JournalStates
  <2>6. MySafety' = MySafety /\ MyFailed' = MyFailed
    BY <2>5 DEF MySafety, MyFailed
  <2>7. journal'.state \in Swapped => Spare(Live)
    BY <2>2, <2>5 DEF GroupsInv, Swapped
  <2> QED  BY <2>1, <2>5, <2>6, <2>7 DEF GroupsInv, Settled, OneGroup, Spare, Needed
<1>26. CASE ResumeRollback
  <2>0. ~(journal.state = "prepared" /\ Has(Live, "main") /\ FirstRestore)
    BY <1>26, PartsAre DEF LiveInv, GroupExists, Present
  <2>1. parts' = parts /\ journal' = journal /\ file' = file /\ journal.state # "none"
    BY <1>26 DEF ResumeRollback, JournalInv, env, ghosts
  <2>2. pc' # "unjournal" /\ (pc' = "finish" => ~GroupExists(MySafety))
    BY <1>26, <2>0, ResumeRollbackIs DEF Goes, MovesGroup, MovesSidecars, StartMove, GiveUp
  <2> QED  BY <2>1, <2>2, GroupsStay, BackInLive
<1>27. CASE FinishRecovery
  <2>1. parts' = parts /\ journal' = journal /\ (pc' \in {"finish", "unjournal"} => Settled)
    BY <1>27 DEF FinishRecovery, env, ghosts, Goto, Settled, GiveUp
  <2>2. \A pl \in Places \ {Staging} : file'[pl] = file[pl]
    BY <1>27, PlacesDiffer DEF FinishRecovery, FileTypeOK
  <2> QED  BY <2>1, <2>2, GroupsStay
<1>28. CASE RemoveJournal
  <2>1. file' = file /\ parts' = parts /\ Settled
    BY <1>28 DEF RemoveJournal, WriteJournal, env, ghosts, Settled
  <2>2. CASE journal' = journal
    BY <2>1, <2>2, GroupsStay
  <2>3. CASE journal' = NoJournal
    BY <2>1, <2>3 DEF NoJournal, GroupsInv, Swapped, OneGroup, Needed
  <2> QED  BY <1>28, <2>2, <2>3 DEF RemoveJournal, WriteJournal
<1>29. CASE OpenLive
  <2>1. journal' = journal /\ journal.state = "none"
    BY <1>29 DEF OpenLive, JournalInv
  <2>2. PICK v \in Versions : \A x \in Parts : file'[Live][x] = v
    BY <1>29, OpenLiveIs
  <2> QED  BY <2>1, <2>2, PartsAre DEF GroupsInv, OneGroup, Swapped
<1>30. CASE OpenFails
  <2>1. parts' = parts /\ journal' = journal /\ (pc' \in {"finish", "unjournal"} => Settled)
    BY <1>30 DEF OpenFails, env, ghosts, Goto, Settled, GiveUp
  <2>2. \A pl \in Places \ {Staging} : file'[pl] = file[pl]
    BY <1>30 DEF OpenFails
  <2> QED  BY <2>1, <2>2, GroupsStay
<1>31. CASE Quit
  <2>1. CASE session # "open"
    <3>1. parts' = parts /\ journal' = journal /\ file' = file /\ pc' = "down"
      BY <1>31, <2>1 DEF Quit, Goto
    <3> QED  BY <3>1, GroupsStay
  <2>2. CASE session = "open"
    <3>1. /\ parts' = [parts EXCEPT ![file[Live]["main"]] = {"main"}]
          /\ journal' = journal /\ journal.state \in {"none", "prepared"} /\ pc' = "down"
          /\ file' = CloseGroup
      BY <1>31, <2>2 DEF Quit, Goto, SessionInv
    <3>2. /\ file'[Live]["main"] = file[Live]["main"] /\ \A s \in Sidecars : file'[Live][s] = None
          /\ \A pl \in Places \ {Live} : file'[pl] = file[pl]
      BY <3>1, CloseGroupIs
    <3>3. OneGroup({Live})'
      BY <3>2, VersionsAre DEF OneGroup, Needed
    <3>4. \A v \in Versions, s \in Sidecars : s \in parts'[v] => parts'[v] = parts[v]
      BY <3>1, PartsAre DEF GhostTypeOK
    <3>5. CASE journal.state = "prepared"
      <4>1. /\ MySafety' = MySafety /\ MyFailed' = MyFailed
            /\ file'[MySafety] = file[MySafety] /\ file'[MyFailed] = file[MyFailed]
        BY <3>1, <3>2, <3>5, MyPlaces DEF MySafety, MyFailed
      <4>2. OneGroup({Live, MySafety})'
        <5>1. SUFFICES ASSUME NEW pl \in {Live, MySafety}, NEW s \in Sidecars,
                              Needed(file[pl][s], s)'
                       PROVE  \E r \in {Live, MySafety} : file'[r]["main"] = file'[pl][s]
          BY <4>1 DEF OneGroup
        <5>2. pl = MySafety /\ file'[pl][s] = file[pl][s]
          BY <3>2, <4>1, <5>1, VersionsAre DEF Needed
        <5>3. Needed(file[pl][s], s)
          BY <3>4, <5>1, <5>2 DEF Needed
        <5>4. PICK r \in {Live, MySafety} : file[r]["main"] = file[pl][s]
          BY <3>5, <5>3 DEF GroupsInv, OneGroup
        <5> QED  BY <3>2, <4>1, <5>2, <5>4
      <4>3. \A x \in Parts : ~Needed(file[MyFailed][x], x)
        BY <3>5 DEF GroupsInv, Spare
      <4>4. \A v \in Versions, x \in Parts : "main" \in parts'[v] /\ x \in parts'[v] =>
               "main" \in parts[v] /\ x \in parts[v]
        BY <2>2, <3>1, PartsAre DEF SessionInv, GhostTypeOK
      <4>7. Spare(MyFailed)'
        BY <4>1, <4>3, <4>4 DEF Spare, Needed
      <4> QED  BY <3>1, <3>3, <3>5, <4>2, <4>7 DEF GroupsInv, Settled, Swapped
    <3>6. CASE journal.state = "none"
      BY <3>1, <3>3, <3>6 DEF GroupsInv, Swapped
    <3> QED  BY <3>1, <3>5, <3>6
  <2> QED  BY <2>1, <2>2
<1>32. CASE Crash
  <2>1. parts' = parts /\ journal' = journal /\ (pc' \in {"finish", "unjournal"} => Settled)
    BY <1>32 DEF Crash, env, ghosts, Goto, Settled, GiveUp
  <2>2. \A pl \in Places \ {Staging} : file'[pl] = file[pl]
    BY <1>32 DEF Crash
  <2> QED  BY <2>1, <2>2, GroupsStay
<1>33. CASE Start
  <2>1. parts' = parts /\ journal' = journal /\ (pc' \in {"finish", "unjournal"} => Settled)
    BY <1>33 DEF Start, env, ghosts, Goto, Settled, GiveUp
  <2>2. \A pl \in Places \ {Staging} : file'[pl] = file[pl]
    BY <1>33 DEF Start
  <2> QED  BY <2>1, <2>2, GroupsStay
<1>34. CASE MoveOne
  <2>1. pc = "moving" /\ pc' = pc /\ parts' = parts /\ journal' = journal
    BY <1>34, MoveOneIs
  <2>2. /\ mv.src \in Places /\ mv.dst \in Places /\ mv.src # mv.dst
        /\ mv.todo \in SUBSET Parts /\ journal.state # "none"
    BY <2>1, MovePlaces
  <2>3. CASE file' = file
    BY <2>1, <2>3, GroupsStay
  <2>4. CASE file' # file
    <3>1. PICK x \in mv.todo :
             /\ file'[mv.dst][x] = file[mv.src][x] /\ file'[mv.src][x] = None
             /\ \A pl \in Places, y \in Parts :
                  (pl \notin {mv.src, mv.dst} \/ y # x) => file'[pl][y] = file[pl][y]
      BY <1>34, <2>4, MoveOneIs
    <3>2. x \in Parts /\ file[mv.dst][x] = None
      BY <2>1, <2>2, <3>1 DEF MoveInv, MoveFiles, Has
    <3>3. mv.src = Live => Spare(Live) \/ journal.state \notin Swapped
      BY DEF GroupsInv
    <3>4. \/ mv.src = Live /\ mv.dst = MySafety
          \/ mv.src = Live /\ journal.state \in Swapped
          \/ mv.src = Staging
          \/ mv.src = MySafety /\ mv.dst = Live /\ journal.state \notin Swapped
      BY <2>1 DEF MoveInv, OwnMove, MoveIs, Swapped
    <3>5. \/ ~Needed(file[mv.src][x], x)
          \/ /\ mv.src \in {Live, MySafety} /\ mv.dst \in {Live, MySafety}
             /\ journal.state \notin Swapped
      BY <3>2, <3>3, <3>4, StagingIsSpare DEF Spare
    <3> QED  BY <2>1, <2>2, <3>1, <3>2, <3>5, RenameGroups
  <2> QED  BY <2>3, <2>4
<1>35. CASE MoveDone
  <2>1. /\ parts' = parts /\ journal' = journal /\ file' = file /\ pc = "moving"
        /\ ~mv.undo /\ mv.todo = {} /\ pc' \in {mv.ok, mv.fail}
    BY <1>35 DEF MoveDone, env, ghosts
  <2>2. \A x \in Parts : ~Has(mv.src, x)
    BY <2>1 DEF MoveInv, MoveFiles
  <2>3. pc' # "unjournal" /\ (pc' = "finish" => mv.src = MySafety) /\ journal.state # "none"
    BY <2>1, MoveEnds
  <2>4. pc' = "finish" => ~GroupExists(MySafety)
    BY <2>2, <2>3 DEF GroupExists, Present
  <2> QED  BY <2>1, <2>3, <2>4, GroupsStay, BackInLive
<1>36. CASE MoveUndo
  <2>1. /\ pc = "moving" /\ pc' \in {pc, mv.fail} /\ parts' = parts /\ journal' = journal
    BY <1>36 DEF MoveUndo, env, ghosts
  <2>2. /\ mv.src \in Places /\ mv.dst \in Places /\ mv.src # mv.dst
        /\ mv.done \in SUBSET Parts /\ journal.state # "none"
    BY <2>1, MovePlaces
  <2>0. pc' \notin {"finish", "unjournal"}
    BY <2>1, MoveEnds
  <2>3. CASE file' = file
    BY <2>0, <2>1, <2>3, GroupsStay
  <2>4. CASE file' # file
    <3>1. PICK x \in mv.done :
             /\ file'[mv.src][x] = file[mv.dst][x] /\ file'[mv.dst][x] = None
             /\ \A pl \in Places, y \in Parts :
                  (pl \notin {mv.src, mv.dst} \/ y # x) => file'[pl][y] = file[pl][y]
      BY <1>36, <2>4, MoveUndoIs
    <3>2. x \in Parts /\ file[mv.src][x] = None
      BY <2>1, <2>2, <3>1 DEF MoveInv, MoveFiles, Has
    <3>3. \/ mv.src = Live /\ mv.dst = MySafety /\ journal.state \notin Swapped
          \/ mv.src = Live /\ mv.dst = MySafety /\ journal.state = "original-renamed"
          \/ mv.src = Live /\ mv.dst = MyFailed
          \/ mv.src = Staging /\ mv.dst = Live /\ journal.state \in Swapped
          \/ mv.src = MySafety /\ mv.dst = Live /\ journal.state \notin Swapped
      BY <2>1 DEF MoveInv, OwnMove, MoveIs, Swapped
    <3>4. Spare(MyFailed) /\ (journal.state \in Swapped => Spare(Live))
      BY <2>2 DEF GroupsInv
    <3>5. mv.dst = MySafety /\ journal.state = "original-renamed" => file[MySafety][x] = Blank
      BY <2>1, <3>1 DEF MoveInv, MoveContents
    <3>6. \/ ~Needed(file[mv.dst][x], x)
          \/ /\ mv.src \in {Live, MySafety} /\ mv.dst \in {Live, MySafety}
             /\ journal.state \notin Swapped
      BY <3>2, <3>3, <3>4, <3>5, StagingIsSpare DEF Spare
    <3> QED  BY <2>0, <2>1, <2>2, <3>1, <3>2, <3>6, RenameGroups
  <2> QED  BY <2>3, <2>4
<1>37. CASE UNCHANGED vars
  BY <1>37 DEF vars, GroupsInv, Settled, OneGroup, Spare, Needed, MySafety, MyFailed
<1> QED  BY <1>1, <1>2, <1>3, <1>4, <1>5, <1>6, <1>7, <1>8, <1>9, <1>10, <1>11, <1>12,
  <1>13, <1>14, <1>15, <1>16, <1>17, <1>18, <1>19, <1>20, <1>21, <1>22, <1>23, <1>24,
  <1>25, <1>26, <1>27, <1>28, <1>29, <1>30, <1>31, <1>32, <1>33, <1>34, <1>35, <1>36,
  <1>37 DEF Next, Install, Reconcile, Move



-----------------------------------------------------------------------------
(* The database that is opened is whole *)

(* The original database was whole before a step if it is after it. *)
LEMMA WasWholeBefore ==
    ASSUME JInv, [Next]_vars, WasWhole'
    PROVE  WasWhole
<1>1. CASE parts'[0] = parts[0]
  BY <1>1 DEF WasWhole
<1>2. CASE parts'[0] # parts[0]
  <2>1. 0 = file[Live]["main"]
    BY <1>2, PartsStep, VersionsAre, RestoreBounds DEF Empty
  <2> QED  BY <2>1, PlacesDiffer DEF JInv, MainsInv, WasWhole
<1> QED  BY <1>1, <1>2

(* A step that leaves the journal and every group but the staging one alone. *)
LEMMA ShapeStay ==
    ASSUME JInv, ShapeInv, UNCHANGED <<parts, journal, rotated, superseded>>,
           \A pl \in Places \ {Staging} : file'[pl] = file[pl],
           pc' \in {"finish", "unjournal"} =>
              Settled \/ (Has(Live, "main") /\ Fine({Live}, file[Live]["main"])),
           pc' \in {"close", "rename"} => Vacant(MySafety),
           pc' = "moving" /\ mv'.src = Live => journal.state # "original-renamed",
           pc' # "writeverified",
           pc' = "writequarantine" => Has(MySafety, "main"),
           pc' = "beginrollback" \/ (pc' = "moving" /\ mv'.ok = "beginrollback") =>
              journal.state # "none" /\ Has(MySafety, "main"),
           pc' = "beginrollback" => Has(Live, "main") \/ Vacant(Live)
    PROVE  ShapeInv'
<1>1. file'[Live] = file[Live]
  BY PlacesDiffer
<1>2. journal.state # "none" => file'[MySafety] = file[MySafety]
  BY MyPlaces DEF JInv
<1>3. MySafety' = MySafety /\ FirstRestore' = FirstRestore
  BY DEF MySafety, FirstRestore
<1>4. SettledShape'
  <2>1. CASE Settled
    BY <1>1, <2>1 DEF ShapeInv, SettledShape, Settled, Fine, Whole, Rotated, Vacant, Has
  <2>2. CASE ~Settled
    BY <1>1, <2>2 DEF SettledShape, Settled, Fine, Whole, Rotated, Vacant, Has
  <2> QED  BY <2>1, <2>2
<1>5. PreparedShape'
  BY <1>1, <1>2, <1>3 DEF ShapeInv, PreparedShape, Fine, Whole, Rotated, Vacant, Apart, Has
<1>6. SwappedShape'
  BY <1>1, <1>2, <1>3 DEF ShapeInv, SwappedShape, Swapped, Fine, Whole, Rotated, Vacant, Has
<1>7. RollShape'
  BY <1>1, <1>2, <1>3 DEF ShapeInv, RollShape, Fine, Whole, Rotated, Vacant, Apart, Has
<1> QED  BY <1>4, <1>5, <1>6, <1>7 DEF ShapeInv

(* A connection to the replacement. *)
LEMMA ShapeReplacement ==
    ASSUME JInv, ShapeInv, UNCHANGED <<parts, journal, superseded>>, rotated \subseteq rotated',
           journal.state \in Swapped, Has(Live, "main"),
           file'[Live]["main"] = file[Live]["main"],
           \A pl \in Places \ {Live} : file'[pl] = file[pl],
           pc' \in {"finish", "unjournal"} =>
              /\ \A s \in Sidecars : file'[Live][s] = file[Live]["main"]
              /\ file[Live]["main"] \in rotated,
           pc' \notin {"moving", "writequarantine", "beginrollback"},
           pc' = "writeverified" => file[Live]["main"] \in rotated'
    PROVE  ShapeInv'
<1>1. journal.state # "none" /\ MySafety' = MySafety /\ FirstRestore' = FirstRestore
      /\ journal.state \notin {"none", "prepared", "rolling-back"}
  BY DEF Swapped, MySafety, FirstRestore
<1>2. file'[MySafety] = file[MySafety]
  BY <1>1, MyPlaces DEF JInv
<1>3. SettledShape'
  BY <1>1, PartsAre DEF SettledShape, Settled, Fine, Whole, Rotated, Has
<1>4. PreparedShape'
  BY <1>1 DEF PreparedShape
<1>5. SwappedShape'
  BY <1>1, <1>2 DEF ShapeInv, SwappedShape, Swapped, Fine, Whole, Rotated, Vacant, Has
<1>6. RollShape'
  BY <1>1 DEF RollShape
<1> QED  BY <1>3, <1>4, <1>5, <1>6 DEF ShapeInv

(* With the safety group gone, the database is whole in the live group. *)
LEMMA FineInLive ==
    ASSUME Vacant(MySafety), NEW v \in Versions, Fine({Live, MySafety}, v)
    PROVE  Fine({Live}, v)
<1>1. \A s \in Sidecars : file[MySafety][s] = None
  BY PartsAre DEF Vacant, Has
<1>2. \A s \in Sidecars : s \in parts[v] => file[Live][s] = v
  BY <1>1, VersionsAre DEF Fine, Whole
<1> QED  BY <1>2 DEF Fine, Whole

(* With the live group gone, it is whole in the safety group. *)
LEMMA FineInSafety ==
    ASSUME Vacant(Live), NEW v \in Versions, Fine({Live, MySafety}, v)
    PROVE  Fine({MySafety}, v)
<1>1. \A s \in Sidecars : file[Live][s] = None
  BY PartsAre DEF Vacant, Has
<1>2. \A s \in Sidecars : s \in parts[v] => file[MySafety][s] = v
  BY <1>1, VersionsAre DEF Fine, Whole
<1> QED  BY <1>2 DEF Fine, Whole

(* A group is vacant, or it exists. *)
LEMMA VacantIs ==
    ASSUME NEW pl
    PROVE  Vacant(pl) <=> ~GroupExists(pl)
BY DEF Vacant, GroupExists, Present


(* One file of a group goes to the other place of the move, or comes back. *)
LEMMA RenameShape ==
    ASSUME JInv, ShapeInv, pc = "moving", pc' = "moving", SameMove,
           UNCHANGED <<parts, journal, rotated, superseded>>,
           NEW p, NEW q, (p = mv.src /\ q = mv.dst) \/ (p = mv.dst /\ q = mv.src),
           NEW x \in Parts, Has(p, x), ~Has(q, x),
           file'[q][x] = file[p][x], file'[p][x] = None,
           \A pl \in Places, y \in Parts :
              (pl \notin {p, q} \/ y # x) => file'[pl][y] = file[pl][y],
           mv.strict => x # "main",
           p = mv.dst /\ x = "main" => \A y \in Parts \ {x} : ~Has(p, y),
           journal.state = "rolling-back" /\ x # "main" => ~Has(MySafety, "main"),
           journal.state = "original-renamed" => x = "main" \/ Has(Live, "main")
    PROVE  ShapeInv'
<1>1. /\ journal.state # "none" /\ MySafety' = MySafety /\ FirstRestore' = FirstRestore
      /\ Live \in Places /\ MySafety \in Places /\ MySafety # Live /\ Staging # MySafety
      /\ Staging \in Places /\ Live # Staging /\ MyFailed # MySafety /\ MyFailed # Live
  BY MovePlaces, MyPlaces, PlacesDiffer DEF JInv, MySafety, FirstRestore
<1>2. "main" \in Parts /\ Sidecars \subseteq Parts /\ "main" \notin Sidecars
  BY PartsAre
<1>3. SettledShape'
  BY <1>1 DEF SettledShape, Settled
<1>4. OwnMove
  BY DEF JInv, MoveInv
<1>5. CASE journal.state = "prepared"
  <2>1. {p, q} = {Live, MySafety}
    BY <1>4, <1>5 DEF OwnMove, MoveIs
  <2>2. ~FirstRestore
    BY <1>5 DEF JInv, LiveInv
  <2>3. /\ Has(Live, "main") <=> ~Has(MySafety, "main")
        /\ Has(Live, "main") => Fine({Live, MySafety}, file[Live]["main"])
        /\ Has(MySafety, "main") => Fine({Live, MySafety}, file[MySafety]["main"])
        /\ Apart(Live, MySafety)
    BY <1>5, <2>2 DEF ShapeInv, PreparedShape
  <2>4. PICK v : Fine({Live, MySafety}, v) /\ v \in {file[Live]["main"], file[MySafety]["main"]}
                 /\ v # None
    BY <2>3 DEF Has
  <2>5. (Has(Live, "main") <=> ~Has(MySafety, "main"))' /\ (Apart(Live, MySafety))'
    BY <1>1, <1>2, <2>1, <2>3 DEF Apart, Has
  <2>6. /\ (Has(Live, "main"))' => file'[Live]["main"] = v
        /\ (Has(MySafety, "main"))' => file'[MySafety]["main"] = v
    BY <1>1, <1>2, <2>1, <2>3, <2>4 DEF Has
  <2>7. \A s \in Sidecars :
           /\ file'[Live][s] \in {None, Blank, v} /\ file'[MySafety][s] \in {None, Blank, v}
           /\ s \in parts[v] => file'[Live][s] = v \/ file'[MySafety][s] = v
    <3>1. SUFFICES ASSUME NEW s \in Sidecars
                   PROVE  /\ file'[Live][s] \in {None, Blank, v}
                          /\ file'[MySafety][s] \in {None, Blank, v}
                          /\ s \in parts[v] => file'[Live][s] = v \/ file'[MySafety][s] = v
      OBVIOUS
    <3>2. /\ file[Live][s] \in {None, Blank, v} /\ file[MySafety][s] \in {None, Blank, v}
          /\ s \in parts[v] => file[Live][s] = v \/ file[MySafety][s] = v
      BY <2>4 DEF Fine, Whole
    <3>3. CASE s = x
      BY <2>1, <2>4, <3>2, <3>3 DEF Has
    <3>4. CASE s # x
      BY <1>1, <1>2, <3>2, <3>4
    <3> QED  BY <3>3, <3>4
  <2>8. Rotated(v)'
    BY <2>4 DEF Fine, Rotated
  <2>9. PreparedShape'
    BY <1>1, <2>2, <2>5, <2>6, <2>7, <2>8 DEF PreparedShape, Fine, Whole
  <2>10. RollShape'
    <3>1. CASE mv.ok = "beginrollback"
      <4>1. x # "main" /\ Has(MySafety, "main")
        BY <1>4, <1>5, <3>1 DEF OwnMove, MoveIs, ShapeInv, RollShape
      <4>2. (Has(MySafety, "main"))'
        BY <1>1, <1>2, <4>1 DEF Has
      <4> QED  BY <1>1, <1>5, <4>2 DEF RollShape
    <3>2. CASE mv.ok # "beginrollback"
      BY <1>1, <1>5, <3>2 DEF RollShape, SameMove
    <3> QED  BY <3>1, <3>2
  <2>11. SwappedShape'
    BY <1>5 DEF SwappedShape, Swapped
  <2> QED  BY <1>3, <2>9, <2>10, <2>11 DEF ShapeInv
<1>6. CASE journal.state \in Swapped
  <2>1. MySafety \notin {p, q} /\ journal.state \in {"original-renamed", "quarantining"}
    BY <1>1, <1>4, <1>6 DEF OwnMove, MoveIs, Swapped, ShapeInv, SwappedShape
  <2>2. \A y \in Parts : file'[MySafety][y] = file[MySafety][y]
    BY <1>1, <2>1
  <2>3. ASSUME journal.state = "original-renamed", ~(Has(Live, "main"))'
        PROVE  (Vacant(Live))'
    <3>1. mv.src # Live
      BY <2>3 DEF ShapeInv, SwappedShape, Swapped
    <3>2. mv.src = Staging /\ mv.dst = Live
      BY <1>4, <2>3, <3>1 DEF OwnMove, MoveIs
    <3>3. CASE x = "main"
      <4>1. p = Live /\ \A y \in Parts \ {x} : ~Has(Live, y)
        BY <2>3, <3>2, <3>3 DEF Has
      <4> QED  BY <1>1, <4>1 DEF Vacant, Has
    <3>4. CASE x # "main"
      BY <1>1, <1>2, <2>3, <3>4 DEF Has
    <3> QED  BY <3>3, <3>4
  <2>4. SwappedShape'
    <3>1. /\ FirstRestore => Vacant(MySafety)
          /\ ~FirstRestore => Has(MySafety, "main")
          /\ Has(MySafety, "main") => Fine({MySafety}, file[MySafety]["main"])
          /\ journal.state = "original-renamed" => mv.src # Live
          /\ journal.state = "quarantining" => Has(MySafety, "main")
      BY <1>6 DEF ShapeInv, SwappedShape
    <3>2. /\ FirstRestore => (Vacant(MySafety))'
          /\ ~FirstRestore => (Has(MySafety, "main"))'
          /\ journal.state = "quarantining" => (Has(MySafety, "main"))'
      BY <1>1, <1>2, <2>2, <3>1 DEF Vacant, Has
    <3>3. (Has(MySafety, "main"))' => Fine({MySafety}, file[MySafety]["main"])'
      BY <1>1, <1>2, <2>2, <3>1 DEF Fine, Whole, Rotated, Has
    <3>4. mv'.src = mv.src
      BY DEF SameMove
    <3> QED  BY <1>1, <2>1, <2>3, <3>1, <3>2, <3>3, <3>4 DEF SwappedShape
  <2>5. RollShape'
    <3>1. mv.ok = "beginrollback" => (Has(MySafety, "main"))'
      BY <1>1, <1>2, <2>2 DEF ShapeInv, RollShape, Has
    <3>2. journal.state # "rolling-back" /\ mv'.ok = mv.ok
      BY <2>1 DEF SameMove
    <3> QED  BY <1>1, <3>1, <3>2 DEF RollShape
  <2>6. PreparedShape'
    BY <2>1 DEF PreparedShape
  <2> QED  BY <1>3, <2>4, <2>5, <2>6 DEF ShapeInv
<1>7. CASE journal.state = "rolling-back"
  <2>1. mv.src = MySafety /\ mv.dst = Live /\ mv.ok = "finish"
    BY <1>4, <1>7 DEF OwnMove, MoveIs
  <2>2. /\ Has(MySafety, "main") =>
              Fine({MySafety}, file[MySafety]["main"]) /\ (~Has(Live, "main") => Vacant(Live))
        /\ ~Has(MySafety, "main") =>
              /\ Has(Live, "main") /\ Apart(Live, MySafety)
              /\ Fine({Live, MySafety}, file[Live]["main"])
    BY <1>7 DEF ShapeInv, RollShape
  <2>3. CASE x = "main" /\ p = MySafety
    <3>1. PICK v : v = file[MySafety]["main"] /\ Fine({MySafety}, v)
      BY <2>2, <2>3
    <3>2. q = Live /\ \A y \in Parts : file[Live][y] = None
      BY <1>1, <2>1, <2>2, <2>3 DEF Vacant, Has
    <3>3. /\ file'[Live]["main"] = v /\ file'[MySafety]["main"] = None /\ v # None
          /\ \A s \in Sidecars : file'[Live][s] = None /\ file'[MySafety][s] = file[MySafety][s]
      BY <1>1, <1>2, <2>3, <3>1, <3>2 DEF Has
    <3>5. (Has(Live, "main") /\ Apart(Live, MySafety) /\ ~Has(MySafety, "main"))'
      BY <1>1, <3>3, PartsAre DEF Apart, Has
    <3>6. Fine({Live, MySafety}, file[Live]["main"])'
      BY <1>1, <3>1, <3>3 DEF Fine, Whole, Rotated
    <3> QED  BY <1>1, <1>3, <1>7, <2>1, <3>5, <3>6
         DEF ShapeInv, RollShape, PreparedShape, SwappedShape, Swapped, SameMove
  <2>4. CASE x = "main" /\ p = Live
    <3>1. q = MySafety /\ \A y \in Parts \ {x} : file[Live][y] = None
      BY <1>1, <2>1, <2>4 DEF Has
    <3>2. PICK v : v = file[Live]["main"] /\ Fine({Live, MySafety}, v)
      BY <2>2, <2>4, <3>1
    <3>3. /\ file'[MySafety]["main"] = v /\ file'[Live]["main"] = None /\ v # None
          /\ \A s \in Sidecars : /\ file'[Live][s] = None /\ file[Live][s] = None
                                 /\ file'[MySafety][s] = file[MySafety][s]
      BY <1>1, <1>2, <2>4, <3>1, <3>2 DEF Has
    <3>4. v \in Versions
      BY <1>1, <2>4, <3>2, MainVersion DEF JInv
    <3>5. \A s \in Sidecars : /\ file[MySafety][s] \in {None, Blank, v}
                              /\ s \in parts[v] => file[MySafety][s] = v
      BY <3>2, <3>3, <3>4, VersionsAre DEF Fine, Whole
    <3>6. Rotated(v)'
      BY <3>2 DEF Fine, Rotated
    <3>7. Fine({MySafety}, file[MySafety]["main"])'
      BY <1>1, <3>3, <3>5, <3>6 DEF Fine, Whole
    <3>8. (Has(MySafety, "main") /\ Vacant(Live))'
      BY <1>1, <3>3, PartsAre DEF Vacant, Has
    <3> QED  BY <1>1, <1>3, <1>7, <2>1, <3>7, <3>8
         DEF ShapeInv, RollShape, PreparedShape, SwappedShape, Swapped, SameMove
  <2>5. CASE x # "main"
    <3>1. ~Has(MySafety, "main") /\ {p, q} = {Live, MySafety}
      BY <1>7, <2>1, <2>5
    <3>2. PICK v : v = file[Live]["main"] /\ Fine({Live, MySafety}, v)
      BY <2>2, <3>1
    <3>3. Has(Live, "main") /\ Apart(Live, MySafety)
      BY <2>2, <3>1
    <3>4. file'[Live]["main"] = v /\ file'[MySafety]["main"] = None /\ v # None
      BY <1>1, <1>2, <2>5, <3>1, <3>2, <3>3 DEF Has
    <3>5. (Apart(Live, MySafety))'
      BY <1>1, <1>2, <3>1, <3>3 DEF Apart, Has
    <3>6. \A s \in Sidecars :
             /\ file'[Live][s] \in {None, Blank, v} /\ file'[MySafety][s] \in {None, Blank, v}
             /\ s \in parts[v] => file'[Live][s] = v \/ file'[MySafety][s] = v
      <4>1. SUFFICES ASSUME NEW s \in Sidecars
                     PROVE  /\ file'[Live][s] \in {None, Blank, v}
                            /\ file'[MySafety][s] \in {None, Blank, v}
                            /\ s \in parts[v] => file'[Live][s] = v \/ file'[MySafety][s] = v
        OBVIOUS
      <4>2. /\ file[Live][s] \in {None, Blank, v} /\ file[MySafety][s] \in {None, Blank, v}
            /\ s \in parts[v] => file[Live][s] = v \/ file[MySafety][s] = v
        BY <3>2 DEF Fine, Whole
      <4>3. CASE s = x
        BY <3>1, <3>4, <4>2, <4>3 DEF Has
      <4>4. CASE s # x
        BY <1>1, <1>2, <4>2, <4>4
      <4> QED  BY <4>3, <4>4
    <3>7. Rotated(v)'
      BY <3>2 DEF Fine, Rotated
    <3>8. Fine({Live, MySafety}, file[Live]["main"])'
      BY <1>1, <3>4, <3>6, <3>7 DEF Fine, Whole
    <3>9. (Has(Live, "main") /\ ~Has(MySafety, "main"))'
      BY <1>1, <3>4 DEF Has
    <3> QED  BY <1>1, <1>3, <1>7, <2>1, <3>5, <3>8, <3>9
         DEF ShapeInv, RollShape, PreparedShape, SwappedShape, Swapped, SameMove
  <2> QED  BY <2>1, <2>3, <2>4, <2>5
<1>8. journal.state \in {"prepared", "rolling-back"} \union Swapped
  BY <1>4 DEF OwnMove, MoveIs, Swapped
<1> QED  BY <1>5, <1>6, <1>7, <1>8

(* A step keeps each group whole in the places where startup looks for it. *)
LEMMA ShapeKept ==
    ASSUME JInv, ShapeInv, ~superseded' \/ CalmInv, [Next]_vars
    PROVE  ShapeInv'
<1> USE DEF JInv, Typed
<1>1. CASE InstallRestore
  <2>1. UNCHANGED <<parts, journal, rotated, superseded>>
    BY <1>1 DEF InstallRestore, env, ghosts
  <2>2. \A pl \in Places \ {Staging} : file'[pl] = file[pl]
    BY <1>1, InstallRestoreIs
  <2>3. /\ pc' \notin {"finish", "close", "rename", "moving", "writeverified", "writequarantine",
                       "beginrollback"}
        /\ pc' = "unjournal" => pc = "finish"
    BY <1>1 DEF InstallRestore, Goto, GiveUp
  <2> QED  BY <2>1, <2>2, <2>3, ShapeStay DEF Settled
<1>2. CASE StagingFails
  <2>1. UNCHANGED <<parts, journal, rotated, superseded>>
    BY <1>2 DEF StagingFails, env, ghosts
  <2>2. \A pl \in Places \ {Staging} : file'[pl] = file[pl]
    BY <1>2, RemoveStagingMainIs DEF StagingFails
  <2>3. /\ pc' \notin {"finish", "close", "rename", "moving", "writeverified", "writequarantine",
                       "beginrollback"}
        /\ pc' = "unjournal" => pc = "finish"
    BY <1>2 DEF StagingFails, Goto, GiveUp, MayRestore
  <2> QED  BY <2>1, <2>2, <2>3, ShapeStay DEF Settled
<1>3. CASE Prepare
  <2>1. CASE RemoveStagingMain /\ UNCHANGED <<journal, parts, superseded>> /\ pc' = "quit"
    <3>1. rotated' = rotated
      BY <1>3 DEF Prepare
    <3> QED  BY <2>1, <3>1, RemoveStagingMainIs, ShapeStay
  <2>2. CASE /\ journal' = [state |-> "prepared", n |-> restores, originalPresent |-> GroupExists(Live)]
             /\ superseded' = (superseded \/ journal.state # "none") /\ file' = file
             /\ parts' = IF session = "open" THEN [parts EXCEPT ![file[Live]["main"]] = {"main"}]
                                             ELSE parts
    <3>1. /\ MySafety' = Safety(restores) /\ (FirstRestore' <=> ~GroupExists(Live))
          /\ journal'.state = "prepared" /\ pc' \in {"close", "rename", "quit"} /\ rotated' = rotated
      BY <1>3, <2>2 DEF MySafety, FirstRestore, Prepare, Goto
    <3>2. restores \in 1 .. MaxRestores
      BY <1>3, RestoreStarted, RestoreBounds DEF Prepare, CountTypeOK
    <3>3. \A x \in Parts : file[Safety(restores)][x] = None
      BY <1>3, <3>2 DEF Prepare, UnusedInv, Has
    <3>4. (Vacant(MySafety))'
      BY <2>2, <3>1, <3>3 DEF Vacant, Has
    <3>5. /\ GroupExists(Live) => Has(Live, "main")
          /\ Has(Live, "main") => Fine({Live}, file[Live]["main"]) \/ journal.state = "replacement-installed"
      <4>1. CASE journal.state = "none"
        BY <4>1, VacantIs DEF ShapeInv, SettledShape, Settled
      <4>2. CASE journal.state # "none"
        <5>1. CalmInv
          BY <2>2, <4>2
        <5>2. journal.state = "replacement-installed" /\ Has(Live, "main")
          BY <1>3, <4>2, <5>1 DEF CalmInv, Prepare
        <5> QED  BY <5>2
      <4> QED  BY <4>1, <4>2
    <3>6. ASSUME Has(Live, "main")
          PROVE  /\ \A s \in Sidecars : file[Live][s] \in {None, Blank, file[Live]["main"]}
                 /\ \A s \in Sidecars : s \in parts'[file[Live]["main"]] =>
                                           file[Live][s] = file[Live]["main"]
                 /\ Rotated(file[Live]["main"])'
      <4>0. file[Live]["main"] \in Versions
        BY <3>6, MainVersion, PlacesDiffer
      <4>1. CASE Fine({Live}, file[Live]["main"])
        <5>1. \A s \in Sidecars : s \in parts'[file[Live]["main"]] => s \in parts[file[Live]["main"]]
          BY <2>2, <4>0, PartsAre DEF GhostTypeOK
        <5> QED  BY <2>2, <3>1, <4>1, <5>1 DEF Fine, Whole, Rotated
      <4>2. CASE journal.state = "replacement-installed"
        <5>1. /\ parts[file[Live]["main"]] = {} /\ session # "open"
              /\ \A s \in Sidecars : file[Live][s] \in {None, Blank, file[Live]["main"]}
          BY <3>6, <4>2 DEF ReplacementInv, Swapped, SessionInv
        <5> QED  BY <2>2, <4>2, <5>1 DEF Rotated
      <4> QED  BY <3>5, <3>6, <4>1, <4>2
    <3>7. Has(Live, "main") => Fine({Live, MySafety}, file[Live]["main"])'
      BY <2>2, <3>1, <3>3, <3>6, PartsAre DEF Fine, Whole
    <3>8. GroupExists(Live) <=> Has(Live, "main")
      BY <3>5, PartsAre DEF GroupExists, Present
    <3>9. PreparedShape'
      BY <2>2, <3>1, <3>4, <3>7, <3>8, PartsAre DEF PreparedShape, Apart, Vacant, Has
    <3>10. SettledShape' /\ SwappedShape' /\ RollShape'
      BY <3>1 DEF SettledShape, Settled, SwappedShape, Swapped, RollShape
    <3> QED  BY <3>9, <3>10 DEF ShapeInv
  <2> QED  BY <1>3, <2>1, <2>2 DEF Prepare, Goto
<1>4. CASE CloseSession
  <2>1. /\ UNCHANGED <<parts, rotated, superseded>> /\ pc' \in {"rename", "quit"}
        /\ journal.state = "prepared" /\ ~FirstRestore /\ Has(Live, "main")
        /\ parts[file[Live]["main"]] = {"main"}
        /\ \A x \in Parts : file[Live][x] = file[Live]["main"]
    BY <1>4 DEF CloseSession, env, ghosts, Goto, JournalInv, SessionInv, FirstRestore
  <2>2. /\ Fine({Live, MySafety}, file[Live]["main"]) /\ ~Has(MySafety, "main")
        /\ Apart(Live, MySafety) /\ Vacant(MySafety)
    BY <1>4, <2>1 DEF CloseSession, ShapeInv, PreparedShape
  <2>3. CASE RemoveStagingMain /\ journal' = journal /\ pc' = "quit"
    BY <2>1, <2>3, RemoveStagingMainIs, ShapeStay
  <2>4. CASE RemoveStagingMain /\ journal' = NoJournal /\ pc' = "quit"
    <3>1. file'[Live] = file[Live]
      BY <2>4, RemoveStagingMainIs, PlacesDiffer
    <3>2. SettledShape'
      BY <2>1, <2>2, <2>4, <3>1, PartsAre DEF SettledShape, Fine, Whole, Rotated, Has
    <3>3. PreparedShape' /\ SwappedShape' /\ RollShape'
      BY <2>4 DEF PreparedShape, SwappedShape, Swapped, RollShape, NoJournal
    <3> QED  BY <3>2, <3>3 DEF ShapeInv
  <2>5. CASE file' = CloseGroup /\ journal' = journal /\ pc' = "rename"
    <3>1. /\ file'[Live]["main"] = file[Live]["main"] /\ \A s \in Sidecars : file'[Live][s] = None
          /\ file'[MySafety] = file[MySafety]
      BY <2>1, <2>5, CloseGroupIs, MyPlaces
    <3>2. MySafety' = MySafety /\ FirstRestore' = FirstRestore
      BY <2>5 DEF MySafety, FirstRestore
    <3>3. PreparedShape'
      BY <2>1, <2>2, <2>5, <3>1, <3>2, PartsAre
      DEF PreparedShape, Fine, Whole, Rotated, Apart, Vacant, Has
    <3>4. SettledShape' /\ SwappedShape' /\ RollShape'
      BY <2>1, <2>5 DEF SettledShape, Settled, SwappedShape, Swapped, RollShape
    <3> QED  BY <3>3, <3>4 DEF ShapeInv
  <2> QED  BY <1>4, <2>3, <2>4, <2>5 DEF CloseSession, Goto
<1>5. CASE RenameOriginal
  <2>1. UNCHANGED <<parts, journal, rotated, superseded, file>> /\ journal.state = "prepared"
    BY <1>5 DEF RenameOriginal, env, ghosts, JournalInv
  <2>2. \/ pc' \in {"renamed", "renamefailed"}
        \/ pc' = "moving" /\ mv'.ok = "renamed"
    BY <1>5, RenameOriginalIs DEF Goes, MovesGroup, StartMove
  <2> QED  BY <2>1, <2>2, ShapeStay
<1>6. CASE RenameFailed
  <2>1. UNCHANGED <<parts, journal, rotated, superseded>>
    BY <1>6 DEF RenameFailed, env, ghosts
  <2>2. \A pl \in Places \ {Staging} : file'[pl] = file[pl]
    BY <1>6, RemoveStagingMainIs DEF RenameFailed
  <2>3. /\ pc' \notin {"finish", "close", "rename", "moving", "writeverified", "writequarantine",
                       "beginrollback"}
        /\ pc' = "unjournal" => pc = "finish"
    BY <1>6 DEF RenameFailed, Goto, GiveUp
  <2> QED  BY <2>1, <2>2, <2>3, ShapeStay DEF Settled
<1>7. CASE WriteRenamed
  <2>1. UNCHANGED <<parts, rotated, superseded, file>> /\ pc # "finish"
    BY <1>7 DEF WriteRenamed, WriteJournal, env, ghosts
  <2>2. journal.state \in {"prepared"} /\ ~GroupExists(Live)
    BY <1>7 DEF WriteRenamed, JournalInv, LiveInv
  <2>3. CASE journal' = journal /\ pc' \in {"blocked", "quit"}
    BY <2>1, <2>3, ShapeStay
  <2>4. CASE ~(journal' = journal /\ pc' \in {"blocked", "quit"})
    <3>1. journal \in JournalRecords
      BY <2>2 DEF JournalTypeOK, NoJournal, JournalStates
    <3>2. journal' = [journal EXCEPT !.state = "original-renamed"] /\ pc' \in {"install"}
      BY <1>7, <2>4 DEF WriteRenamed, WriteJournal, Goto, GiveUp
    <3>3. /\ journal'.state = "original-renamed" /\ journal'.n = journal.n
          /\ journal'.originalPresent = journal.originalPresent
      BY <3>1, <3>2 DEF JournalRecords
    <3>4. MySafety' = MySafety /\ FirstRestore' = FirstRestore /\ journal.state # "none"
      BY <2>2, <3>3 DEF MySafety, FirstRestore, JournalStates
    <3>5. Vacant(Live) /\ ~Has(Live, "main")
      BY <2>2, VacantIs, PartsAre DEF Vacant
    <3>6. CASE journal.state = "prepared"
      <4>1. /\ FirstRestore => Vacant(MySafety)
            /\ ~FirstRestore => /\ Has(MySafety, "main")
                                /\ Fine({Live, MySafety}, file[MySafety]["main"])
        BY <3>5, <3>6 DEF ShapeInv, PreparedShape
      <4>2. Has(MySafety, "main") => ~FirstRestore /\ file[MySafety]["main"] \in Versions
        BY <3>4, <4>1, MainVersion, MyPlaces, PartsAre DEF Vacant
      <4>3. Has(MySafety, "main") => Fine({MySafety}, file[MySafety]["main"])
        BY <3>5, <4>1, <4>2, FineInSafety
      <4>4. SwappedShape'
        BY <2>1, <3>2, <3>3, <3>4, <3>5, <4>1, <4>3 DEF SwappedShape, Swapped, Fine, Whole, Rotated, Vacant, Has
      <4>5. SettledShape' /\ PreparedShape' /\ RollShape'
        BY <3>2, <3>3 DEF SettledShape, Settled, PreparedShape, RollShape
      <4> QED  BY <4>4, <4>5 DEF ShapeInv
    <3>7. CASE journal.state = "original-renamed"
      <4>1. SwappedShape'
        BY <2>1, <3>2, <3>3, <3>4, <3>7 DEF ShapeInv, SwappedShape, Swapped, Fine, Whole, Rotated, Vacant, Has
      <4>2. SettledShape' /\ PreparedShape' /\ RollShape'
        BY <3>2, <3>3 DEF SettledShape, Settled, PreparedShape, RollShape
      <4> QED  BY <4>1, <4>2 DEF ShapeInv
    <3> QED  BY <2>2, <3>6, <3>7
  <2> QED  BY <2>3, <2>4
<1>8. CASE InstallStaging
  <2>1. UNCHANGED <<parts, journal, rotated, superseded, file>>
    BY <1>8 DEF InstallStaging, env, ghosts
  <2>2. \/ pc' \in {"installfailed", "blocked"}
        \/ pc' = "moving" /\ mv'.ok = "installed" /\ mv'.src = Staging
    BY <1>8, InstallStagingIs DEF Goes, MovesGroup, StartMove
  <2> QED  BY <2>1, <2>2, ShapeStay, PlacesDiffer
<1>9. CASE InstallFailed
  <2>1. /\ UNCHANGED <<parts, journal, rotated, superseded, file>>
        /\ pc' \in {"beginrollback", "quit"} /\ (pc' = "beginrollback" => ~FirstRestore)
        /\ journal.state = "original-renamed"
    BY <1>9 DEF InstallFailed, env, ghosts, Goto, FirstRestore, JournalInv
  <2>2. /\ pc' = "beginrollback" => Has(MySafety, "main")
        /\ Has(Live, "main") \/ Vacant(Live)
    BY <2>1 DEF ShapeInv, SwappedShape, Swapped
  <2> QED  BY <2>1, <2>2, ShapeStay
<1>10. CASE WriteInstalled
  <2>1. UNCHANGED <<parts, rotated, superseded, file>> /\ pc # "finish"
    BY <1>10 DEF WriteInstalled, WriteJournal, env, ghosts
  <2>2. journal.state \in {"original-renamed"}
    BY <1>10 DEF WriteInstalled, JournalInv, LiveInv
  <2>3. CASE journal' = journal /\ pc' \in {"blocked", "quit"}
    BY <2>1, <2>3, ShapeStay
  <2>4. CASE ~(journal' = journal /\ pc' \in {"blocked", "quit"})
    <3>1. journal \in JournalRecords
      BY <2>2 DEF JournalTypeOK, NoJournal, JournalStates
    <3>2. journal' = [journal EXCEPT !.state = "replacement-installed"] /\ pc' \in {"verify", "quit"}
      BY <1>10, <2>4 DEF WriteInstalled, WriteJournal, Goto, GiveUp
    <3>3. /\ journal'.state = "replacement-installed" /\ journal'.n = journal.n
          /\ journal'.originalPresent = journal.originalPresent
      BY <3>1, <3>2 DEF JournalRecords
    <3>4. MySafety' = MySafety /\ FirstRestore' = FirstRestore /\ journal.state # "none"
      BY <2>2, <3>3 DEF MySafety, FirstRestore, JournalStates
    <3>5. SwappedShape'
      BY <2>1, <2>2, <3>2, <3>3, <3>4 DEF ShapeInv, SwappedShape, Swapped, Fine, Whole, Rotated, Vacant, Has
    <3>6. SettledShape' /\ PreparedShape' /\ RollShape'
      BY <3>2, <3>3 DEF SettledShape, Settled, PreparedShape, RollShape
    <3> QED  BY <3>5, <3>6 DEF ShapeInv
  <2> QED  BY <2>3, <2>4
<1>11. CASE ReconcileNothing
  <2>1. UNCHANGED <<parts, journal, rotated, superseded>>
    BY <1>11 DEF ReconcileNothing, env, ghosts
  <2>2. \A pl \in Places \ {Staging} : file'[pl] = file[pl]
    BY <1>11 DEF ReconcileNothing
  <2>3. /\ pc' \notin {"finish", "close", "rename", "moving", "writeverified", "writequarantine",
                       "beginrollback"}
        /\ pc' = "unjournal" => pc = "finish"
    BY <1>11 DEF ReconcileNothing, Goto, GiveUp
  <2> QED  BY <2>1, <2>2, <2>3, ShapeStay DEF Settled
<1>12. CASE ReconcilePrepared
  <2>0. ~(Has(Live, "main") /\ FirstRestore)
    BY <1>12, PartsAre DEF ReconcilePrepared, LiveInv, GroupExists, Present
  <2>1. /\ UNCHANGED <<parts, journal, rotated, superseded, file>>
        /\ journal.state = "prepared"
    BY <1>12 DEF ReconcilePrepared, env, ghosts
  <2>2. \/ pc' \in {"blocked", "installstaged"}
        \/ pc' = "beginrollback" /\ ~GroupExists(Live) /\ Has(MySafety, "main")
        \/ pc' = "moving" /\ mv'.ok = "beginrollback" /\ Has(MySafety, "main")
        \/ pc' = "moving" /\ mv'.ok = "finish"
        \/ pc' = "finish" /\ ~GroupExists(MySafety) /\ Has(Live, "main") /\ ~FirstRestore
    BY <1>12, <2>0, ReconcilePreparedIs DEF Goes, MovesSidecars, StartMove
  <2>3. CASE pc' = "finish"
    <3>1. Vacant(MySafety) /\ Has(Live, "main") /\ ~FirstRestore
      BY <2>2, <2>3, VacantIs
    <3>2. Fine({Live, MySafety}, file[Live]["main"])
      BY <2>1, <3>1 DEF ShapeInv, PreparedShape
    <3>3. Fine({Live}, file[Live]["main"])
      BY <3>1, <3>2, FineInLive, MainVersion, PlacesDiffer
    <3> QED  BY <2>1, <2>3, <3>1, <3>3, ShapeStay
  <2> QED  BY <2>1, <2>2, <2>3, ShapeStay, VacantIs
<1>13. CASE ReconcileRenamed
  <2>1. /\ UNCHANGED <<parts, journal, rotated, superseded, file>>
        /\ journal.state = "original-renamed"
    BY <1>13 DEF ReconcileRenamed, env, ghosts
  <2>2. ~Has(Live, "main") => ~GroupExists(Live)
    BY <2>1, VacantIs DEF ShapeInv, SwappedShape, Swapped
  <2>3. \/ pc' \in {"blocked", "verify", "installstaged"}
        \/ pc' = "beginrollback" /\ ~GroupExists(Live) /\ Has(MySafety, "main")
        \/ pc' = "moving" /\ mv'.ok = "verify" /\ mv'.src = Staging
        \/ pc' = "moving" /\ GroupExists(Live) /\ ~Has(Live, "main")
    BY <1>13, ReconcileRenamedIs DEF Goes, MovesSidecars, StartMove
  <2> QED  BY <2>1, <2>2, <2>3, ShapeStay, VacantIs, PlacesDiffer
<1>14. CASE ReconcileLater
  <2>1. UNCHANGED <<parts, journal, rotated, superseded>>
    BY <1>14 DEF ReconcileLater, env, ghosts
  <2>2. \A pl \in Places \ {Staging} : file'[pl] = file[pl]
    BY <1>14 DEF ReconcileLater
  <2>3. /\ pc' \notin {"finish", "close", "rename", "moving", "writeverified", "writequarantine",
                       "beginrollback"}
        /\ pc' = "unjournal" => pc = "finish"
    BY <1>14 DEF ReconcileLater, Goto, GiveUp
  <2> QED  BY <2>1, <2>2, <2>3, ShapeStay DEF Settled
<1>15. CASE InstallStagedOnStartup
  <2>1. UNCHANGED <<parts, rotated, superseded, file>> /\ pc # "finish"
    BY <1>15 DEF InstallStagedOnStartup, WriteJournal, env, ghosts
  <2>2. journal.state \in {"prepared", "original-renamed"} /\ ~GroupExists(Live)
    BY <1>15 DEF InstallStagedOnStartup, JournalInv, LiveInv
  <2>3. CASE journal' = journal /\ pc' \in {"blocked", "quit"}
    BY <2>1, <2>3, ShapeStay
  <2>4. CASE ~(journal' = journal /\ pc' \in {"blocked", "quit"})
    <3>1. journal \in JournalRecords
      BY <2>2 DEF JournalTypeOK, NoJournal, JournalStates
    <3>2. journal' = [journal EXCEPT !.state = "original-renamed"] /\ pc' \in {"installnow"}
      BY <1>15, <2>4 DEF InstallStagedOnStartup, WriteJournal, Goto, GiveUp
    <3>3. /\ journal'.state = "original-renamed" /\ journal'.n = journal.n
          /\ journal'.originalPresent = journal.originalPresent
      BY <3>1, <3>2 DEF JournalRecords
    <3>4. MySafety' = MySafety /\ FirstRestore' = FirstRestore /\ journal.state # "none"
      BY <2>2, <3>3 DEF MySafety, FirstRestore, JournalStates
    <3>5. Vacant(Live) /\ ~Has(Live, "main")
      BY <2>2, VacantIs, PartsAre DEF Vacant
    <3>6. CASE journal.state = "prepared"
      <4>1. /\ FirstRestore => Vacant(MySafety)
            /\ ~FirstRestore => /\ Has(MySafety, "main")
                                /\ Fine({Live, MySafety}, file[MySafety]["main"])
        BY <3>5, <3>6 DEF ShapeInv, PreparedShape
      <4>2. Has(MySafety, "main") => ~FirstRestore /\ file[MySafety]["main"] \in Versions
        BY <3>4, <4>1, MainVersion, MyPlaces, PartsAre DEF Vacant
      <4>3. Has(MySafety, "main") => Fine({MySafety}, file[MySafety]["main"])
        BY <3>5, <4>1, <4>2, FineInSafety
      <4>4. SwappedShape'
        BY <2>1, <3>2, <3>3, <3>4, <3>5, <4>1, <4>3 DEF SwappedShape, Swapped, Fine, Whole, Rotated, Vacant, Has
      <4>5. SettledShape' /\ PreparedShape' /\ RollShape'
        BY <3>2, <3>3 DEF SettledShape, Settled, PreparedShape, RollShape
      <4> QED  BY <4>4, <4>5 DEF ShapeInv
    <3>7. CASE journal.state = "original-renamed"
      <4>1. SwappedShape'
        BY <2>1, <3>2, <3>3, <3>4, <3>7 DEF ShapeInv, SwappedShape, Swapped, Fine, Whole, Rotated, Vacant, Has
      <4>2. SettledShape' /\ PreparedShape' /\ RollShape'
        BY <3>2, <3>3 DEF SettledShape, Settled, PreparedShape, RollShape
      <4> QED  BY <4>1, <4>2 DEF ShapeInv
    <3> QED  BY <2>2, <3>6, <3>7
  <2> QED  BY <2>3, <2>4
<1>16. CASE InstallNow
  <2>1. UNCHANGED <<parts, journal, rotated, superseded, file>>
    BY <1>16 DEF InstallNow, env, ghosts
  <2>2. \/ pc' \in {"installfailed", "blocked"}
        \/ pc' = "moving" /\ mv'.ok = "installed" /\ mv'.src = Staging
    BY <1>16, InstallNowIs DEF Goes, MovesGroup, StartMove
  <2> QED  BY <2>1, <2>2, ShapeStay, PlacesDiffer
<1>17. CASE VerifySucceeds
  <2>1. /\ UNCHANGED <<parts, journal, superseded>> /\ rotated \subseteq rotated'
        /\ journal.state \in Swapped /\ Has(Live, "main") /\ pc' \in {"finalize", "reset"}
    BY <1>17 DEF VerifySucceeds, env, ghosts, JournalInv, LiveInv, Swapped, Goto
  <2>2. /\ file'[Live]["main"] = file[Live]["main"]
        /\ \A pl \in Places \ {Live} : file'[pl] = file[pl]
    BY <1>17, VerifySucceedsIs, PlacesDiffer, PartsAre
  <2> QED  BY <2>1, <2>2, ShapeReplacement
<1>18. CASE VerifyFails
  <2>1. /\ UNCHANGED <<parts, journal, rotated, superseded, file>>
        /\ pc' \in {"beginrollback", "blocked", "writequarantine"} /\ journal.state # "none"
        /\ pc' # "blocked" => Has(MySafety, "main")
        /\ pc' = "beginrollback" => ~GroupExists(Live)
    BY <1>18 DEF VerifyFails, env, ghosts, Goto, JournalInv
  <2> QED  BY <2>1, ShapeStay, VacantIs
<1>19. CASE Reset
  <2>1. /\ UNCHANGED <<parts, journal, superseded>> /\ rotated \subseteq rotated'
        /\ journal.state \in Swapped /\ Has(Live, "main") /\ pc' \in {"resetclose", "blocked"}
    BY <1>19 DEF Reset, env, ghosts, JournalInv, LiveInv, Swapped, Goto
  <2>2. /\ file'[Live]["main"] = file[Live]["main"]
        /\ \A pl \in Places \ {Live} : file'[pl] = file[pl]
    BY <1>19, OpenGroupIs, PlacesDiffer, PartsAre DEF Reset
  <2> QED  BY <2>1, <2>2, ShapeReplacement
<1>20. CASE ResetClose
  <2>1. /\ UNCHANGED <<parts, journal, superseded>> /\ rotated \subseteq rotated'
        /\ journal.state \in Swapped /\ Has(Live, "main") /\ pc' \in {"writeverified", "blocked"}
    BY <1>20 DEF ResetClose, env, ghosts, JournalInv, LiveInv, Swapped, Goto
  <2>2. /\ file'[Live]["main"] = file[Live]["main"]
        /\ \A pl \in Places \ {Live} : file'[pl] = file[pl]
    BY <1>20, CloseGroupIs, PlacesDiffer, PartsAre DEF ResetClose
  <2>3. pc' = "writeverified" => file[Live]["main"] \in rotated'
    BY <1>20 DEF ResetClose, Goto
  <2> QED  BY <2>1, <2>2, <2>3, ShapeReplacement
<1>21. CASE WriteVerified
  <2>1. UNCHANGED <<parts, rotated, superseded, file>> /\ pc # "finish"
    BY <1>21 DEF WriteVerified, WriteJournal, env, ghosts
  <2>2. journal.state \in {"original-renamed", "replacement-installed"}
    BY <1>21 DEF WriteVerified, JournalInv, LiveInv
  <2>3. CASE journal' = journal /\ pc' \in {"blocked", "quit"}
    BY <2>1, <2>3, ShapeStay
  <2>4. CASE ~(journal' = journal /\ pc' \in {"blocked", "quit"})
    <3>1. journal \in JournalRecords
      BY <2>2 DEF JournalTypeOK, NoJournal, JournalStates
    <3>2. journal' = [journal EXCEPT !.state = "verified"] /\ pc' \in {"finalize"}
      BY <1>21, <2>4 DEF WriteVerified, WriteJournal, Goto, GiveUp
    <3>3. /\ journal'.state = "verified" /\ journal'.n = journal.n
          /\ journal'.originalPresent = journal.originalPresent
      BY <3>1, <3>2 DEF JournalRecords
    <3>4. MySafety' = MySafety /\ FirstRestore' = FirstRestore /\ journal.state # "none"
      BY <2>2, <3>3 DEF MySafety, FirstRestore, JournalStates
    <3>5. SwappedShape'
      BY <2>1, <2>2, <3>2, <3>3, <3>4, <1>21 DEF ShapeInv, SwappedShape, Swapped, Fine, Whole, Rotated, Vacant, Has, WriteVerified
    <3>6. SettledShape' /\ PreparedShape' /\ RollShape'
      BY <3>2, <3>3 DEF SettledShape, Settled, PreparedShape, RollShape
    <3> QED  BY <3>5, <3>6 DEF ShapeInv
  <2> QED  BY <2>3, <2>4
<1>22. CASE Finalize
  <2>1. /\ UNCHANGED <<parts, journal, superseded>> /\ rotated \subseteq rotated'
        /\ journal.state \in Swapped /\ Has(Live, "main") /\ pc' \in {"finish", "blocked"}
    BY <1>22 DEF Finalize, env, ghosts, JournalInv, LiveInv, Swapped, Goto
  <2>2. /\ file'[Live]["main"] = file[Live]["main"]
        /\ \A pl \in Places \ {Live} : file'[pl] = file[pl]
    BY <1>22, OpenGroupIs, PlacesDiffer, PartsAre DEF Finalize
  <2>3. file[Live]["main"] \in rotated
    BY <1>22, <2>1 DEF Finalize, JournalInv, ShapeInv, SwappedShape
  <2>4. pc' = "finish" => \A s \in Sidecars : file'[Live][s] = file[Live]["main"]
    BY <1>22, OpenGroupIs, PartsAre DEF Finalize, Goto
  <2> QED  BY <2>1, <2>2, <2>3, <2>4, ShapeReplacement
<1>23. CASE WriteQuarantine
  <2>1. UNCHANGED <<parts, rotated, superseded, file>> /\ pc # "finish"
    BY <1>23 DEF WriteQuarantine, WriteJournal, env, ghosts
  <2>2. journal.state \in {"original-renamed", "replacement-installed", "verified"}
    BY <1>23 DEF WriteQuarantine, JournalInv, LiveInv
  <2>3. CASE journal' = journal /\ pc' \in {"blocked", "quit"}
    BY <2>1, <2>3, ShapeStay
  <2>4. CASE ~(journal' = journal /\ pc' \in {"blocked", "quit"})
    <3>1. journal \in JournalRecords
      BY <2>2 DEF JournalTypeOK, NoJournal, JournalStates
    <3>2. journal' = [journal EXCEPT !.state = "quarantining"] /\ pc' \in {"quarantine"}
      BY <1>23, <2>4 DEF WriteQuarantine, WriteJournal, Goto, GiveUp
    <3>3. /\ journal'.state = "quarantining" /\ journal'.n = journal.n
          /\ journal'.originalPresent = journal.originalPresent
      BY <3>1, <3>2 DEF JournalRecords
    <3>4. MySafety' = MySafety /\ FirstRestore' = FirstRestore /\ journal.state # "none"
      BY <2>2, <3>3 DEF MySafety, FirstRestore, JournalStates
    <3>5. SwappedShape'
      BY <2>1, <2>2, <3>2, <3>3, <3>4, <1>23 DEF ShapeInv, SwappedShape, Swapped, Fine, Whole, Rotated, Vacant, Has, WriteQuarantine
    <3>6. SettledShape' /\ PreparedShape' /\ RollShape'
      BY <3>2, <3>3 DEF SettledShape, Settled, PreparedShape, RollShape
    <3> QED  BY <3>5, <3>6 DEF ShapeInv
  <2> QED  BY <2>3, <2>4
<1>24. CASE Quarantine
  <2>1. /\ UNCHANGED <<parts, journal, rotated, superseded, file>>
        /\ journal.state = "quarantining"
    BY <1>24 DEF Quarantine, env, ghosts, JournalInv
  <2>2. \/ pc' = "blocked"
        \/ pc' = "beginrollback" /\ ~GroupExists(Live)
        \/ pc' = "moving" /\ mv'.ok = "beginrollback"
    BY <1>24, QuarantineIs DEF Goes, MovesGroup, MovesSidecars, StartMove
  <2>3. Has(MySafety, "main")
    BY <2>1 DEF ShapeInv, SwappedShape, Swapped
  <2> QED  BY <2>1, <2>2, <2>3, ShapeStay, VacantIs
<1>25. CASE BeginRollback
  <2>1. UNCHANGED <<parts, rotated, superseded, file>> /\ pc # "finish"
    BY <1>25 DEF BeginRollback, WriteJournal, env, ghosts
  <2>2. journal.state \in {"prepared", "original-renamed", "replacement-installed", "verified", "quarantining"}
    BY <1>25 DEF BeginRollback, JournalInv, LiveInv, JournalTypeOK, JournalRecords, JournalStates, NoJournal
  <2>3. CASE journal' = journal /\ pc' \in {"blocked", "quit"}
    BY <2>1, <2>3, ShapeStay
  <2>4. CASE ~(journal' = journal /\ pc' \in {"blocked", "quit"})
    <3>1. journal \in JournalRecords
      BY <2>2 DEF JournalTypeOK, NoJournal, JournalStates
    <3>2. journal' = [journal EXCEPT !.state = "rolling-back"] /\ pc' \in {"rollback"}
      BY <1>25, <2>4 DEF BeginRollback, WriteJournal, Goto, GiveUp
    <3>3. /\ journal'.state = "rolling-back" /\ journal'.n = journal.n
          /\ journal'.originalPresent = journal.originalPresent
      BY <3>1, <3>2 DEF JournalRecords
    <3>4. MySafety' = MySafety /\ FirstRestore' = FirstRestore /\ journal.state # "none"
      BY <2>2, <3>3 DEF MySafety, FirstRestore, JournalStates
    <3>5. /\ Has(MySafety, "main") /\ (Has(Live, "main") \/ Vacant(Live))
      BY <1>25 DEF BeginRollback, ShapeInv, RollShape
    <3>6. Fine({MySafety}, file[MySafety]["main"])
      <4>1. CASE journal.state = "prepared"
        <5>1. ~FirstRestore
          BY <3>5, <4>1, PartsAre DEF ShapeInv, PreparedShape, Vacant
        <5>2. ~Has(Live, "main") /\ Fine({Live, MySafety}, file[MySafety]["main"])
          BY <3>5, <4>1, <5>1 DEF ShapeInv, PreparedShape
        <5> QED  BY <3>4, <3>5, <5>2, FineInSafety, MainVersion, MyPlaces
      <4>2. CASE journal.state # "prepared"
        <5>1. journal.state \in Swapped
          BY <2>2, <4>2 DEF Swapped
        <5> QED  BY <3>5, <5>1 DEF ShapeInv, SwappedShape
      <4> QED  BY <4>1, <4>2
    <3>7. RollShape'
      BY <2>1, <3>2, <3>3, <3>4, <3>5, <3>6 DEF RollShape, Fine, Whole, Rotated, Vacant, Has
    <3>8. SettledShape' /\ PreparedShape' /\ SwappedShape'
      BY <3>2, <3>3 DEF SettledShape, Settled, PreparedShape, SwappedShape, Swapped
    <3> QED  BY <3>7, <3>8 DEF ShapeInv
  <2> QED  BY <2>3, <2>4
<1>26. CASE ResumeRollback
  <2>1. /\ UNCHANGED <<parts, journal, rotated, superseded, file>>
        /\ journal.state = "rolling-back"
    BY <1>26 DEF ResumeRollback, env, ghosts, JournalInv
  <2>2. \/ pc' \in {"blocked", "quit"}
        \/ pc' = "finish" /\ ~GroupExists(MySafety) /\ Has(Live, "main")
        \/ pc' = "moving" /\ mv'.ok = "finish"
    BY <1>26, ResumeRollbackIs DEF Goes, MovesGroup, MovesSidecars, StartMove, GiveUp
  <2>3. CASE pc' = "finish"
    <3>1. Vacant(MySafety) /\ Has(Live, "main")
      BY <2>2, <2>3, VacantIs
    <3>2. Fine({Live, MySafety}, file[Live]["main"])
      BY <2>1, <3>1, PartsAre DEF ShapeInv, RollShape, Vacant
    <3>3. Fine({Live}, file[Live]["main"])
      BY <3>1, <3>2, FineInLive, MainVersion, PlacesDiffer
    <3> QED  BY <2>1, <2>3, <3>1, <3>3, ShapeStay
  <2> QED  BY <2>1, <2>2, <2>3, ShapeStay
<1>27. CASE FinishRecovery
  <2>1. UNCHANGED <<parts, journal, rotated, superseded>>
    BY <1>27 DEF FinishRecovery, env, ghosts
  <2>2. \A pl \in Places \ {Staging} : file'[pl] = file[pl]
    BY <1>27, PlacesDiffer DEF FinishRecovery, FileTypeOK
  <2>3. /\ pc' \notin {"finish", "close", "rename", "moving", "writeverified", "writequarantine",
                       "beginrollback"}
        /\ pc' = "unjournal" => pc = "finish"
    BY <1>27 DEF FinishRecovery, Goto, GiveUp
  <2> QED  BY <2>1, <2>2, <2>3, ShapeStay DEF Settled
<1>28. CASE RemoveJournal
  <2>1. UNCHANGED <<parts, rotated, superseded, file>> /\ Settled
    BY <1>28 DEF RemoveJournal, WriteJournal, env, ghosts, Settled
  <2>2. pc' \in {"open", "quit", "blocked"}
    BY <1>28 DEF RemoveJournal, WriteJournal, Goto, GiveUp
  <2>3. CASE journal' = journal
    BY <2>1, <2>2, <2>3, ShapeStay
  <2>4. CASE journal' = NoJournal
    <3>1. SettledShape'
      BY <2>1 DEF ShapeInv, SettledShape, Fine, Whole, Rotated, Vacant, Has
    <3>2. PreparedShape' /\ SwappedShape' /\ RollShape'
      BY <2>2, <2>4 DEF PreparedShape, SwappedShape, Swapped, RollShape, NoJournal
    <3> QED  BY <3>1, <3>2 DEF ShapeInv
  <2> QED  BY <1>28, <2>3, <2>4 DEF RemoveJournal, WriteJournal
<1>29. CASE OpenLive
  <2>1. journal' = journal /\ journal.state = "none" /\ pc' = "running"
        /\ UNCHANGED <<rotated, superseded>>
    BY <1>29 DEF OpenLive, JournalInv, Goto
  <2>2. PICK v \in Versions :
           /\ v = file[Live]["main"] \/ (file[Live]["main"] = None /\ v = Empty)
           /\ \A x \in Parts : file'[Live][x] = v
    BY <1>29, OpenLiveIs
  <2>3. Rotated(v)
    <3>1. CASE v = file[Live]["main"]
      BY <2>1, <2>2, <3>1, VersionsAre DEF ShapeInv, SettledShape, Settled, Has, Fine
    <3>2. CASE v = Empty
      BY <3>2, VersionsAre DEF Rotated
    <3> QED  BY <2>2, <3>1, <3>2
  <2>4. SettledShape'
    BY <2>1, <2>2, <2>3, PartsAre, VersionsAre DEF SettledShape, Fine, Whole, Rotated, Has
  <2>5. PreparedShape' /\ SwappedShape' /\ RollShape'
    BY <2>1 DEF PreparedShape, SwappedShape, Swapped, RollShape
  <2> QED  BY <2>4, <2>5 DEF ShapeInv
<1>30. CASE OpenFails
  <2>1. UNCHANGED <<parts, journal, rotated, superseded>>
    BY <1>30 DEF OpenFails, env, ghosts
  <2>2. \A pl \in Places \ {Staging} : file'[pl] = file[pl]
    BY <1>30 DEF OpenFails
  <2>3. /\ pc' \notin {"finish", "close", "rename", "moving", "writeverified", "writequarantine",
                       "beginrollback"}
        /\ pc' = "unjournal" => pc = "finish"
    BY <1>30 DEF OpenFails, Goto, GiveUp
  <2> QED  BY <2>1, <2>2, <2>3, ShapeStay DEF Settled
<1>31. CASE Quit
  <2>1. CASE session # "open"
    <3>1. UNCHANGED <<parts, journal, rotated, superseded, file>> /\ pc' = "down"
      BY <1>31, <2>1 DEF Quit, Goto
    <3> QED  BY <3>1, ShapeStay
  <2>2. CASE session = "open"
    <3>1. /\ parts' = [parts EXCEPT ![file[Live]["main"]] = {"main"}]
          /\ journal' = journal /\ journal.state \in {"none", "prepared"} /\ pc' = "down"
          /\ file' = CloseGroup /\ Has(Live, "main") /\ UNCHANGED <<rotated, superseded>>
      BY <1>31, <2>2 DEF Quit, Goto, SessionInv
    <3>2. /\ file'[Live]["main"] = file[Live]["main"] /\ \A s \in Sidecars : file'[Live][s] = None
          /\ \A pl \in Places \ {Live} : file'[pl] = file[pl]
      BY <3>1, CloseGroupIs
    <3>3. parts'[file[Live]["main"]] = {"main"}
      BY <3>1, MainVersion, PlacesDiffer DEF GhostTypeOK
    <3>4. CASE journal.state = "none"
      <4>1. Rotated(file[Live]["main"])
        BY <3>1, <3>4 DEF ShapeInv, SettledShape, Settled, Fine
      <4>2. SettledShape'
        BY <3>1, <3>2, <3>3, <4>1, PartsAre DEF SettledShape, Fine, Whole, Rotated, Has
      <4>3. PreparedShape' /\ SwappedShape' /\ RollShape'
        BY <3>1, <3>4 DEF PreparedShape, SwappedShape, Swapped, RollShape
      <4> QED  BY <4>2, <4>3 DEF ShapeInv
    <3>5. CASE journal.state = "prepared"
      <4>1. /\ MySafety' = MySafety /\ FirstRestore' = FirstRestore
            /\ file'[MySafety] = file[MySafety]
        BY <3>1, <3>2, <3>5, MyPlaces DEF MySafety, FirstRestore
      <4>2. ~FirstRestore
        BY <3>1, <3>5, PartsAre DEF LiveInv, GroupExists, Present
      <4>3. /\ Fine({Live, MySafety}, file[Live]["main"]) /\ ~Has(MySafety, "main")
            /\ Apart(Live, MySafety)
        BY <3>1, <3>5, <4>2 DEF ShapeInv, PreparedShape
      <4>4. PreparedShape'
        BY <3>1, <3>2, <3>3, <4>1, <4>2, <4>3, PartsAre
        DEF PreparedShape, Fine, Whole, Rotated, Apart, Has
      <4>5. SettledShape' /\ SwappedShape' /\ RollShape'
        BY <3>1, <3>5 DEF SettledShape, Settled, SwappedShape, Swapped, RollShape
      <4> QED  BY <4>4, <4>5 DEF ShapeInv
    <3> QED  BY <3>1, <3>4, <3>5
  <2> QED  BY <2>1, <2>2
<1>32. CASE Crash
  <2>1. UNCHANGED <<parts, journal, rotated, superseded>>
    BY <1>32 DEF Crash, env, ghosts
  <2>2. \A pl \in Places \ {Staging} : file'[pl] = file[pl]
    BY <1>32 DEF Crash
  <2>3. /\ pc' \notin {"finish", "close", "rename", "moving", "writeverified", "writequarantine",
                       "beginrollback"}
        /\ pc' = "unjournal" => pc = "finish"
    BY <1>32 DEF Crash, Goto, GiveUp
  <2> QED  BY <2>1, <2>2, <2>3, ShapeStay DEF Settled
<1>33. CASE Start
  <2>1. UNCHANGED <<parts, journal, rotated, superseded>>
    BY <1>33 DEF Start, env, ghosts
  <2>2. \A pl \in Places \ {Staging} : file'[pl] = file[pl]
    BY <1>33 DEF Start
  <2>3. /\ pc' \notin {"finish", "close", "rename", "moving", "writeverified", "writequarantine",
                       "beginrollback"}
        /\ pc' = "unjournal" => pc = "finish"
    BY <1>33 DEF Start, Goto, GiveUp
  <2> QED  BY <2>1, <2>2, <2>3, ShapeStay DEF Settled
<1>34. CASE MoveOne
  <2>1. /\ pc = "moving" /\ pc' = "moving" /\ ~mv.undo /\ SameMove
        /\ UNCHANGED <<parts, journal, rotated, superseded>>
    BY <1>34, MoveOneIs
  <2>2. CASE file' = file
    <3>1. /\ mv.src = Live => journal.state # "original-renamed"
          /\ mv.ok = "beginrollback" => journal.state # "none" /\ Has(MySafety, "main")
      BY <2>1, MovePlaces DEF ShapeInv, SwappedShape, Swapped, RollShape
    <3> QED  BY <2>1, <2>2, <3>1, ShapeStay DEF SameMove
  <2>3. CASE file' # file
    <3>1. PICK x \in mv.todo :
             /\ "main" \in mv.todo => x = "main"
             /\ file'[mv.dst][x] = file[mv.src][x] /\ file'[mv.src][x] = None
             /\ \A pl \in Places, y \in Parts :
                  (pl \notin {mv.src, mv.dst} \/ y # x) => file'[pl][y] = file[pl][y]
      BY <1>34, <2>3, MoveOneIs
    <3>2. x \in Parts /\ mv.src # mv.dst
      BY <2>1, <3>1, MovePlaces
    <3>3. /\ Has(mv.src, x) /\ ~Has(mv.dst, x) /\ (mv.strict => x # "main")
          /\ Has(mv.src, "main") => x = "main"
      BY <2>1, <3>1, PartsAre DEF MoveInv, MoveFiles
    <3>4. OwnMove
      BY <2>1 DEF MoveInv
    <3>5. journal.state = "rolling-back" /\ x # "main" => ~Has(MySafety, "main")
      BY <3>3, <3>4 DEF OwnMove, MoveIs
    <3>6. ASSUME journal.state = "original-renamed"
          PROVE  x = "main" \/ Has(Live, "main")
      <4>1. mv.src # Live
        BY <2>1, <3>6 DEF ShapeInv, SwappedShape, Swapped
      <4>2. mv.src = Staging /\ (Has(Live, "main") \/ mv.ok = "installed")
        BY <3>4, <3>6, <4>1 DEF OwnMove, MoveIs
      <4> QED  BY <2>1, <3>3, <4>2 DEF StagedInv
    <3> QED  BY <2>1, <3>1, <3>2, <3>3, <3>5, <3>6, RenameShape
  <2> QED  BY <2>2, <2>3
<1>35. CASE MoveDone
  <2>1. /\ UNCHANGED <<parts, journal, rotated, superseded, file>> /\ pc = "moving"
        /\ ~mv.undo /\ mv.todo = {} /\ pc' \in {mv.ok, mv.fail}
    BY <1>35 DEF MoveDone, env, ghosts
  <2>2. Vacant(mv.src)
    BY <2>1 DEF MoveInv, MoveFiles, Vacant
  <2>3. CASE pc' = "finish"
    <3>1. /\ mv.src = MySafety /\ Has(Live, "main")
          /\ journal.state \in {"prepared", "rolling-back"}
      BY <2>1, <2>2, <2>3, MoveEnds, PartsAre DEF Vacant
    <3>2. journal.state = "prepared" => ~FirstRestore
      BY <2>1 DEF LiveInv
    <3>3. Fine({Live, MySafety}, file[Live]["main"])
      BY <2>2, <3>1, <3>2, PartsAre DEF ShapeInv, PreparedShape, RollShape, Vacant
    <3>4. Fine({Live}, file[Live]["main"])
      BY <2>2, <3>1, <3>3, FineInLive, MainVersion, PlacesDiffer
    <3> QED  BY <2>1, <2>3, <3>1, <3>4, ShapeStay
  <2>4. CASE pc' = "beginrollback"
    <3>1. mv.ok = "beginrollback" /\ journal.state # "none"
      BY <2>1, <2>4, MoveEnds
    <3>2. mv.src = Live
      BY <2>1, <3>1 DEF MoveInv, OwnMove, MoveIs
    <3>3. Has(MySafety, "main")
      BY <2>1, <3>1 DEF ShapeInv, RollShape
    <3> QED  BY <2>1, <2>2, <2>4, <3>1, <3>2, <3>3, ShapeStay
  <2>5. CASE pc' \notin {"finish", "beginrollback"}
    <3>1. pc' \in {"renamed", "installed", "verify", "renamefailed", "installfailed", "blocked", "quit"}
      BY <2>1, <2>5, MoveEnds
    <3> QED  BY <2>1, <3>1, ShapeStay
  <2> QED  BY <2>3, <2>4, <2>5
<1>36. CASE MoveUndo
  <2>1. /\ pc = "moving" /\ mv.undo /\ UNCHANGED <<parts, journal, rotated, superseded>>
    BY <1>36, MoveUndoIs
  <2>2. CASE file' = file /\ pc' = mv.fail
    <3>2. pc' \in {"renamefailed", "installfailed", "blocked", "quit"}
      BY <2>1, <2>2 DEF MoveInv, OwnMove, MoveIs, GiveUp
    <3> QED  BY <2>1, <2>2, <3>2, ShapeStay
  <2>3. CASE ~(file' = file /\ pc' = mv.fail)
    <3>1. PICK x \in mv.done :
             /\ x = "main" => mv.done = {"main"}
             /\ file'[mv.src][x] = file[mv.dst][x] /\ file'[mv.dst][x] = None
             /\ \A pl \in Places, y \in Parts :
                  (pl \notin {mv.src, mv.dst} \/ y # x) => file'[pl][y] = file[pl][y]
      BY <1>36, <2>3, MoveUndoIs
    <3>2. /\ x \in Parts /\ mv.src # mv.dst /\ pc' = "moving" /\ SameMove
      BY <1>36, <2>1, <2>3, <3>1, MovePlaces, MoveUndoIs
    <3>3. /\ Has(mv.dst, x) /\ ~Has(mv.src, x) /\ (mv.strict => x # "main")
          /\ x = "main" => \A y \in Parts \ {x} : ~Has(mv.dst, y)
          /\ mv.strict => ~Has(mv.src, "main")
          /\ ~mv.strict /\ Has(mv.dst, "main") => ~Has(mv.src, "main")
      BY <2>1, <3>1, PartsAre DEF MoveInv, MoveFiles
    <3>4. OwnMove
      BY <2>1 DEF MoveInv
    <3>5. ASSUME journal.state = "rolling-back", x # "main"
          PROVE  ~Has(MySafety, "main")
      <4>1. mv.src = MySafety /\ mv.dst = Live
        BY <3>4, <3>5 DEF OwnMove, MoveIs
      <4>2. Has(MySafety, "main") => Has(Live, "main")
        BY <3>2, <3>3, <3>5, <4>1 DEF ShapeInv, RollShape, Vacant
      <4> QED  BY <3>3, <4>1, <4>2
    <3>6. ASSUME journal.state = "original-renamed"
          PROVE  x = "main" \/ Has(Live, "main")
      <4>1. mv.src # Live
        BY <2>1, <3>6 DEF ShapeInv, SwappedShape, Swapped
      <4>2. mv.dst = Live
        BY <3>4, <3>6, <4>1 DEF OwnMove, MoveIs
      <4> QED  BY <3>2, <3>3, <3>6, <4>2 DEF ShapeInv, SwappedShape, Swapped, Vacant
    <3> QED  BY <2>1, <3>1, <3>2, <3>3, <3>5, <3>6, RenameShape
  <2> QED  BY <2>2, <2>3
<1>37. CASE UNCHANGED vars
  BY <1>37 DEF vars, ShapeInv, SettledShape, Settled, PreparedShape, SwappedShape, RollShape, MySafety, FirstRestore, Fine, Whole, Rotated, Vacant, Apart, Has
<1> QED  BY <1>1, <1>2, <1>3, <1>4, <1>5, <1>6, <1>7, <1>8, <1>9, <1>10, <1>11, <1>12,
  <1>13, <1>14, <1>15, <1>16, <1>17, <1>18, <1>19, <1>20, <1>21, <1>22, <1>23, <1>24,
  <1>25, <1>26, <1>27, <1>28, <1>29, <1>30, <1>31, <1>32, <1>33, <1>34, <1>35, <1>36,
  <1>37 DEF Next, Install, Reconcile, Move


-----------------------------------------------------------------------------
(* As long as no call fails *)

(* A step that leaves the files and the journal alone. *)
LEMMA CalmStay ==
    ASSUME CalmInv, file' = file, journal' = journal, ~mv'.undo,
           starting' = starting \/ starting' = TRUE,
           pc' \notin {"prepare", "blocked", "renamefailed", "installfailed", "writequarantine"},
           pc' = "quit" => journal.state = "replacement-installed",
           pc' = "verify" => Has(Live, "main"),
           pc' \in {"beginrollback", "rollback", "finish", "unjournal"} => starting',
           pc' = "moving" /\ journal.state = "rolling-back" => starting',
           pc' = "beginrollback" => Vacant(Live),
           journal.state = "original-renamed"
              /\ pc' \in {"verify", "reset", "resetclose", "writeverified"} => Vacant(Staging)
    PROVE  CalmInv'
<1>1. MySafety' = MySafety /\ FirstRestore' = FirstRestore
  BY DEF MySafety, FirstRestore
<1> QED  BY <1>1 DEF CalmInv, Vacant, Apart, Has

(* A connection to the replacement, which has the live group's main file. *)
LEMMA CalmReplacement ==
    ASSUME JInv, CalmInv, Has(Live, "main"), journal.state \in Swapped, journal' = journal,
           starting, starting' = starting, mv' = mv, file'[Live]["main"] = file[Live]["main"],
           \A pl \in Places \ {Live} : file'[pl] = file[pl],
           pc \in {"verify", "reset", "resetclose", "finalize"},
           pc' \in {"reset", "resetclose", "writeverified", "finalize", "finish"}
    PROVE  CalmInv'
<1>1. MySafety' = MySafety /\ FirstRestore' = FirstRestore
  BY DEF MySafety, FirstRestore
<1>2. file'[Staging] = file[Staging] /\ (Has(Live, "main"))'
  BY PlacesDiffer DEF Has
<1>3. journal.state = "original-renamed" => Vacant(Staging)
  BY DEF JInv, JournalInv, CalmInv
<1>4. journal.state = "original-renamed" => (Vacant(Staging) /\ Apart(Live, Staging))'
  BY <1>2, <1>3 DEF Vacant, Apart, Has
<1>5. journal.state \notin {"none", "prepared", "rolling-back", "quarantining"}
  BY DEF Swapped, CalmInv
<1> QED  BY <1>1, <1>2, <1>4, <1>5 DEF CalmInv

(* Without a failing call, every step goes on: no branch of the reconciliation blocks. *)
LEMMA CalmKept ==
    ASSUME JInv, ShapeInv, CalmInv, faults = 0, faults' = 0, [Next]_vars
    PROVE  CalmInv'
<1> USE DEF JInv, Typed, MoveTypeOK, MoveRecords
<1>1. CASE InstallRestore
  <2>1. /\ pc' = "prepare" /\ journal' = journal /\ starting' = FALSE /\ mv' = mv
        /\ pc \in {"running", "blocked", "quit"}
    BY <1>1 DEF InstallRestore, MayRestore, Goto
  <2>2. file'[Live] = file[Live]
    BY <1>1, InstallRestoreIs, PlacesDiffer
  <2>3. journal.state \in {"none", "replacement-installed"}
    BY <2>1 DEF CalmInv, JournalInv
  <2> QED  BY <2>1, <2>2, <2>3 DEF CalmInv, Has
<1>2. CASE StagingFails
  BY <1>2 DEF StagingFails, Fault
<1>3. CASE Prepare
  <2>0. ~Fault
    BY DEF Fault
  <2>1. /\ journal' = [state |-> "prepared", n |-> restores, originalPresent |-> GroupExists(Live)]
        /\ file' = file /\ pc' \in {"close", "rename"} /\ starting' = starting /\ mv' = mv
    BY <1>3, <2>0 DEF Prepare, Goto
  <2>2. Has(Staging, "main")
    BY <1>3, RestoreStarted DEF Prepare, StagingInv, Has, None
  <2>3. journal'.state = "prepared"
    BY <2>1
  <2> QED  BY <2>1, <2>2, <2>3 DEF CalmInv, Has
<1>4. CASE CloseSession
  <2>0. ~Fault
    BY DEF Fault
  <2>1. /\ file' = CloseGroup /\ journal' = journal /\ pc' = "rename" /\ starting' = starting
        /\ mv' = mv /\ journal.state = "prepared"
    BY <1>4, <2>0 DEF CloseSession, Goto, JournalInv
  <2>2. file'[Live]["main"] = file[Live]["main"] /\ file'[Staging] = file[Staging]
    BY <2>1, CloseGroupIs, PlacesDiffer
  <2> QED  BY <2>1, <2>2 DEF CalmInv, FirstRestore, Has
<1>5. CASE RenameOriginal
  <2>1. /\ pc = "rename" /\ journal.state = "prepared"
        /\ UNCHANGED <<file, journal, starting>>
    BY <1>5 DEF RenameOriginal, JournalInv
  <2>2. ~GroupExists(MySafety)
    BY <2>1, VacantIs DEF ShapeInv, PreparedShape
  <2>3. pc' \in {"renamed", "moving"} /\ ~mv'.undo
    BY <1>5, <2>2, RenameOriginalIs DEF Goes, MovesGroup, StartMove, CalmInv
  <2> QED  BY <2>1, <2>3, CalmStay
<1>6. CASE RenameFailed
  BY <1>6 DEF RenameFailed, CalmInv
<1>7. CASE WriteRenamed
  <2>0. ~Fault
    BY DEF Fault
  <2>1. /\ UNCHANGED <<file, starting, mv>> /\ journal' = [journal EXCEPT !.state = "original-renamed"]
        /\ pc' = "install"
    BY <1>7, <2>0 DEF WriteRenamed, WriteJournal, Goto
  <2>2. Vacant(Live) /\ Has(Staging, "main") /\ journal.state # "none"
    BY <1>7, VacantIs DEF WriteRenamed, JournalInv, LiveInv, StagedInv
  <2>3. journal'.state = "original-renamed" /\ (FirstRestore' <=> FirstRestore)
    <3>1. journal \in JournalRecords
      BY <2>2 DEF JournalTypeOK, NoJournal
    <3> QED  BY <2>1, <3>1 DEF JournalRecords, FirstRestore
  <2> QED  BY <2>1, <2>2, <2>3 DEF CalmInv, Has, Vacant, Apart
<1>8. CASE InstallStaging
  <2>1. /\ UNCHANGED <<file, journal, starting>> /\ journal.state = "original-renamed"
        /\ ~GroupExists(Live) /\ Has(Staging, "main")
    BY <1>8 DEF InstallStaging, JournalInv, LiveInv, StagedInv
  <2>2. GroupExists(Staging)
    BY <2>1, PartsAre DEF GroupExists, Present
  <2>3. pc' = "moving" /\ ~mv'.undo
    BY <1>8, <2>1, <2>2, InstallStagingIs DEF Goes, MovesGroup, StartMove
  <2> QED  BY <2>1, <2>3, CalmStay
<1>9. CASE InstallFailed
  BY <1>9 DEF InstallFailed, CalmInv
<1>10. CASE WriteInstalled
  <2>0. ~Fault
    BY DEF Fault
  <2>1. /\ UNCHANGED <<file, starting, mv>> /\ journal' = [journal EXCEPT !.state = "replacement-installed"]
        /\ pc' \in {"verify", "quit"}
    BY <1>10, <2>0 DEF WriteInstalled, WriteJournal, Goto
  <2>2. Has(Live, "main") /\ journal.state # "none"
    BY <1>10 DEF WriteInstalled, JournalInv, StagedInv
  <2>3. journal'.state = "replacement-installed" /\ (FirstRestore' <=> FirstRestore)
    <3>1. journal \in JournalRecords
      BY <2>2 DEF JournalTypeOK, NoJournal
    <3> QED  BY <2>1, <3>1 DEF JournalRecords, FirstRestore
  <2> QED  BY <2>1, <2>2, <2>3 DEF CalmInv, Has
<1>11. CASE ReconcileNothing
  <2>1. UNCHANGED <<file, journal, starting, mv>> /\ pc' = "open"
    BY <1>11 DEF ReconcileNothing, Goto
  <2> QED  BY <2>1, CalmStay DEF CalmInv
<1>12. CASE ReconcilePrepared
  <2>1. /\ UNCHANGED <<file, journal, starting>> /\ journal.state = "prepared" /\ starting
    BY <1>12 DEF ReconcilePrepared, JournalInv
  <2>2. /\ FirstRestore => ~GroupExists(Live) /\ ~GroupExists(MySafety)
        /\ FirstRestore => ~Has(Live, "main") /\ ~Has(MySafety, "main")
        /\ ~FirstRestore => /\ Has(Live, "main") <=> ~Has(MySafety, "main")
                            /\ \A s \in Sidecars : ~(Has(Live, s) /\ Has(MySafety, s))
    BY <2>1, VacantIs, PartsAre DEF LiveInv, ShapeInv, PreparedShape, Vacant, Apart
  <2>3. \/ pc' \in {"installstaged", "finish"} /\ ~mv'.undo
        \/ pc' = "beginrollback" /\ ~GroupExists(Live) /\ ~mv'.undo
        \/ pc' = "moving" /\ ~mv'.undo
    BY <1>12, <2>2, ReconcilePreparedIs DEF Goes, MovesSidecars, StartMove, Collide, CalmInv
  <2> QED  BY <2>1, <2>3, CalmStay, VacantIs
<1>13. CASE ReconcileRenamed
  <2>1. /\ UNCHANGED <<file, journal, starting>> /\ journal.state = "original-renamed" /\ starting
    BY <1>13 DEF ReconcileRenamed, JournalInv
  <2>2. /\ ~Has(Live, "main") => ~GroupExists(Live) /\ \A s \in Sidecars : ~Has(Live, s)
        /\ FirstRestore => ~GroupExists(MySafety)
        /\ ~FirstRestore => Has(MySafety, "main")
        /\ \A x \in Parts : ~(Has(Live, x) /\ Has(Staging, x))
    BY <2>1, VacantIs, PartsAre DEF ShapeInv, SwappedShape, Swapped, Vacant, Apart, CalmInv
  <2>3. \/ pc' = "installstaged" /\ ~mv'.undo
        \/ pc' = "verify" /\ Has(Live, "main") /\ ~GroupExists(Staging) /\ ~mv'.undo
        \/ pc' = "beginrollback" /\ ~GroupExists(Live) /\ ~mv'.undo
        \/ pc' = "moving" /\ ~mv'.undo
    BY <1>13, <2>2, PartsAre, ReconcileRenamedIs DEF Goes, MovesSidecars, StartMove, Collide, CalmInv
  <2> QED  BY <2>1, <2>3, CalmStay, VacantIs
<1>14. CASE ReconcileLater
  <2>1. /\ UNCHANGED <<file, journal, starting, mv>> /\ starting
        /\ journal.state \in {"replacement-installed", "verified", "rolling-back"}
        /\ pc' = IF journal.state = "rolling-back" THEN "rollback" ELSE "verify"
    BY <1>14 DEF ReconcileLater, JournalInv, CalmInv, Goto
  <2>2. pc' = "verify" => Has(Live, "main")
    BY <2>1 DEF CalmInv
  <2>3. ~mv'.undo
    BY <2>1 DEF CalmInv
  <2> QED  BY <2>1, <2>2, <2>3, CalmStay
<1>15. CASE InstallStagedOnStartup
  <2>0. ~Fault
    BY DEF Fault
  <2>1. Vacant(Live) /\ Has(Staging, "main") /\ journal.state # "none"
    BY <1>15, VacantIs, PartsAre DEF InstallStagedOnStartup, JournalInv, LiveInv, CalmInv, Vacant
  <2>2. /\ UNCHANGED <<file, starting, mv>> /\ journal' = [journal EXCEPT !.state = "original-renamed"]
        /\ pc' = "installnow"
    BY <1>15, <2>0, <2>1 DEF InstallStagedOnStartup, WriteJournal, Goto
  <2>3. journal'.state = "original-renamed" /\ (FirstRestore' <=> FirstRestore)
    <3>1. journal \in JournalRecords
      BY <2>1 DEF JournalTypeOK, NoJournal
    <3> QED  BY <2>2, <3>1 DEF JournalRecords, FirstRestore
  <2> QED  BY <2>2, <2>1, <2>3 DEF CalmInv, Has, Vacant, Apart
<1>16. CASE InstallNow
  <2>1. /\ UNCHANGED <<file, journal, starting>> /\ journal.state = "original-renamed"
        /\ ~GroupExists(Live) /\ Has(Staging, "main")
    BY <1>16 DEF InstallNow, JournalInv, LiveInv, StagedInv
  <2>2. GroupExists(Staging)
    BY <2>1, PartsAre DEF GroupExists, Present
  <2>3. pc' = "moving" /\ ~mv'.undo
    BY <1>16, <2>1, <2>2, InstallNowIs DEF Goes, MovesGroup, StartMove
  <2> QED  BY <2>1, <2>3, CalmStay
<1>17. CASE VerifySucceeds
  <2>1. /\ UNCHANGED <<journal, starting, mv>> /\ Has(Live, "main") /\ starting
        /\ pc = "verify" /\ journal.state \in Swapped /\ pc' \in {"finalize", "reset"}
    BY <1>17 DEF VerifySucceeds, Goto, JournalInv, Swapped
  <2>2. /\ file'[Live]["main"] = file[Live]["main"]
        /\ \A pl \in Places \ {Live} : file'[pl] = file[pl]
    BY <1>17, VerifySucceedsIs
  <2> QED  BY <2>1, <2>2, CalmReplacement
<1>18. CASE VerifyFails
  BY <1>18 DEF VerifyFails, CalmInv, Fault
<1>19. CASE Reset
  <2>0. ~Fault
    BY DEF Fault
  <2>1. /\ UNCHANGED <<journal, starting, mv>> /\ Has(Live, "main") /\ starting
        /\ pc = "reset" /\ journal.state \in Swapped /\ pc' = "resetclose" /\ file' = OpenGroup
    BY <1>19, <2>0 DEF Reset, Goto, JournalInv, LiveInv, Swapped
  <2>2. /\ file'[Live]["main"] = file[Live]["main"]
        /\ \A pl \in Places \ {Live} : file'[pl] = file[pl]
    BY <2>1, OpenGroupIs, PartsAre
  <2> QED  BY <2>1, <2>2, CalmReplacement
<1>20. CASE ResetClose
  <2>0. ~Fault
    BY DEF Fault
  <2>1. /\ UNCHANGED <<journal, starting, mv>> /\ Has(Live, "main") /\ starting
        /\ pc = "resetclose" /\ journal.state \in Swapped /\ pc' = "writeverified" /\ file' = CloseGroup
    BY <1>20, <2>0 DEF ResetClose, Goto, JournalInv, LiveInv, Swapped
  <2>2. /\ file'[Live]["main"] = file[Live]["main"]
        /\ \A pl \in Places \ {Live} : file'[pl] = file[pl]
    BY <2>1, CloseGroupIs, PartsAre
  <2> QED  BY <2>1, <2>2, CalmReplacement
<1>21. CASE WriteVerified
  <2>0. ~Fault
    BY DEF Fault
  <2>1. /\ UNCHANGED <<file, starting, mv>> /\ journal' = [journal EXCEPT !.state = "verified"]
        /\ pc' = "finalize"
    BY <1>21, <2>0 DEF WriteVerified, WriteJournal, Goto
  <2>2. Has(Live, "main") /\ journal.state # "none"
    BY <1>21 DEF WriteVerified, JournalInv, LiveInv
  <2>3. journal'.state = "verified" /\ (FirstRestore' <=> FirstRestore)
    <3>1. journal \in JournalRecords
      BY <2>2 DEF JournalTypeOK, NoJournal
    <3> QED  BY <2>1, <3>1 DEF JournalRecords, FirstRestore
  <2> QED  BY <2>1, <2>2, <2>3 DEF CalmInv, Has
<1>22. CASE Finalize
  <2>0. ~Fault
    BY DEF Fault
  <2>1. /\ UNCHANGED <<journal, starting, mv>> /\ Has(Live, "main") /\ starting
        /\ pc = "finalize" /\ journal.state \in Swapped /\ pc' = "finish" /\ file' = OpenGroup
    BY <1>22, <2>0 DEF Finalize, Goto, JournalInv, LiveInv, Swapped
  <2>2. /\ file'[Live]["main"] = file[Live]["main"]
        /\ \A pl \in Places \ {Live} : file'[pl] = file[pl]
    BY <2>1, OpenGroupIs, PartsAre
  <2> QED  BY <2>1, <2>2, CalmReplacement
<1>23. CASE WriteQuarantine
  BY <1>23 DEF WriteQuarantine, CalmInv
<1>24. CASE Quarantine
  BY <1>24 DEF Quarantine, CalmInv, JournalInv
<1>25. CASE BeginRollback
  <2>0. ~Fault
    BY DEF Fault
  <2>1. /\ UNCHANGED <<file, starting, mv>> /\ journal' = [journal EXCEPT !.state = "rolling-back"]
        /\ pc' = "rollback"
    BY <1>25, <2>0 DEF BeginRollback, WriteJournal, Goto
  <2>2. Vacant(Live) /\ starting /\ journal.state # "none"
    BY <1>25 DEF BeginRollback, JournalInv, CalmInv
  <2>3. journal'.state = "rolling-back" /\ (FirstRestore' <=> FirstRestore)
    <3>1. journal \in JournalRecords
      BY <2>2 DEF JournalTypeOK, NoJournal
    <3> QED  BY <2>1, <3>1 DEF JournalRecords, FirstRestore
  <2> QED  BY <2>1, <2>2, <2>3 DEF CalmInv, Has, Vacant
<1>26. CASE ResumeRollback
  <2>1. /\ UNCHANGED <<file, journal, starting>> /\ journal.state = "rolling-back" /\ starting
    BY <1>26 DEF ResumeRollback, JournalInv, CalmInv
  <2>2. /\ Has(MySafety, "main") => ~GroupExists(Live) /\ GroupExists(MySafety)
        /\ ~Has(MySafety, "main") => /\ Has(Live, "main") /\ GroupExists(Live)
                                     /\ \A s \in Sidecars : ~(Has(Live, s) /\ Has(MySafety, s))
    BY <2>1, VacantIs, PartsAre DEF ShapeInv, RollShape, CalmInv, Vacant, Apart
  <2>3. pc' \in {"finish", "moving"} /\ ~mv'.undo
    BY <1>26, <2>2, ResumeRollbackIs DEF Goes, MovesSidecars, MovesGroup, StartMove, Collide, CalmInv
  <2> QED  BY <2>1, <2>3, CalmStay
<1>27. CASE FinishRecovery
  <2>0. ~Fault
    BY DEF Fault
  <2>1. /\ file' = [file EXCEPT ![Staging] = NoFiles] /\ pc' = "unjournal" /\ starting
        /\ UNCHANGED <<journal, starting, mv>> /\ Has(Live, "main")
        /\ journal.state \in {"prepared", "verified", "rolling-back"}
    BY <1>27, <2>0 DEF FinishRecovery, Goto, JournalInv, LiveInv, CalmInv
  <2>2. file'[Live] = file[Live]
    BY <2>1, PlacesDiffer DEF FileTypeOK
  <2>3. MySafety' = MySafety /\ file'[MySafety] = file[MySafety]
    BY <2>1, MyPlaces DEF MySafety, FileTypeOK
  <2> QED  BY <2>1, <2>2, <2>3 DEF CalmInv, Vacant, Has
<1>28. CASE RemoveJournal
  <2>0. ~Fault
    BY DEF Fault
  <2>1. UNCHANGED <<file, starting, mv>> /\ journal' = NoJournal /\ starting /\ pc' = "open"
    BY <1>28, <2>0 DEF RemoveJournal, WriteJournal, Goto, CalmInv
  <2> QED  BY <2>1 DEF CalmInv, NoJournal
<1>29. CASE OpenLive
  <2>1. /\ UNCHANGED <<journal, starting, mv>> /\ pc' = "running" /\ journal.state = "none"
    BY <1>29 DEF OpenLive, Goto, JournalInv
  <2> QED  BY <2>1 DEF CalmInv
<1>30. CASE OpenFails
  BY <1>30 DEF OpenFails, Fault
<1>31. CASE Quit
  <2>1. /\ UNCHANGED <<journal, starting, mv>> /\ pc' = "down"
    BY <1>31 DEF Quit, Goto
  <2>2. CASE session # "open"
    <3>1. file' = file
      BY <1>31, <2>2 DEF Quit
    <3> QED  BY <2>1, <3>1, CalmStay DEF CalmInv
  <2>3. CASE session = "open"
    <3>1. journal.state = "none"
      BY <1>31, <2>3 DEF Quit, SessionInv, JournalInv, CalmInv
    <3> QED  BY <2>1, <3>1 DEF CalmInv
  <2> QED  BY <2>2, <2>3
<1>32. CASE Crash
  <2>1. /\ UNCHANGED <<file, journal, starting>> /\ pc' = "down" /\ ~mv'.undo
    BY <1>32 DEF Crash, NoMove
  <2> QED  BY <2>1, CalmStay
<1>33. CASE Start
  <2>1. /\ UNCHANGED <<file, journal, mv>> /\ starting' = TRUE /\ pc' = "reconcile"
    BY <1>33 DEF Start, Goto
  <2> QED  BY <2>1, CalmStay DEF CalmInv
<1>34. CASE MoveOne
  <2>0. ~Fault
    BY DEF Fault
  <2>1. /\ pc = "moving" /\ pc' = "moving" /\ ~mv.undo /\ SameMove
        /\ UNCHANGED <<journal, starting>> /\ MySafety' = MySafety /\ FirstRestore' = FirstRestore
    BY <1>34, MoveOneIs DEF MySafety, FirstRestore
  <2>2. PICK x \in mv.todo :
           /\ "main" \in mv.todo => x = "main"
           /\ file'[mv.dst][x] = file[mv.src][x] /\ file'[mv.src][x] = None /\ mv'.undo = FALSE
           /\ \A pl \in Places, y \in Parts :
                (pl \notin {mv.src, mv.dst} \/ y # x) => file'[pl][y] = file[pl][y]
    BY <1>34, <2>0, MoveOneIs
  <2>3. /\ x \in Parts /\ mv.src # mv.dst /\ mv.src \in Places /\ mv.dst \in Places
        /\ "main" \in Parts /\ Live \in Places /\ Staging \in Places /\ Live # Staging
    BY <2>1, <2>2, MovePlaces, PartsAre, PlacesDiffer
  <2>4. Has(mv.src, x) /\ (Has(mv.src, "main") => x = "main")
    BY <2>1, <2>2, PartsAre DEF MoveInv, MoveFiles
  <2>5. OwnMove
    BY <2>1 DEF MoveInv
  <2>6. journal.state \notin {"replacement-installed", "verified", "none", "quarantining"}
        /\ (journal.state = "prepared" => ~FirstRestore)
    BY <2>1, <2>5 DEF OwnMove, MoveIs, CalmInv, LiveInv
  <2>7. journal.state = "rolling-back" => starting /\ ~(Has(MySafety, "main"))'
    <3>1. SUFFICES ASSUME journal.state = "rolling-back"
                   PROVE  starting /\ ~(Has(MySafety, "main"))'
      OBVIOUS
    <3>2. mv.src = MySafety /\ starting
      BY <2>1, <2>5, <3>1 DEF OwnMove, MoveIs, CalmInv
    <3> QED  BY <2>1, <2>2, <2>3, <2>4, <3>2 DEF Has
  <2>8. ASSUME journal.state = "original-renamed"
        PROVE  (Has(Live, "main") /\ Apart(Live, Staging))'
    <3>1. mv.src # Live
      BY <2>1, <2>8 DEF ShapeInv, SwappedShape, Swapped
    <3>2. mv.src = Staging /\ mv.dst = Live /\ (Has(Live, "main") \/ mv.ok = "installed")
      BY <2>5, <2>8, <3>1 DEF OwnMove, MoveIs
    <3>3. x = "main" \/ Has(Live, "main")
      BY <2>1, <2>4, <3>2 DEF StagedInv
    <3>4. (Has(Live, "main"))'
      BY <2>2, <2>3, <2>4, <3>2, <3>3 DEF Has
    <3>5. Apart(Live, Staging)
      BY <2>8 DEF CalmInv
    <3>6. (Apart(Live, Staging))'
      BY <2>2, <2>3, <3>2, <3>5 DEF Apart, Has
    <3> QED  BY <3>4, <3>6
  <2> QED  BY <2>1, <2>2, <2>6, <2>7, <2>8 DEF CalmInv
<1>35. CASE MoveDone
  <2>0. ~Fault
    BY DEF Fault
  <2>1. /\ UNCHANGED <<file, journal, starting>> /\ pc = "moving" /\ pc' = mv.ok
        /\ mv' = NoMove /\ ~mv'.undo /\ ~mv.undo /\ mv.todo = {}
    BY <1>35, <2>0 DEF MoveDone, NoMove
  <2>2. Vacant(mv.src)
    BY <2>1 DEF MoveInv, MoveFiles, Vacant
  <2>3. OwnMove
    BY <2>1 DEF MoveInv
  <2>4. \/ pc' \in {"renamed", "installed"}
        \/ pc' = "beginrollback" /\ Vacant(Live) /\ starting
        \/ pc' = "verify" /\ Vacant(Staging) /\ Has(Live, "main")
        \/ pc' = "finish" /\ starting
    BY <2>1, <2>2, <2>3 DEF OwnMove, MoveIs, CalmInv
  <2> QED  BY <2>1, <2>4, CalmStay
<1>36. CASE MoveUndo
  BY <1>36 DEF MoveUndo, CalmInv
<1>37. CASE UNCHANGED vars
  BY <1>37 DEF vars, CalmInv, MySafety, FirstRestore, Vacant, Apart, Has
<1> QED  BY <1>1, <1>2, <1>3, <1>4, <1>5, <1>6, <1>7, <1>8, <1>9, <1>10, <1>11, <1>12,
  <1>13, <1>14, <1>15, <1>16, <1>17, <1>18, <1>19, <1>20, <1>21, <1>22, <1>23, <1>24,
  <1>25, <1>26, <1>27, <1>28, <1>29, <1>30, <1>31, <1>32, <1>33, <1>34, <1>35, <1>36,
  <1>37 DEF Next, Install, Reconcile, Move

(* A failed call is counted for good. *)
LEMMA FaultsStay ==
    ASSUME JInv, [Next]_vars
    PROVE  faults' = 0 => faults = 0
<1> USE DEF JInv, Typed, CountTypeOK
<1>1. CASE UNCHANGED <<faults>>
  BY <1>1 DEF JInv
<1>2. ASSUME (UNCHANGED vars \/ InstallRestore \/ RenameOriginal \/ RenameFailed \/
             InstallStaging \/ InstallFailed \/ ReconcileNothing \/ ReconcilePrepared \/
             ReconcileRenamed \/ ReconcileLater \/ InstallNow \/ VerifySucceeds \/
             Quarantine \/ ResumeRollback \/ OpenLive \/ Quit \/ Crash \/ Start)
      PROVE  UNCHANGED <<faults>>
  BY <1>2 DEF vars, env, ghosts, InstallRestore, RenameOriginal, RenameFailed,
    InstallStaging, InstallFailed, ReconcileNothing, ReconcilePrepared,
    ReconcileRenamed, ReconcileLater, InstallNow, VerifySucceeds, Quarantine,
    ResumeRollback, OpenLive, Quit, Crash, Start, NoFault
<1>3. CASE StagingFails
  BY <1>3 DEF StagingFails, env, ghosts, Goto, Fault, NoFault, MayRestore,
    RemoveStagingMain
<1>4. CASE Prepare
  BY <1>4 DEF Prepare, env, ghosts, Goto, Fault, NoFault, RemoveStagingMain
<1>5. CASE CloseSession
  BY <1>5 DEF CloseSession, env, ghosts, Goto, Fault, NoFault, RemoveStagingMain,
    CloseGroup
<1>6. CASE WriteRenamed
  BY <1>6 DEF WriteRenamed, env, ghosts, Goto, Fault, NoFault, WriteJournal
<1>7. CASE WriteInstalled
  BY <1>7 DEF WriteInstalled, env, ghosts, Goto, Fault, NoFault, WriteJournal, GiveUp
<1>8. CASE InstallStagedOnStartup
  BY <1>8 DEF InstallStagedOnStartup, env, ghosts, Goto, Fault, NoFault, WriteJournal
<1>9. CASE VerifyFails
  BY <1>9 DEF VerifyFails, env, ghosts, Goto, Fault, NoFault
<1>10. CASE Reset
  BY <1>10 DEF Reset, env, ghosts, Goto, Fault, NoFault, OpenGroup
<1>11. CASE ResetClose
  BY <1>11 DEF ResetClose, env, ghosts, Goto, Fault, NoFault, CloseGroup
<1>12. CASE WriteVerified
  BY <1>12 DEF WriteVerified, env, ghosts, Goto, Fault, NoFault, WriteJournal
<1>13. CASE Finalize
  BY <1>13 DEF Finalize, env, ghosts, Goto, Fault, NoFault, OpenGroup
<1>14. CASE WriteQuarantine
  BY <1>14 DEF WriteQuarantine, env, ghosts, Goto, Fault, NoFault, WriteJournal
<1>15. CASE BeginRollback
  BY <1>15 DEF BeginRollback, env, ghosts, Goto, Fault, NoFault, WriteJournal, GiveUp
<1>16. CASE FinishRecovery
  BY <1>16 DEF FinishRecovery, env, ghosts, Goto, Fault, NoFault, GiveUp
<1>17. CASE RemoveJournal
  BY <1>17 DEF RemoveJournal, env, ghosts, Goto, Fault, NoFault, WriteJournal, GiveUp
<1>18. CASE OpenFails
  BY <1>18 DEF OpenFails, env, ghosts, Goto, Fault, NoFault
<1>19. CASE MoveOne
  BY <1>19 DEF MoveOne, env, ghosts, Goto, Fault, NoFault, Rename
<1>20. CASE MoveDone
  BY <1>20 DEF MoveDone, env, ghosts, Goto, Fault, NoFault
<1>21. CASE MoveUndo
  BY <1>21 DEF MoveUndo, env, ghosts, Goto, Fault, NoFault, Rename
<1> QED  BY <1>1, <1>2, <1>3, <1>4, <1>5, <1>6, <1>7, <1>8, <1>9, <1>10, <1>11, <1>12,
  <1>13, <1>14, <1>15, <1>16, <1>17, <1>18, <1>19, <1>20, <1>21 DEF Next, Install,
  Reconcile, Move

-----------------------------------------------------------------------------
(* The invariant, and what follows *)

(* The invariant holds at first. *)
LEMMA InitHolds ==
    ASSUME Init
    PROVE  JInv
<1>1. restores = 0 /\ crashes = 0 /\ faults = 0 /\ journal = NoJournal /\ mv = NoMove
      /\ starting = FALSE /\ rotated = {} /\ superseded = FALSE
  BY DEF Init
<1>2. PICK found \in SUBSET Parts :
         /\ parts = [v \in Versions |-> IF v = 0 THEN found ELSE {}]
         /\ \/ session = "open" /\ pc = "running" /\ found = Parts
            \/ session = "none" /\ pc = "blocked"
  BY DEF Init
<1>3. file = [pl \in Places |->
                IF pl = Live THEN [x \in Parts |-> IF x \in parts[0] THEN 0 ELSE None]
                             ELSE NoFiles]
  BY DEF Init
<1>4. /\ parts[0] = found /\ \A v \in Versions \ {0} : parts[v] = {}
      /\ parts \in [Versions -> SUBSET Parts]
  BY <1>2, VersionsAre
<1>5. /\ \A x \in Parts : file[Live][x] = IF x \in found THEN 0 ELSE None
      /\ \A pl \in Places \ {Live}, x \in Parts : file[pl][x] = None
      /\ file \in [Places -> [Parts -> Versions \union {None, Blank}]]
  BY <1>3, <1>4, PlacesDiffer, VersionsAre DEF NoFiles
<1>6. Typed
  <2>1. FileTypeOK /\ JournalTypeOK /\ GhostTypeOK
    BY <1>1, <1>4, <1>5 DEF FileTypeOK, JournalTypeOK, GhostTypeOK
  <2>2. MoveTypeOK
    BY <1>1, <1>2, PlacesDiffer DEF MoveTypeOK, MoveRecords, NoMove, Labels
  <2>3. CountTypeOK
    <3>1. 0 \in 0 .. MaxRestores /\ 0 \in 0 .. MaxCrashes /\ 0 \in 0 .. MaxFaults
      BY RestoreBounds
    <3> QED  BY <1>1, <1>2, <3>1 DEF CountTypeOK
  <2> QED  BY <2>1, <2>2, <2>3 DEF Typed
<1>7. MainsInv /\ StagingInv /\ UnusedInv /\ FreshInv
  <2>1. None \notin Versions /\ 0 # None /\ 0 # Empty /\ None # Empty /\ 0 \in 0 .. restores
        /\ "main" \in Parts /\ Staging \in Places \ {Live} /\ Live \in Places
    BY <1>1, VersionsAre, PartsAre, PlacesDiffer, RestoreBounds DEF None, Empty
  <2>2. MainsInv
    BY <1>4, <1>5, <2>1 DEF MainsInv
  <2>3. StagingInv
    BY <1>2, <1>5, <2>1, PartsAre DEF StagingInv
  <2>4. UnusedInv
    BY <1>5, PlacesDiffer DEF UnusedInv, Has
  <2>5. FreshInv
    BY <1>1, <1>4, VersionsAre DEF FreshInv
  <2> QED  BY <2>2, <2>3, <2>4, <2>5
<1>8. ReplacementInv /\ JournalInv /\ LiveInv /\ MoveInv
  BY <1>1, <1>2 DEF ReplacementInv, Swapped, JournalInv, LiveInv, MoveInv, NoJournal, FirstRestore
<1>9. SessionInv
  BY <1>1, <1>2, <1>4, <1>5, PartsAre, VersionsAre DEF SessionInv, NoJournal, Has
<1>10. KeepIfNew
  <2>1. Kept
    BY <1>4, <1>5, PlacesDiffer DEF Kept
  <2>2. OneGroup({Live})
    <3>1. SUFFICES ASSUME NEW s \in Sidecars, Needed(file[Live][s], s)
                   PROVE  file[Live]["main"] = file[Live][s]
      BY DEF OneGroup
    <3>2. file[Live][s] = 0 /\ s \in Parts
      BY <1>5, <3>1, VersionsAre, PartsAre DEF Needed
    <3>3. "main" \in found
      BY <1>4, <3>1, <3>2 DEF Needed
    <3> QED  BY <1>5, <3>2, <3>3, PartsAre
  <2>3. GroupsInv
    BY <1>1, <2>2 DEF GroupsInv, NoJournal, Swapped
  <2> QED  BY <2>1, <2>3 DEF KeepIfNew
<1>11. StagedInv /\ CalmInv
  BY <1>1, <1>2 DEF StagedInv, CalmInv, NoJournal, NoMove
<1>12. ASSUME WasWhole
       PROVE  ShapeInv
  <2>1. found = {} \/ "main" \in found
    BY <1>4, <1>12 DEF WasWhole
  <2>2. 0 # None /\ 0 \in Versions /\ 0 \notin 1 .. MaxRestores /\ "main" \in Parts
        /\ Sidecars \subseteq Parts
    BY VersionsAre, PartsAre DEF None
  <2>3. CASE "main" \in found
    <3>1. file[Live]["main"] = 0 /\ Has(Live, "main")
      BY <1>5, <2>2, <2>3 DEF Has
    <3>2. Fine({Live}, 0)
      BY <1>4, <1>5, <2>2 DEF Fine, Whole, Rotated
    <3> QED  BY <1>1, <1>2, <3>1, <3>2
         DEF ShapeInv, SettledShape, PreparedShape, SwappedShape, Swapped, RollShape, NoJournal
  <2>4. CASE found = {}
    <3>1. Vacant(Live) /\ ~Has(Live, "main") /\ \A w \in Versions : "main" \notin parts[w]
      BY <1>4, <1>5, <2>2, <2>4 DEF Vacant, Has
    <3> QED  BY <1>1, <1>2, <3>1
         DEF ShapeInv, SettledShape, PreparedShape, SwappedShape, Swapped, RollShape, NoJournal
  <2> QED  BY <2>1, <2>3, <2>4
<1> QED  BY <1>6, <1>7, <1>8, <1>9, <1>10, <1>11, <1>12 DEF JInv, ShapeIf, CalmIf

(* Every step keeps it. *)
LEMMA StepHolds ==
    ASSUME JInv, [Next]_vars
    PROVE  JInv'
<1>1. Typed'
  BY FilesTyped, JournalTyped, MoveTyped, CountsTyped, GhostsTyped DEF Typed
<1>2. superseded => superseded'
  BY SupersededStays
<1>3. KeepIfNew'
  <2>1. SUFFICES ASSUME ~superseded'
                 PROVE  Kept' /\ GroupsInv'
    BY DEF KeepIfNew
  <2>2. Kept /\ GroupsInv
    BY <1>2, <2>1 DEF JInv, KeepIfNew
  <2> QED  BY <2>1, <2>2, KeptStays, GroupsKept
<1>4. faults' = 0 => faults = 0
  BY FaultsStay
<1>5. ShapeIf'
  <2>1. SUFFICES ASSUME WasWhole', ~superseded' \/ faults' = 0
                 PROVE  ShapeInv'
    BY DEF ShapeIf
  <2>2. WasWhole
    BY <2>1, WasWholeBefore
  <2>3. ShapeInv /\ (faults' = 0 => CalmInv)
    BY <1>2, <1>4, <2>1, <2>2 DEF JInv, ShapeIf, CalmIf
  <2> QED  BY <2>1, <2>3, ShapeKept
<1>6. CalmIf'
  <2>1. SUFFICES ASSUME WasWhole', faults' = 0
                 PROVE  CalmInv'
    BY DEF CalmIf
  <2>2. WasWhole
    BY <2>1, WasWholeBefore
  <2>3. faults = 0 /\ ShapeInv /\ CalmInv
    BY <1>4, <2>1, <2>2 DEF JInv, ShapeIf, CalmIf
  <2> QED  BY <2>1, <2>3, CalmKept
<1> QED  BY <1>1, <1>3, <1>5, <1>6, MainsKept, StagingKept, UnusedKept, FreshKept,
            ReplacementKept, SessionKept, JournalKept, LiveKept, MoveKept, StagedKept DEF JInv

(* It holds in every state. *)
LEMMA InvariantHolds == Spec => []JInv
<1>1. Init => JInv
  BY InitHolds
<1>2. JInv /\ [Next]_vars => JInv'
  BY StepHolds
<1> QED  BY <1>1, <1>2, PTL DEF Spec

(* The restore keeps its types: the journal names a restore that was started, and every
   move is between places of the directory. *)
THEOREM RestoreTypes == Spec => []TypeOK
<1>1. JInv => TypeOK
  BY TypedIsTypeOK DEF JInv
<1> QED  BY <1>1, InvariantHolds, PTL

(* As long as no restore is begun over an unfinished one, no file of a ledger that was in use
   is overwritten or removed by InstallRestore, ReconcileOnStartup, their undone moves and
   failure paths, or sqlite.Open, however many restores there are and however often the
   process dies or a system call fails. *)
THEOREM NoLedgerIsLost == Spec => [](~superseded => NothingLost)
<1>1. JInv => (~superseded => NothingLost)
  BY DEF JInv, KeepIfNew, NothingLost
<1> QED  BY <1>1, InvariantHolds, PTL

(* As long as no restore is begun over an unfinished one, a connection to the live database
   (the verification, ResetFinancialSourceTracking, finalizeVerified and sqlite.Open) finds a
   main file with its own sidecars and all of them that hold part of the ledger; no empty
   ledger is bootstrapped in place of an existing one; and a replacement is opened only after
   its source tracking was reset. *)
THEOREM WholeDatabaseOpens == Spec => []OpensWhole
<1>1. ASSUME JInv
      PROVE  OpensWhole
  <2>1. SUFFICES ASSUME WasWhole, ~superseded, pc \in {"verify", "reset", "finalize", "open"},
                        NEW v, v = file[Live]["main"]
                 PROVE  /\ v = None /\ pc = "open" => \A w \in Versions : "main" \notin parts[w]
                        /\ v \in 1 .. MaxRestores /\ pc = "open" => v \in rotated
                        /\ v # None => \A s \in Sidecars :
                              /\ file[Live][s] \in {None, Blank, v}
                              /\ s \in parts[v] => file[Live][s] = v
    BY DEF OpensWhole
  <2>2. CASE pc = "open"
    <3>1. SettledShape /\ Settled
      BY <1>1, <2>1, <2>2 DEF JInv, ShapeIf, ShapeInv, JournalInv, Settled
    <3>2. CASE v = None
      BY <2>1, <3>1, <3>2, VersionsAre DEF SettledShape, Has
    <3>3. CASE v # None
      BY <2>1, <3>1, <3>3 DEF SettledShape, Has, Fine, Whole, Rotated
    <3> QED  BY <3>2, <3>3
  <2>3. CASE pc # "open"
    <3>1. journal.state \in {"original-renamed", "replacement-installed", "verified"}
      BY <1>1, <2>1, <2>3 DEF JInv, JournalInv
    <3> QED  BY <1>1, <2>1, <2>3, <3>1 DEF JInv, ReplacementInv, Swapped, Has
  <2> QED  BY <2>2, <2>3
<1> QED  BY <1>1, InvariantHolds, PTL

(* Crashes alone never leave a restore unresolved: as long as no system call fails, no branch
   of ReconcileOnStartup blocks, whatever step the process died at and however often. *)
THEOREM CrashesRecover == Spec => []CrashesAreRecovered
<1>1. JInv => CrashesAreRecovered
  BY DEF JInv, CalmIf, CalmInv, CrashesAreRecovered
<1> QED  BY <1>1, InvariantHolds, PTL

=============================================================================
