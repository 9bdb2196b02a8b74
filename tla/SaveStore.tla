------------------------------ MODULE SaveStore ------------------------------
(***************************************************************************)
(* The desktop game's save: three generation files and the archives, as    *)
(* written by electron/save-store.cjs, under the renderer's coordinator    *)
(* (src/src/lib/durablePersistence.ts) and the startup screens of App.tsx. *)
(*                                                                         *)
(* A save is a number: how far the game has got; Defaults is a new game.   *)
(* The main process carries out one request at a time, file by file: the   *)
(* process may die between two files, a write may fail (disk full, access  *)
(* denied), and a file may be damaged from outside.  Replacing one file is *)
(* atomic (temporary file, fsync, rename).  The reply of a request reaches *)
(* the renderer together with its last file, and the reply to the probe of *)
(* a launch together with the launch.                                      *)
(***************************************************************************)
EXTENDS Integers, Sequences, FiniteSets

CONSTANTS
  MaxSave,         \* bound: saves the game gets to
  MaxCorruptions,  \* bound: files damaged
  Missing, Corrupt \* what a path holds when it holds no valid record

Generations == {"current", "previous", "last-known-good"}
Defaults == 0
Saves == Defaults..MaxSave
Imported == 1    \* what an older version left in the browser's storage

ASSUME SavesAssumption == MaxSave \in Nat /\ Imported <= MaxSave /\ MaxCorruptions \in Nat
ASSUME MarkersAssumption == Missing # Corrupt /\ {Missing, Corrupt} \cap Saves = {}

VARIABLES
  disk,         \* the generation files
  archive,      \* contents of the archive.* files
  screen,       \* "off", "ready", "recovery", "first-run", "import-ready"
  recommended,  \* the generation recovery offers, or Missing
  memory,       \* the renderer's progress
  pending,      \* pendingCommit, or Missing
  browser,      \* browser storage: Imported, or Defaults when empty
  op,           \* the request at work: [kind, save, todo], or NoOp
  corruptions,  \* files damaged so far
  acked,        \* history: the last save whose receipt the renderer got
  attempted,    \* history: saves requested since
  before        \* history: the save acknowledged before, and those requested
                \* between; empty until there are two receipts

vars == <<disk, archive, screen, recommended, memory, pending, browser, op,
          corruptions, acked, before, attempted>>
history == <<acked, before, attempted>>

NoOp == [kind |-> "none", save |-> Defaults, todo |-> <<>>]
Valid(g) == disk[g] \in Saves

-----------------------------------------------------------------------------
Kinds == {"none", "commit", "first-run", "import", "restore", "fresh"}

(* The files each request goes through, in order.                          *)
WritePlan == <<"rotate", "replace", "verify", "keep">>
ArchiveAndWrite == <<"current", "rotate", "replace", "verify", "keep">>
ArchiveAllAndWrite ==
  <<"current", "previous", "last-known-good", "rotate", "replace", "verify", "keep">>

Plan_CurrentOnly(kind) ==   \* mutant
  IF kind \in {"restore", "fresh"} THEN ArchiveAndWrite ELSE WritePlan
Plan(kind) ==
  CASE kind = "restore" -> ArchiveAndWrite
    [] kind = "fresh" -> ArchiveAllAndWrite
    [] OTHER -> WritePlan

(* What can be left to do.                                                 *)
Plans ==
  { <<>>, <<"keep">>, <<"verify", "keep">>, <<"replace", "verify", "keep">>, WritePlan,
    ArchiveAndWrite, ArchiveAllAndWrite,
    <<"last-known-good", "rotate", "replace", "verify", "keep">>,
    <<"previous", "last-known-good", "rotate", "replace", "verify", "keep">> }

Begin(kind, save) ==
  /\ op = NoOp /\ screen # "off"
  /\ op' = [kind |-> kind, save |-> save, todo |-> Plan(kind)]
  /\ attempted' = attempted \cup {save}
  /\ UNCHANGED <<disk, archive, screen, recommended, browser, corruptions, acked, before>>

(* probeAutosaveGenerations: an archive is evidence of an earlier save.    *)
Evidence_Generations(files) == \E g \in Generations : files[g] # Missing   \* mutant
Evidence(files) == archive # {} \/ \E g \in Generations : files[g] # Missing

(* loadFromGenerationProbe.                                                *)
ScreenAfterProbe(files) ==
  CASE files["current"] \in Saves -> "ready"
    [] files["current"] \notin Saves /\ Evidence(files) -> "recovery"
    [] ~Evidence(files) -> IF browser = Defaults THEN "first-run" ELSE "import-ready"
Recommended(files) ==
  CASE files["previous"] \in Saves -> "previous"
    [] files["previous"] \notin Saves /\ files["last-known-good"] \in Saves -> "last-known-good"
    [] OTHER -> Missing

Load(files) ==
  /\ screen' = ScreenAfterProbe(files)
  /\ recommended' = IF screen' = "recovery" THEN Recommended(files) ELSE Missing
  /\ memory' = IF screen' = "ready" THEN files["current"] ELSE memory

Init ==
  /\ disk = [g \in Generations |-> Missing] /\ archive = {}
  /\ screen = "off" /\ recommended = Missing
  /\ browser \in {Defaults, Imported}
  /\ memory = browser /\ pending = Missing
  /\ op = NoOp /\ corruptions = 0
  /\ acked = Missing /\ before = {} /\ attempted = {}
-----------------------------------------------------------------------------
Launch ==
  /\ screen = "off" /\ Load(disk)
  /\ UNCHANGED <<disk, archive, pending, browser, op, corruptions, history>>

(* The process dies, or quits; the next launch starts from browser storage.*)
Crash ==
  /\ screen # "off"
  /\ screen' = "off" /\ recommended' = Missing
  /\ memory' = browser /\ pending' = Missing /\ op' = NoOp
  /\ UNCHANGED <<disk, archive, browser, corruptions, history>>

(* persistBoundary at a boundary of the game: progress was made, or not.   *)
Commit ==
  /\ screen = "ready"
  /\ memory' \in {memory, memory + 1} \cap Saves
  /\ Begin("commit", memory') /\ pending' = memory'

(* useDesktopSaveHandshake: a close request, a suspend, a quit or the end  *)
(* of the session commits what is in memory, whatever screen is shown.     *)
LifecycleCommit ==
  /\ Begin("commit", memory) /\ pending' = memory
  /\ UNCHANGED memory

RetryPendingCommit ==
  /\ screen = "ready" /\ pending # Missing
  /\ Begin("commit", pending)
  /\ UNCHANGED <<memory, pending>>

FirstRunCommit ==
  /\ screen = "first-run"
  /\ Begin("first-run", Defaults) /\ pending' = Defaults
  /\ UNCHANGED memory

ConfirmBrowserImport ==
  /\ screen = "import-ready"
  /\ Begin("import", browser)
  /\ UNCHANGED <<memory, pending>>

Restore ==
  /\ screen = "recovery" /\ recommended # Missing /\ Valid(recommended)
  /\ Begin("restore", disk[recommended])
  /\ UNCHANGED <<memory, pending>>

StartFresh ==
  /\ screen \in {"recovery", "import-ready"}
  /\ Begin("fresh", Defaults)
  /\ UNCHANGED <<memory, pending>>

-----------------------------------------------------------------------------
(* The main process at work: one file, or the check of one, at a time.     *)
Todo(step) == op.todo # <<>> /\ Head(op.todo) = step
Done == op' = [op EXCEPT !.todo = Tail(@)]
DuringWrite == UNCHANGED <<screen, recommended, memory, pending, browser, corruptions, history>>

(* archiveGeneration: the file is renamed, valid or not.                   *)
ArchiveOne(g) ==
  /\ Todo(g) /\ Done
  /\ disk' = [disk EXCEPT ![g] = Missing]
  /\ archive' = archive \cup ({disk[g]} \ {Missing})
  /\ DuringWrite

(* writeAutosaveGeneration: only a valid current becomes the previous.     *)
RotatePrevious_Any ==   \* mutant
  /\ Todo("rotate") /\ Done
  /\ disk' = [disk EXCEPT !["previous"] = IF disk["current"] # Missing THEN disk["current"] ELSE @]
  /\ UNCHANGED archive /\ DuringWrite
RotatePrevious ==
  /\ Todo("rotate") /\ Done
  /\ disk' = [disk EXCEPT !["previous"] = IF Valid("current") THEN disk["current"] ELSE @]
  /\ UNCHANGED archive /\ DuringWrite

ReplaceCurrent ==
  /\ Todo("replace") /\ Done
  /\ disk' = [disk EXCEPT !["current"] = op.save]
  /\ UNCHANGED archive /\ DuringWrite

VerifyCurrent ==
  /\ Todo("verify") /\ disk["current"] = op.save
  /\ Done
  /\ UNCHANGED <<disk, archive>> /\ DuringWrite

(* The last-known-good copy is best effort; then the receipt goes out.     *)
ReplyWith(files) ==
  /\ acked' = op.save /\ attempted' = {}
  /\ before' = IF acked = Missing THEN {} ELSE {acked} \cup attempted
  /\ op' = NoOp
  /\ pending' = IF op.kind \in {"commit", "first-run"} THEN Missing ELSE pending
  /\ CASE op.kind = "commit" -> UNCHANGED <<screen, recommended, memory>>
       [] screen = "recovery" /\ op.kind # "commit" -> Load(files)
       [] OTHER -> screen' = "ready" /\ memory' = op.save /\ UNCHANGED recommended

KeepLastKnownGood ==
  /\ Todo("keep")
  /\ \/ disk' = [disk EXCEPT !["last-known-good"] = op.save]
     \/ UNCHANGED disk
  /\ ReplyWith(disk')
  /\ UNCHANGED <<archive, browser, corruptions>>

(* A file operation fails, or the new current does not read back.          *)
Fail_RollsBack ==   \* mutant: the previous generation becomes current again
  /\ op.todo # <<>>
  /\ Head(op.todo) = "verify" => disk["current"] # op.save
  /\ Head(op.todo) # "keep"
  /\ op' = NoOp
  /\ disk' = [disk EXCEPT !["current"] = IF Valid("previous") THEN disk["previous"] ELSE @]
  /\ screen' = IF op.kind = "first-run" THEN "recovery" ELSE screen
  /\ UNCHANGED <<archive, recommended, memory, pending, browser, corruptions, history>>
Fail ==
  /\ op.todo # <<>>
  /\ Head(op.todo) = "verify" => disk["current"] # op.save
  /\ Head(op.todo) # "keep"
  /\ op' = NoOp
  /\ screen' = IF op.kind = "first-run" THEN "recovery" ELSE screen
  /\ UNCHANGED <<disk, archive, recommended, memory, pending, browser, corruptions, history>>

Damage ==
  /\ corruptions < MaxCorruptions /\ corruptions' = corruptions + 1
  /\ \E g \in Generations : Valid(g) /\ disk' = [disk EXCEPT ![g] = Corrupt]
  /\ UNCHANGED <<archive, screen, recommended, memory, pending, browser, op, history>>

MainStep ==
  \/ \E g \in Generations : ArchiveOne(g)
  \/ RotatePrevious \/ ReplaceCurrent \/ VerifyCurrent \/ KeepLastKnownGood \/ Fail

Next ==
  \/ Launch \/ Crash \/ Damage
  \/ Commit \/ LifecycleCommit \/ RetryPendingCommit \/ FirstRunCommit
  \/ ConfirmBrowserImport \/ Restore \/ StartFresh
  \/ MainStep

Spec == Init /\ [][Next]_vars

-----------------------------------------------------------------------------
(* Type invariant.                                                         *)
TypeOK ==
  /\ disk \in [Generations -> Saves \cup {Missing, Corrupt}]
  /\ archive \subseteq Saves \cup {Corrupt}
  /\ screen \in {"off", "ready", "recovery", "first-run", "import-ready"}
  /\ recommended \in Generations \cup {Missing}
  /\ memory \in Saves /\ pending \in Saves \cup {Missing}
  /\ browser \in {Defaults, Imported}
  /\ op \in [kind: Kinds, save: Saves, todo: Plans]
  /\ corruptions \in 0..MaxCorruptions
  /\ acked \in Saves \cup {Missing}
  /\ attempted \subseteq Saves /\ before \subseteq Saves

Kept == ({disk[g] : g \in Generations} \cup archive) \cap Saves

(* A receipt means something, whatever writes fail and whenever the        *)
(* process dies: a file holds the acknowledged save or one requested after *)
(* it, and after a second receipt one damaged file costs at most the last  *)
(* save.                                                                   *)
ReceiptIsDurable ==
  acked # Missing =>
    /\ corruptions = 0 => Kept \cap ({acked} \cup attempted) # {}
    /\ corruptions = 1 /\ before # {} => Kept \cap ({acked} \cup before \cup attempted) # {}

(* A valid current is never stale: it is the acknowledged save or one that *)
(* was requested after it, so a normal launch loses no acknowledged save.  *)
CurrentIsLatest == Valid("current") => disk["current"] \in {acked} \cup attempted

(* Once a save was acknowledged no launch ever takes the player for a new  *)
(* one, even if it died between archiving and writing.                     *)
NeverNewAgain ==
  [][acked # Missing => screen' \notin {"first-run", "import-ready"} \/ screen' = screen]_vars

(* Starting afresh loses nothing that could be read: it is archived first. *)
FreshStartKeepsEverything ==
  [][op.kind = "fresh" /\ corruptions' = corruptions => Kept \subseteq Kept']_vars

(* save-compatibility-recovery-policy.md: Cancel/Quit on the recovery      *)
(* screen "leaves all save bytes unchanged"; only a restore or a fresh     *)
(* start may change them.                                                  *)
RecoveryLeavesSavesAlone ==
  [][screen = "recovery" /\ recommended # Missing /\ op.kind \notin {"restore", "fresh"}
       => UNCHANGED disk \/ corruptions' # corruptions]_vars
=============================================================================
