--------------------------- MODULE SaveStoreProofs ---------------------------
(***************************************************************************)
(* Theorems about SaveStore, for any number of saves and of damaged files: *)
(* a valid current generation is never stale, and once a save was          *)
(* acknowledged no launch takes the player for a new one.                  *)
(*                                                                         *)
(* Neither is inductive: both depend on how far the request at work has    *)
(* got.  IInv adds that a request's save counts as requested, and that     *)
(* once the current file was replaced it holds that save, or is damaged,   *)
(* until the request ends.                                                 *)
(***************************************************************************)
EXTENDS SaveStore, TLAPS

Requested == op.todo # <<>> => op.save \in attempted
Replaced ==
  op.todo \in {<<"keep">>, <<"verify", "keep">>} => disk["current"] \in {op.save, Corrupt}
EvidenceStays == acked # Missing => Evidence(disk)

IInv == TypeOK /\ Requested /\ Replaced /\ CurrentIsLatest /\ EvidenceStays

-----------------------------------------------------------------------------
(* What is left after the first step of a plan.                            *)
LEMMA Remaining ==
  ASSUME NEW todo \in Plans, todo # <<>>
  PROVE  /\ Tail(todo) \in Plans
         /\ Head(todo) = "replace" <=> Tail(todo) = <<"verify", "keep">>
         /\ Head(todo) = "verify" <=> Tail(todo) = <<"keep">>
         /\ Head(todo) = "keep" <=> todo = <<"keep">>
         /\ Head(todo) = "verify" => todo = <<"verify", "keep">>
<1>1. CASE todo = <<"keep">>
  BY <1>1 DEF Plans, WritePlan, ArchiveAndWrite, ArchiveAllAndWrite
<1>2. CASE todo = <<"verify", "keep">>
  BY <1>2 DEF Plans, WritePlan, ArchiveAndWrite, ArchiveAllAndWrite
<1>3. CASE todo = <<"replace", "verify", "keep">>
  BY <1>3 DEF Plans, WritePlan, ArchiveAndWrite, ArchiveAllAndWrite
<1>4. CASE todo = WritePlan
  BY <1>4 DEF Plans, WritePlan, ArchiveAndWrite, ArchiveAllAndWrite
<1>5. CASE todo = ArchiveAndWrite
  BY <1>5 DEF Plans, WritePlan, ArchiveAndWrite, ArchiveAllAndWrite
<1>6. CASE todo = ArchiveAllAndWrite
  BY <1>6 DEF Plans, WritePlan, ArchiveAndWrite, ArchiveAllAndWrite
<1>7. CASE todo = <<"last-known-good", "rotate", "replace", "verify", "keep">>
  BY <1>7 DEF Plans, WritePlan, ArchiveAndWrite, ArchiveAllAndWrite
<1>8. CASE todo = <<"previous", "last-known-good", "rotate", "replace", "verify", "keep">>
  BY <1>8 DEF Plans, WritePlan, ArchiveAndWrite, ArchiveAllAndWrite
<1> QED BY <1>1, <1>2, <1>3, <1>4, <1>5, <1>6, <1>7, <1>8 DEF Plans

(* Every request has a plan with something to do.                          *)
LEMMA PlanIsPlan == ASSUME NEW kind PROVE Plan(kind) \in Plans /\ Plan(kind) # <<>>
                       /\ Plan(kind) \notin {<<"keep">>, <<"verify", "keep">>}
BY DEF Plan, Plans, WritePlan, ArchiveAndWrite, ArchiveAllAndWrite

(* The invariant holds before the first launch.                            *)
LEMMA InitEstablishes == Init => IInv
<1> SUFFICES ASSUME Init PROVE IInv
  OBVIOUS
<1>1. Defaults \in Saves /\ Imported \in Saves /\ 0 \in 0..MaxCorruptions
  BY SavesAssumption DEF Saves, Defaults, Imported
<1>2. op \in [kind: Kinds, save: Saves, todo: Plans] /\ op.todo = <<>>
  BY <1>1 DEF Init, NoOp, Kinds, Plans
<1>3. disk \in [Generations -> Saves \cup {Missing, Corrupt}]
  BY DEF Init
<1>4. TypeOK
  BY <1>1, <1>2, <1>3 DEF Init, TypeOK
<1>5. Requested /\ Replaced /\ EvidenceStays
  BY <1>2 DEF Init, Requested, Replaced, EvidenceStays
<1>6. CurrentIsLatest
  BY MarkersAssumption DEF Init, CurrentIsLatest, Valid, Generations
<1> QED BY <1>4, <1>5, <1>6 DEF IInv

(* The screen a probe leads to, and what it loads.                         *)
LEMMA LoadTyped ==
  ASSUME NEW files \in [Generations -> Saves \cup {Missing, Corrupt}], memory \in Saves, Load(files)
  PROVE  /\ screen' \in {"ready", "recovery", "first-run", "import-ready"}
         /\ recommended' \in Generations \cup {Missing}
         /\ memory' \in Saves
         /\ Evidence(files) => screen' \notin {"first-run", "import-ready"}
BY DEF Load, ScreenAfterProbe, Recommended, Generations, Evidence

(* A request begins: the files are as they were.                           *)
LEMMA BeginKeeps ==
  ASSUME IInv, NEW kind \in Kinds, NEW save \in Saves, Begin(kind, save)
  PROVE  /\ disk' = disk /\ archive' = archive /\ screen' = screen /\ acked' = acked
         /\ op' \in [kind: Kinds, save: Saves, todo: Plans]
         /\ recommended' \in Generations \cup {Missing} /\ browser' \in {Defaults, Imported}
         /\ corruptions' \in 0..MaxCorruptions
         /\ attempted' \subseteq Saves /\ before' \subseteq Saves
         /\ Requested' /\ Replaced' /\ CurrentIsLatest' /\ EvidenceStays'
<1>1. /\ disk' = disk /\ archive' = archive /\ screen' = screen /\ acked' = acked
      /\ attempted' = attempted \cup {save} /\ before' = before
      /\ recommended' = recommended /\ browser' = browser /\ corruptions' = corruptions
      /\ op' = [kind |-> kind, save |-> save, todo |-> Plan(kind)]
  BY DEF Begin
<1>2. op' \in [kind: Kinds, save: Saves, todo: Plans]
  BY <1>1, PlanIsPlan
<1>3. Requested' /\ Replaced'
  BY <1>1, PlanIsPlan DEF Requested, Replaced
<1>4. CurrentIsLatest' /\ EvidenceStays'
  BY <1>1 DEF IInv, CurrentIsLatest, EvidenceStays, Evidence, Valid
<1> QED BY <1>1, <1>2, <1>3, <1>4 DEF IInv, TypeOK

(* A request is asked for.                                                 *)
Request ==
  \/ Commit \/ LifecycleCommit \/ RetryPendingCommit \/ FirstRunCommit
  \/ ConfirmBrowserImport \/ Restore \/ StartFresh

(* A new request keeps the invariant and the screen.                       *)
LEMMA RequestPreserves == ASSUME IInv, Request PROVE IInv' /\ screen' = screen
<1> USE DEF TypeOK
<1> Defaults \in Saves /\ Imported \in Saves
  BY SavesAssumption DEF Saves, Defaults, Imported
<1> SUFFICES ASSUME NEW kind \in Kinds, NEW save \in Saves, Begin(kind, save),
                    memory' \in Saves, pending' \in Saves \cup {Missing}
             PROVE  IInv' /\ screen' = screen
  <2>1. CASE Commit
    BY <2>1 DEF IInv, Commit, Kinds
  <2>2. CASE LifecycleCommit
    BY <2>2 DEF IInv, LifecycleCommit, Kinds
  <2>3. CASE RetryPendingCommit
    BY <2>3 DEF IInv, RetryPendingCommit, Kinds
  <2>4. CASE FirstRunCommit
    BY <2>4 DEF IInv, FirstRunCommit, Kinds
  <2>5. CASE ConfirmBrowserImport
    BY <2>5 DEF IInv, ConfirmBrowserImport, Kinds
  <2>6. CASE Restore
    BY <2>6 DEF IInv, Restore, Valid, Kinds
  <2>7. CASE StartFresh
    BY <2>7 DEF IInv, StartFresh, Kinds
  <2> QED BY <2>1, <2>2, <2>3, <2>4, <2>5, <2>6, <2>7 DEF Request
<1> QED BY BeginKeeps DEF IInv

(* The probe, the end of a process and damage from outside.                *)
LEMMA OutsidePreserves == ASSUME IInv, Launch \/ Crash \/ Damage PROVE IInv'
<1>1. CASE Launch
  <2>1. screen' \in {"ready", "recovery", "first-run", "import-ready"}
        /\ recommended' \in Generations \cup {Missing} /\ memory' \in Saves
    BY <1>1, LoadTyped DEF Launch, IInv, TypeOK
  <2> QED BY <1>1, <2>1 DEF Launch, IInv, TypeOK, Requested, Replaced, CurrentIsLatest,
                 EvidenceStays, Evidence, Valid, history
<1>2. CASE Crash
  BY <1>2, SavesAssumption DEF Crash, IInv, TypeOK, Requested, Replaced, CurrentIsLatest, EvidenceStays,
       Evidence, Valid, history, NoOp, Kinds, Plans, Saves, Defaults, Imported
<1>3. CASE Damage
  <2> PICK g \in Generations : Valid(g) /\ disk' = [disk EXCEPT ![g] = Corrupt]
    BY <1>3 DEF Damage
  <2>1. TypeOK'
    BY <1>3, SavesAssumption DEF Damage, IInv, TypeOK, history
  <2>2. Requested' /\ Replaced' /\ CurrentIsLatest'
    BY <1>3, MarkersAssumption DEF Damage, IInv, TypeOK, Requested, Replaced, CurrentIsLatest,
         Valid, history
  <2>3. EvidenceStays'
    BY <1>3, MarkersAssumption DEF Damage, IInv, TypeOK, EvidenceStays, Evidence, history
  <2> QED BY <2>1, <2>2, <2>3 DEF IInv
<1> QED BY <1>1, <1>2, <1>3

-----------------------------------------------------------------------------
(* One file of a request.                                                  *)
LEMMA StepForward ==
  ASSUME IInv, op.todo # <<>>, Done
  PROVE  /\ op' \in [kind: Kinds, save: Saves, todo: Plans]
         /\ op'.save = op.save /\ op'.todo = Tail(op.todo) /\ op.save \in attempted
         /\ op'.todo = <<"verify", "keep">> <=> Head(op.todo) = "replace"
         /\ op'.todo = <<"keep">> <=> Head(op.todo) = "verify"
         /\ Head(op.todo) = "verify" => op.todo = <<"verify", "keep">>
<1>1. op \in [kind: Kinds, save: Saves, todo: Plans]
  BY DEF IInv, TypeOK
<1>2. op' = [op EXCEPT !.todo = Tail(op.todo)]
  BY DEF Done
<1> QED BY <1>1, <1>2, Remaining DEF IInv, Requested

(* Archiving a generation keeps it,                                        *)
LEMMA ArchivePreserves == ASSUME IInv, NEW g \in Generations, ArchiveOne(g) PROVE IInv'
<1>1. op.todo # <<>> /\ Head(op.todo) = g /\ Done /\ disk' = [disk EXCEPT ![g] = Missing]
      /\ archive' = archive \cup ({disk[g]} \ {Missing})
      /\ UNCHANGED <<screen, recommended, memory, pending, browser, corruptions,
                     acked, before, attempted>>
  BY DEF ArchiveOne, Todo, DuringWrite, history
<1>2. TypeOK'
  <2>1. disk' \in [Generations -> Saves \cup {Missing, Corrupt}]
        /\ archive' \subseteq Saves \cup {Corrupt}
    BY <1>1 DEF IInv, TypeOK
  <2> QED BY <1>1, <2>1, StepForward DEF IInv, TypeOK
<1>3. Requested' /\ Replaced'
  BY <1>1, StepForward DEF Requested, Replaced, Generations
<1>4. CurrentIsLatest'
  BY <1>1, MarkersAssumption DEF IInv, TypeOK, CurrentIsLatest, Valid, Generations
<1>5. EvidenceStays'
  <2>1. Evidence(disk) => Evidence(disk)'
    BY <1>1 DEF IInv, TypeOK, Evidence
  <2> QED BY <1>1, <2>1 DEF IInv, EvidenceStays
<1> QED BY <1>2, <1>3, <1>4, <1>5 DEF IInv

(* A step that puts a value in place of a file that is not missing.        *)
LEMMA WritePreserves == ASSUME IInv, RotatePrevious \/ ReplaceCurrent \/ VerifyCurrent PROVE IInv'
<1>1. op.todo # <<>> /\ Done /\ archive' = archive
      /\ UNCHANGED <<screen, recommended, memory, pending, browser, corruptions,
                     acked, before, attempted>>
  BY DEF RotatePrevious, ReplaceCurrent, VerifyCurrent, Todo, DuringWrite, history
<1>2. /\ disk' \in [Generations -> Saves \cup {Missing, Corrupt}]
      /\ \A g \in Generations : disk[g] # Missing => disk'[g] # Missing
      /\ Head(op.todo) = "replace" => disk'["current"] = op.save
      /\ Head(op.todo) # "replace" => disk'["current"] = disk["current"]
  <2> disk \in [Generations -> Saves \cup {Missing, Corrupt}] /\ op.save \in Saves
    BY DEF IInv, TypeOK
  <2>1. CASE RotatePrevious
    BY <2>1, MarkersAssumption DEF RotatePrevious, Todo, Valid, Generations
  <2>2. CASE ReplaceCurrent
    BY <2>2, MarkersAssumption DEF ReplaceCurrent, Todo, Generations
  <2>3. CASE VerifyCurrent
    BY <2>3 DEF VerifyCurrent, Todo
  <2> QED BY <2>1, <2>2, <2>3
<1>3. TypeOK'
  BY <1>1, <1>2, StepForward DEF IInv, TypeOK
<1>4. Requested' /\ Replaced'
  BY <1>1, <1>2, StepForward DEF IInv, Requested, Replaced
<1>5. CurrentIsLatest'
  BY <1>1, <1>2, StepForward DEF IInv, CurrentIsLatest, Valid
<1>6. EvidenceStays'
  BY <1>1, <1>2 DEF IInv, EvidenceStays, Evidence
<1> QED BY <1>3, <1>4, <1>5, <1>6 DEF IInv

(* The reply, and what the renderer does with it: the current file holds   *)
(* the save now acknowledged, or was damaged since.                        *)
LEMMA ReplyKeeps ==
  ASSUME IInv, KeepLastKnownGood
  PROVE  IInv' /\ (screen' # screen => screen' \notin {"first-run", "import-ready"})
<1> disk \in [Generations -> Saves \cup {Missing, Corrupt}] /\ op.save \in Saves
    /\ op.todo = <<"keep">>
  BY Remaining DEF IInv, TypeOK, KeepLastKnownGood, Todo
<1>1. disk["current"] \in {op.save, Corrupt}
  BY DEF IInv, Replaced
<1>2. /\ disk' \in [Generations -> Saves \cup {Missing, Corrupt}]
      /\ disk'["current"] = disk["current"]
  BY DEF KeepLastKnownGood, Generations
<1>3. /\ acked' = op.save /\ attempted' = {} /\ op' = NoOp
      /\ before' = IF acked = Missing THEN {} ELSE {acked} \cup attempted
      /\ pending' \in {Missing, pending}
      /\ archive' = archive /\ browser' = browser /\ corruptions' = corruptions
  BY DEF KeepLastKnownGood, ReplyWith
<1>4. Evidence(disk') /\ Evidence(disk)'
  BY <1>1, <1>2, <1>3, MarkersAssumption DEF Evidence, Generations
<1>5. /\ screen' \in {"off", "ready", "recovery", "first-run", "import-ready"}
      /\ recommended' \in Generations \cup {Missing}
      /\ memory' \in Saves
      /\ screen' # screen => screen' \notin {"first-run", "import-ready"}
  <2> memory \in Saves /\ recommended \in Generations \cup {Missing}
      /\ screen \in {"off", "ready", "recovery", "first-run", "import-ready"}
    BY DEF IInv, TypeOK
  <2>1. CASE Load(disk')
    BY <2>1, <1>2, <1>4, LoadTyped
  <2>2. CASE UNCHANGED <<screen, recommended, memory>>
    BY <2>2
  <2>3. CASE screen' = "ready" /\ memory' = op.save /\ UNCHANGED recommended
    BY <2>3
  <2> QED BY <2>1, <2>2, <2>3 DEF KeepLastKnownGood, ReplyWith
<1>6. op' \in [kind: Kinds, save: Saves, todo: Plans] /\ op'.todo = <<>>
  BY <1>3, SavesAssumption DEF NoOp, Kinds, Plans, Saves, Defaults, Imported
<1>7. TypeOK'
  BY <1>2, <1>3, <1>5, <1>6 DEF IInv, TypeOK
<1>8. Requested' /\ Replaced'
  BY <1>6 DEF Requested, Replaced
<1>9. CurrentIsLatest' /\ EvidenceStays'
  BY <1>1, <1>2, <1>3, <1>4, MarkersAssumption DEF CurrentIsLatest, Valid, EvidenceStays
<1> QED BY <1>5, <1>7, <1>8, <1>9 DEF IInv

(* and so does a step that fails.                                          *)
LEMMA FailPreserves == ASSUME IInv, Fail PROVE IInv' /\ screen' \in {screen, "recovery"}
<1>1. op' \in [kind: Kinds, save: Saves, todo: Plans] /\ op'.todo = <<>>
  BY SavesAssumption DEF Fail, NoOp, Kinds, Plans, Saves, Defaults, Imported
<1> QED BY <1>1 DEF Fail, IInv, TypeOK, Requested, Replaced, CurrentIsLatest, EvidenceStays,
             Evidence, Valid, history

-----------------------------------------------------------------------------
(* Every step keeps the invariant.                                         *)
LEMMA NextPreserves == IInv /\ [Next]_vars => IInv'
<1> SUFFICES ASSUME IInv, [Next]_vars PROVE IInv'
  OBVIOUS
<1>1. CASE Launch \/ Crash \/ Damage
  BY <1>1, OutsidePreserves
<1>2. CASE Request
  BY <1>2, RequestPreserves
<1>3. CASE MainStep
  BY <1>3, ArchivePreserves, WritePreserves, ReplyKeeps, FailPreserves DEF MainStep
<1>4. CASE UNCHANGED vars
  BY <1>4 DEF vars, IInv, TypeOK, Requested, Replaced, CurrentIsLatest, EvidenceStays,
       Evidence, Valid
<1> QED BY <1>1, <1>2, <1>3, <1>4 DEF Next, Request

(* The inductive invariant of the save files.                              *)
THEOREM SaveInvariant == Spec => []IInv
BY InitEstablishes, NextPreserves, PTL DEF Spec

(* Type correctness, for any number of saves.                              *)
THEOREM TypeCorrect == Spec => []TypeOK
<1>1. IInv => TypeOK
  BY DEF IInv
<1> QED BY <1>1, SaveInvariant, PTL

(* Whatever fails or dies, a valid current generation is the acknowledged  *)
(* save or a later one: writeAutosaveGeneration, restore and fresh start   *)
(* never leave an older save in its place.                                 *)
THEOREM CurrentNeverStale == Spec => []CurrentIsLatest
<1>1. IInv => CurrentIsLatest
  BY DEF IInv
<1> QED BY <1>1, SaveInvariant, PTL

(* Once a save was acknowledged, no launch and no reply ever shows the     *)
(* player the first-run or the import screen.                              *)
THEOREM NeverANewPlayerAgain == Spec => NeverNewAgain
<1> DEFINE Kept1 == acked # Missing => screen' \notin {"first-run", "import-ready"} \/ screen' = screen
<1>1. IInv /\ [Next]_vars => [Kept1]_vars
  <2> SUFFICES ASSUME IInv, Next, acked # Missing
               PROVE  screen' \notin {"first-run", "import-ready"} \/ screen' = screen
    BY DEF vars
  <2>1. CASE Launch
    BY <2>1, LoadTyped DEF Launch, IInv, TypeOK, EvidenceStays
  <2>2. CASE Crash \/ Damage
    BY <2>2 DEF Crash, Damage
  <2>3. CASE Request
    BY <2>3, RequestPreserves
  <2>4. CASE \E g \in Generations : ArchiveOne(g)
    BY <2>4 DEF ArchiveOne, DuringWrite
  <2>5. CASE RotatePrevious \/ ReplaceCurrent \/ VerifyCurrent
    BY <2>5 DEF RotatePrevious, ReplaceCurrent, VerifyCurrent, DuringWrite
  <2>6. CASE KeepLastKnownGood \/ Fail
    BY <2>6, ReplyKeeps, FailPreserves
  <2> QED BY <2>1, <2>2, <2>3, <2>4, <2>5, <2>6 DEF Next, Request, MainStep
<1> QED BY <1>1, SaveInvariant, PTL DEF Spec, NeverNewAgain

-----------------------------------------------------------------------------
(* What a fresh start has left to do, from its first step on.              *)
AfterCurrent == <<"previous", "last-known-good", "rotate", "replace", "verify", "keep">>
AfterPrevious == <<"last-known-good", "rotate", "replace", "verify", "keep">>
AfterRotate == <<"replace", "verify", "keep">>

(* While one is at work, what it has archived is not there any more: the   *)
(* rotation finds nothing to rotate and the writes displace nothing.       *)
FreshOrder ==
  op.kind = "fresh" =>
    \/ op.todo = ArchiveAllAndWrite
    \/ op.todo = AfterCurrent /\ disk["current"] = Missing
    \/ op.todo = AfterPrevious /\ disk["current"] = Missing /\ disk["previous"] = Missing
    \/ op.todo \in {WritePlan, AfterRotate} /\ \A g \in Generations : disk[g] = Missing
    \/ /\ op.todo \in {<<"verify", "keep">>, <<"keep">>}
       /\ disk["previous"] = Missing /\ disk["last-known-good"] = Missing

(* The steps of a fresh start, one by one.                                 *)
LEMMA FreshForward ==
  ASSUME NEW todo
  PROVE  /\ todo = ArchiveAllAndWrite => Head(todo) = "current" /\ Tail(todo) = AfterCurrent
         /\ todo = AfterCurrent => Head(todo) = "previous" /\ Tail(todo) = AfterPrevious
         /\ todo = AfterPrevious => Head(todo) = "last-known-good" /\ Tail(todo) = WritePlan
         /\ todo = WritePlan => Head(todo) = "rotate" /\ Tail(todo) = AfterRotate
         /\ todo = AfterRotate => Head(todo) = "replace" /\ Tail(todo) = <<"verify", "keep">>
         /\ todo = <<"verify", "keep">> => Head(todo) = "verify" /\ Tail(todo) = <<"keep">>
         /\ todo = <<"keep">> => Head(todo) = "keep"
<1>1. todo = ArchiveAllAndWrite => Head(todo) = "current" /\ Tail(todo) = AfterCurrent
  BY DEF ArchiveAllAndWrite, AfterCurrent
<1>2. todo = AfterCurrent => Head(todo) = "previous" /\ Tail(todo) = AfterPrevious
  BY DEF AfterCurrent, AfterPrevious
<1>3. todo = AfterPrevious => Head(todo) = "last-known-good" /\ Tail(todo) = WritePlan
  BY DEF AfterPrevious, WritePlan
<1>4. todo = WritePlan => Head(todo) = "rotate" /\ Tail(todo) = AfterRotate
  BY DEF WritePlan, AfterRotate
<1>5. todo = AfterRotate => Head(todo) = "replace" /\ Tail(todo) = <<"verify", "keep">>
  BY DEF AfterRotate
<1>6. todo = <<"verify", "keep">> => Head(todo) = "verify" /\ Tail(todo) = <<"keep">>
  OBVIOUS
<1>7. todo = <<"keep">> => Head(todo) = "keep"
  OBVIOUS
<1> QED
  BY <1>1, <1>2, <1>3, <1>4, <1>5, <1>6, <1>7

(* A step of the main process in a fresh start keeps that, and keeps every *)
(* save that can be read in a generation or in the archive.                *)
LEMMA FreshWorks ==
  ASSUME TypeOK, FreshOrder, op.kind = "fresh", MainStep
  PROVE  FreshOrder' /\ Kept \subseteq Kept'
<1>1. disk \in [Generations -> Saves \cup {Missing, Corrupt}] /\ op.save \in Saves
      /\ op \in [kind: Kinds, save: Saves, todo: Plans]
  BY DEF TypeOK
<1>2. Missing \notin Saves /\ Corrupt \notin Saves /\ Missing # Corrupt
  BY MarkersAssumption
<1>3. ASSUME NEW g \in Generations, ArchiveOne(g)
      PROVE  FreshOrder' /\ Kept \subseteq Kept'
  <2>1. /\ op.todo # <<>> /\ Head(op.todo) = g /\ op'.kind = "fresh" /\ op'.todo = Tail(op.todo)
        /\ disk' = [disk EXCEPT ![g] = Missing]
        /\ archive' = archive \cup ({disk[g]} \ {Missing})
    BY <1>1, <1>3 DEF ArchiveOne, Todo, Done
  <2>2. Kept \subseteq Kept'
    BY <1>1, <1>2, <2>1 DEF Kept
  <2>3. FreshOrder'
    BY <1>1, <2>1, FreshForward DEF FreshOrder, Generations
  <2> QED
    BY <2>2, <2>3
<1>4. CASE RotatePrevious
  <2>1. /\ Head(op.todo) = "rotate" /\ op'.kind = "fresh" /\ op'.todo = Tail(op.todo)
        /\ archive' = archive
    BY <1>1, <1>4 DEF RotatePrevious, Todo, Done
  <2>2. op.todo = WritePlan /\ \A g \in Generations : disk[g] = Missing
    BY <2>1, FreshForward DEF FreshOrder
  <2>3. ~Valid("current")
    BY <2>2, <1>2 DEF Valid, Generations
  <2>4. disk' = disk
    BY <1>1, <1>4, <2>3 DEF RotatePrevious, Generations
  <2> QED
    BY <2>1, <2>2, <2>4, FreshForward DEF FreshOrder, Kept
<1>5. CASE ReplaceCurrent
  <2>1. /\ Head(op.todo) = "replace" /\ op'.kind = "fresh" /\ op'.todo = Tail(op.todo)
        /\ archive' = archive /\ disk' = [disk EXCEPT !["current"] = op.save]
    BY <1>1, <1>5 DEF ReplaceCurrent, Todo, Done
  <2>2. op.todo = AfterRotate /\ \A g \in Generations : disk[g] = Missing
    BY <2>1, FreshForward DEF FreshOrder
  <2>3. Kept \subseteq Kept'
    BY <1>1, <1>2, <2>1, <2>2 DEF Kept
  <2>4. op'.todo = <<"verify", "keep">> /\ disk'["previous"] = Missing
        /\ disk'["last-known-good"] = Missing
    BY <1>1, <2>1, <2>2, FreshForward DEF Generations
  <2> QED
    BY <2>3, <2>4 DEF FreshOrder
<1>6. CASE VerifyCurrent
  <2>1. /\ Head(op.todo) = "verify" /\ op'.kind = "fresh" /\ op'.todo = Tail(op.todo)
        /\ archive' = archive /\ disk' = disk
    BY <1>1, <1>6 DEF VerifyCurrent, Todo, Done
  <2>2. op.todo = <<"verify", "keep">>
    BY <2>1, FreshForward DEF FreshOrder
  <2> QED
    BY <2>1, <2>2, FreshForward DEF FreshOrder, Kept
<1>7. CASE KeepLastKnownGood
  <2>1. Head(op.todo) = "keep" /\ archive' = archive /\ op' = NoOp
        /\ (disk' = [disk EXCEPT !["last-known-good"] = op.save] \/ disk' = disk)
    BY <1>7 DEF KeepLastKnownGood, Todo, ReplyWith
  <2>2. disk["last-known-good"] = Missing
    BY <2>1, FreshForward DEF FreshOrder, Generations
  <2> QED
    BY <1>1, <1>2, <2>1, <2>2 DEF Kept, FreshOrder, NoOp
<1>8. CASE Fail
  BY <1>8 DEF Fail, FreshOrder, NoOp, Kept
<1> QED
  BY <1>3, <1>4, <1>5, <1>6, <1>7, <1>8 DEF MainStep

(* Whatever else happens, a fresh start at work is not disturbed.          *)
LEMMA FreshOrderKept == TypeOK /\ FreshOrder /\ [Next]_vars => FreshOrder'
<1> SUFFICES ASSUME TypeOK, FreshOrder, [Next]_vars PROVE FreshOrder'
  OBVIOUS
<1>1. CASE Launch \/ UNCHANGED vars
  BY <1>1 DEF Launch, vars, FreshOrder
<1>2. CASE Crash
  BY <1>2 DEF Crash, NoOp, FreshOrder
<1>3. CASE Damage
  <2>1. PICK g \in Generations : Valid(g) /\ disk' = [disk EXCEPT ![g] = Corrupt]
    BY <1>3 DEF Damage
  <2>2. op' = op /\ disk \in [Generations -> Saves \cup {Missing, Corrupt}]
    BY <1>3 DEF Damage, TypeOK
  <2>3. \A h \in Generations : disk[h] = Missing => disk'[h] = Missing
    BY <2>1, <2>2, MarkersAssumption DEF Valid
  <2> QED
    BY <2>2, <2>3 DEF FreshOrder, Generations
<1>4. CASE Request
  <2>1. PICK kind, save : Begin(kind, save)
    BY <1>4 DEF Request, Commit, LifecycleCommit, RetryPendingCommit, FirstRunCommit,
                ConfirmBrowserImport, Restore, StartFresh
  <2> QED
    BY <2>1 DEF Begin, Plan, FreshOrder
<1>5. CASE MainStep
  <2>1. CASE op.kind = "fresh"
    BY <1>5, <2>1, FreshWorks
  <2>2. CASE op.kind # "fresh"
    <3>1. op'.kind # "fresh"
      BY <1>5, <2>2 DEF MainStep, ArchiveOne, RotatePrevious, ReplaceCurrent, VerifyCurrent,
           KeepLastKnownGood, ReplyWith, Fail, Done, NoOp, TypeOK
    <3> QED
      BY <3>1 DEF FreshOrder
  <2> QED
    BY <2>1, <2>2
<1> QED
  BY <1>1, <1>2, <1>3, <1>4, <1>5 DEF Next, Request

(* Starting afresh loses nothing that could be read, wherever it fails or  *)
(* the process dies: every generation is archived before the first write.  *)
THEOREM FreshStartKeeps == Spec => FreshStartKeepsEverything
<1> DEFINE Keeps == op.kind = "fresh" /\ corruptions' = corruptions => Kept \subseteq Kept'
<1>1. Init => FreshOrder
  BY DEF Init, NoOp, FreshOrder
<1>2. TypeOK /\ FreshOrder /\ [Next]_vars => [Keeps]_vars
  <2> SUFFICES ASSUME TypeOK, FreshOrder, Next, op.kind = "fresh", corruptions' = corruptions
               PROVE  Kept \subseteq Kept'
    BY DEF vars
  <2>1. CASE Launch \/ Crash \/ Request
    <3>1. disk' = disk /\ archive' = archive
      BY <2>1 DEF Launch, Crash, Request, Commit, LifecycleCommit, RetryPendingCommit,
           FirstRunCommit, ConfirmBrowserImport, Restore, StartFresh, Begin
    <3> QED
      BY <3>1 DEF Kept
  <2>2. CASE Damage
    BY <2>2 DEF Damage, TypeOK
  <2>3. CASE MainStep
    BY <2>3, FreshWorks
  <2> QED
    BY <2>1, <2>2, <2>3 DEF Next, Request
<1> QED
  BY <1>1, <1>2, FreshOrderKept, TypeCorrect, PTL DEF Spec, FreshStartKeepsEverything
-----------------------------------------------------------------------------
(* Why a receipt is durable.  Latest is what the acknowledged save may     *)
(* have become; Recent adds what it was before.  Undamaged, the current    *)
(* file or the archive holds one of Latest, and the previous generation or *)
(* the archive one of Recent -- of Latest, once the request at work has    *)
(* rotated; so damaging a single file leaves the other.                    *)
Latest == {acked} \cup attempted
Recent == Latest \cup before
Rotated == {<<"replace", "verify", "keep">>, <<"verify", "keep">>, <<"keep">>}
Written == {<<"verify", "keep">>, <<"keep">>}

InArchive(S) == archive \cap S # {}

Undamaged ==
  corruptions = 0 =>
    /\ \A g \in Generations : disk[g] # Corrupt
    /\ acked # Missing => disk["current"] \in Latest \/ InArchive(Latest)
    /\ before # {} => disk["previous"] \in Recent \/ InArchive(Recent)
    /\ acked # Missing /\ op.todo \in Rotated =>
         disk["previous"] \in Latest \/ InArchive(Latest)

OneDamaged ==
  corruptions = 1 =>
    /\ before # {} => Kept \cap Recent # {}
    /\ acked # Missing /\ op.todo \in Written =>
         \/ disk["current"] = op.save
         \/ disk["previous"] \in Latest \/ InArchive(Latest)

Durable ==
  /\ before # {} => acked # Missing
  /\ Undamaged
  /\ OneDamaged

(* What the invariant is for.                                              *)
LEMMA DurableMeans == TypeOK /\ Durable => ReceiptIsDurable
<1> SUFFICES ASSUME TypeOK, Durable, acked # Missing
             PROVE  /\ corruptions = 0 => Kept \cap ({acked} \cup attempted) # {}
                    /\ corruptions = 1 /\ before # {} =>
                         Kept \cap ({acked} \cup before \cup attempted) # {}
  BY DEF ReceiptIsDurable
<1>1. Latest \subseteq Saves
  BY DEF TypeOK, Latest
<1>2. ASSUME corruptions = 0
      PROVE  Kept \cap Latest # {}
  <2>1. CASE disk["current"] \in Latest
    BY <1>1, <2>1 DEF Kept, Generations
  <2>2. CASE InArchive(Latest)
    BY <1>1, <2>2 DEF Kept, InArchive
  <2> QED
    BY <1>2, <2>1, <2>2 DEF Durable, Undamaged
<1> QED
  BY <1>2 DEF Durable, OneDamaged, Latest, Recent

(* A request begins: more saves are requested, and nothing was rotated yet.*)
LEMMA DurableRequest == ASSUME TypeOK, Durable, Request PROVE Durable'
<1>1. PICK kind, save : Begin(kind, save)
  BY DEF Request, Commit, LifecycleCommit, RetryPendingCommit, FirstRunCommit,
         ConfirmBrowserImport, Restore, StartFresh
<1>2. /\ disk' = disk /\ archive' = archive /\ corruptions' = corruptions
      /\ acked' = acked /\ before' = before /\ attempted' = attempted \cup {save}
      /\ op'.todo = Plan(kind)
  BY <1>1 DEF Begin
<1>3. Latest \subseteq Latest' /\ Recent \subseteq Recent'
  BY <1>2 DEF Latest, Recent
<1>4. op'.todo \notin Rotated /\ op'.todo \notin Written
  BY <1>2 DEF Plan, Rotated, Written, WritePlan, ArchiveAndWrite, ArchiveAllAndWrite
<1>5. (InArchive(Latest) => InArchive(Latest)') /\ (InArchive(Recent) => InArchive(Recent)')
  BY <1>2, <1>3 DEF InArchive
<1>6. Undamaged'
  BY <1>2, <1>3, <1>4, <1>5 DEF Durable, Undamaged
<1>7. Kept' = Kept
  BY <1>2 DEF Kept
<1>8. OneDamaged'
  BY <1>2, <1>3, <1>4, <1>7 DEF Durable, OneDamaged
<1> QED
  BY <1>2, <1>6, <1>8 DEF Durable

(* Steps that write no file and acknowledge nothing.                       *)
LEMMA DurableIdle ==
  ASSUME TypeOK, Durable, Launch \/ Crash \/ Fail \/ UNCHANGED vars
  PROVE  Durable'
<1>1. /\ disk' = disk /\ archive' = archive /\ corruptions' = corruptions
      /\ acked' = acked /\ before' = before /\ attempted' = attempted
      /\ op' = op \/ op'.todo = <<>>
  BY DEF Launch, Crash, Fail, vars, history, NoOp
<1>2. Latest' = Latest /\ Recent' = Recent /\ Kept' = Kept
  BY <1>1 DEF Latest, Recent, Kept
<1>3. <<>> \notin Rotated /\ <<>> \notin Written
  BY DEF Rotated, Written
<1>4. Undamaged'
  BY <1>1, <1>2, <1>3 DEF Durable, Undamaged, InArchive
<1>5. OneDamaged'
  BY <1>1, <1>2, <1>3 DEF Durable, OneDamaged, InArchive
<1> QED
  BY <1>1, <1>4, <1>5 DEF Durable

(* The first damaged file leaves the other witness.                        *)
LEMMA DurableDamage == ASSUME IInv, Durable, Damage PROVE Durable'
<1>1. PICK g \in Generations : Valid(g) /\ disk' = [disk EXCEPT ![g] = Corrupt]
  BY DEF Damage
<1>2. /\ archive' = archive /\ corruptions' = corruptions + 1 /\ op' = op
      /\ acked' = acked /\ before' = before /\ attempted' = attempted
      /\ corruptions \in Nat /\ corruptions' # 0 /\ (corruptions' = 1 => corruptions = 0)
  BY SavesAssumption DEF Damage, history, IInv, TypeOK
<1>3. Latest' = Latest /\ Recent' = Recent /\ Latest \subseteq Recent
  BY <1>2 DEF Latest, Recent
<1>4. /\ "current" \in Generations /\ "previous" \in Generations /\ "current" # "previous"
      /\ \A h \in Generations : h # g => disk'[h] = disk[h]
  BY <1>1 DEF Generations, IInv, TypeOK
<1>5. ASSUME corruptions = 0, before # {}
      PROVE  Kept' \cap Recent # {}
  <2>1. Recent \subseteq Saves
    BY <1>5 DEF Recent, Latest, IInv, TypeOK, Durable
  <2>2. /\ disk["current"] \in Recent \/ InArchive(Recent)
        /\ disk["previous"] \in Recent \/ InArchive(Recent)
    BY <1>3, <1>5 DEF Durable, Undamaged, InArchive
  <2>3. CASE InArchive(Recent)
    BY <1>2, <2>1, <2>3 DEF InArchive, Kept
  <2>4. CASE disk["current"] \in Recent /\ disk["previous"] \in Recent
    <3>1. disk'["current"] \in Recent \/ disk'["previous"] \in Recent
      BY <1>4, <2>4
    <3> QED
      BY <1>4, <2>1, <3>1 DEF Kept
  <2> QED
    BY <2>2, <2>3, <2>4
<1>6. ASSUME corruptions = 0, acked # Missing, op.todo \in Written
      PROVE  \/ disk'["current"] = op.save
             \/ disk'["previous"] \in Latest \/ InArchive(Latest)
  <2>1. disk["current"] = op.save
    BY <1>4, <1>6 DEF IInv, Replaced, Written, Durable, Undamaged
  <2>2. disk["previous"] \in Latest \/ InArchive(Latest)
    BY <1>6 DEF Durable, Undamaged, Written, Rotated
  <2> QED
    BY <1>4, <2>1, <2>2
<1> QED
  BY <1>2, <1>3, <1>5, <1>6 DEF Durable, Undamaged, OneDamaged, InArchive

(* How far the request at work has got, before and after a step.           *)
LEMMA Progress ==
  ASSUME NEW todo \in Plans, todo # <<>>
  PROVE  /\ todo \in Rotated <=> Head(todo) \in {"replace", "verify", "keep"}
         /\ todo \in Written <=> Head(todo) \in {"verify", "keep"}
         /\ Tail(todo) \in Rotated <=> Head(todo) \in {"rotate", "replace", "verify"}
         /\ Tail(todo) \in Written <=> Head(todo) \in {"replace", "verify"}
<1> USE DEF Plans, WritePlan, ArchiveAndWrite, ArchiveAllAndWrite, Rotated, Written
<1>1. CASE todo = <<"keep">>
  BY <1>1
<1>2. CASE todo = <<"verify", "keep">>
  BY <1>2
<1>3. CASE todo = <<"replace", "verify", "keep">>
  BY <1>3
<1>4. CASE todo = WritePlan
  BY <1>4
<1>5. CASE todo = ArchiveAndWrite
  BY <1>5
<1>6. CASE todo = ArchiveAllAndWrite
  BY <1>6
<1>7. CASE todo = <<"last-known-good", "rotate", "replace", "verify", "keep">>
  BY <1>7
<1>8. CASE todo = <<"previous", "last-known-good", "rotate", "replace", "verify", "keep">>
  BY <1>8
<1> QED
  BY <1>1, <1>2, <1>3, <1>4, <1>5, <1>6, <1>7, <1>8

(* A file that is archived is still there to be found.                     *)
LEMMA DurableArchive == ASSUME IInv, Durable, NEW g \in Generations, ArchiveOne(g) PROVE Durable'
<1>1. /\ op.todo \in Plans /\ op.todo # <<>> /\ Head(op.todo) = g /\ op'.todo = Tail(op.todo)
      /\ disk \in [Generations -> Saves \cup {Missing, Corrupt}]
      /\ disk' = [disk EXCEPT ![g] = Missing]
      /\ archive' = archive \cup ({disk[g]} \ {Missing})
      /\ UNCHANGED <<corruptions, acked, before, attempted>>
  BY DEF ArchiveOne, Todo, Done, DuringWrite, history, IInv, TypeOK
<1>2. Latest' = Latest /\ Recent' = Recent
  BY <1>1 DEF Latest, Recent
<1>3. op'.todo \notin Rotated /\ op'.todo \notin Written
  BY <1>1, Progress DEF Generations
<1>4. /\ "current" \in Generations /\ "previous" \in Generations
      /\ Missing \notin Saves /\ Missing # Corrupt
  BY MarkersAssumption DEF Generations
<1>5. \A h \in Generations, S \in SUBSET Saves :
        disk[h] \in S \/ InArchive(S) => disk'[h] \in S \/ InArchive(S)'
  BY <1>1, <1>4 DEF InArchive
<1>6. acked # Missing => Latest \in SUBSET Saves /\ Recent \in SUBSET Saves
  BY DEF Latest, Recent, IInv, TypeOK
<1>7. \A h \in Generations : disk[h] # Corrupt => disk'[h] # Corrupt
  BY <1>1, <1>4
<1>8. Undamaged'
  <2>1. corruptions = 0 /\ acked # Missing => disk'["current"] \in Latest \/ InArchive(Latest)'
    BY <1>2, <1>4, <1>5, <1>6 DEF Durable, Undamaged, InArchive
  <2>2. corruptions = 0 /\ before # {} => disk'["previous"] \in Recent \/ InArchive(Recent)'
    BY <1>2, <1>4, <1>5, <1>6 DEF Durable, Undamaged, InArchive
  <2>3. corruptions = 0 => \A h \in Generations : disk'[h] # Corrupt
    BY <1>7 DEF Durable, Undamaged
  <2> QED
    BY <1>1, <1>2, <1>3, <2>1, <2>2, <2>3 DEF Undamaged, InArchive
<1>9. Kept \subseteq Kept'
  BY <1>1, <1>4 DEF Kept
<1>10. OneDamaged'
  BY <1>1, <1>2, <1>3, <1>9 DEF Durable, OneDamaged
<1> QED
  BY <1>1, <1>8, <1>10 DEF Durable

(* A valid current is one of Latest: rotating it puts a second copy there. *)
LEMMA DurableRotate == ASSUME IInv, Durable, RotatePrevious PROVE Durable'
<1>1. /\ op.todo \in Plans /\ op.todo # <<>> /\ Head(op.todo) = "rotate"
      /\ op'.todo = Tail(op.todo)
      /\ disk \in [Generations -> Saves \cup {Missing, Corrupt}]
      /\ disk' = [disk EXCEPT !["previous"] = IF Valid("current") THEN disk["current"] ELSE @]
      /\ UNCHANGED <<archive, corruptions, acked, before, attempted>>
  BY DEF RotatePrevious, Todo, Done, DuringWrite, history, IInv, TypeOK
<1>2. Latest' = Latest /\ Recent' = Recent /\ Latest \subseteq Recent
      /\ \A S : InArchive(S)' = InArchive(S)
  BY <1>1 DEF Latest, Recent, InArchive
<1>3. op'.todo \in Rotated /\ op'.todo \notin Written
  BY <1>1, Progress
<1>4. /\ "current" \in Generations /\ "previous" \in Generations /\ "current" # "previous"
      /\ Missing \notin Saves /\ Corrupt \notin Saves
  BY MarkersAssumption DEF Generations
<1>5. CASE Valid("current")
  <2>1. disk["current"] \in Latest /\ disk["current"] \in Saves
    BY <1>5 DEF IInv, CurrentIsLatest, Valid, Latest
  <2>2. disk'["current"] = disk["current"] /\ disk'["previous"] = disk["current"]
    BY <1>1, <1>4, <1>5
  <2>3. \A h \in Generations : disk[h] # Corrupt => disk'[h] # Corrupt
    BY <1>1, <1>4, <2>1
  <2>4. Undamaged'
    BY <1>1, <1>2, <2>1, <2>2, <2>3 DEF Durable, Undamaged
  <2>5. Kept' \cap Recent # {}
    BY <1>2, <1>4, <2>1, <2>2 DEF Kept
  <2>6. OneDamaged'
    BY <1>2, <1>3, <2>5 DEF OneDamaged
  <2> QED
    BY <1>1, <2>4, <2>6 DEF Durable
<1>6. CASE ~Valid("current")
  <2>1. disk' = disk
    BY <1>1, <1>6
  <2>2. disk["current"] \notin Saves
    BY <1>6 DEF Valid
  <2>3. acked # Missing => Latest \subseteq Saves
    BY DEF Latest, IInv, TypeOK
  <2>4. corruptions = 0 /\ acked # Missing => InArchive(Latest)
    BY <2>2, <2>3 DEF Durable, Undamaged
  <2>5. Undamaged'
    BY <1>1, <1>2, <2>1, <2>4 DEF Durable, Undamaged
  <2>6. OneDamaged'
    BY <1>1, <1>2, <1>3, <2>1 DEF Durable, OneDamaged, Kept
  <2> QED
    BY <1>1, <2>5, <2>6 DEF Durable
<1> QED
  BY <1>5, <1>6

(* The new current is a save requested since the receipt.                  *)
LEMMA DurableReplace == ASSUME IInv, Durable, ReplaceCurrent PROVE Durable'
<1>1. /\ op.todo \in Plans /\ op.todo # <<>> /\ Head(op.todo) = "replace"
      /\ op'.todo = Tail(op.todo) /\ op'.save = op.save
      /\ disk \in [Generations -> Saves \cup {Missing, Corrupt}]
      /\ disk' = [disk EXCEPT !["current"] = op.save]
      /\ op.save \in attempted /\ op.save \in Saves
      /\ UNCHANGED <<archive, corruptions, acked, before, attempted>>
  BY DEF ReplaceCurrent, Todo, Done, DuringWrite, history, IInv, TypeOK, Requested
<1>2. Latest' = Latest /\ Recent' = Recent /\ op.save \in Latest /\ op.save \in Recent
      /\ \A S : InArchive(S)' = InArchive(S)
  BY <1>1 DEF Latest, Recent, InArchive
<1>3. op.todo \in Rotated
  BY <1>1, Progress
<1>4. /\ "current" \in Generations /\ "previous" \in Generations
      /\ disk'["current"] = op.save /\ disk'["previous"] = disk["previous"]
      /\ \A h \in Generations : disk[h] # Corrupt => disk'[h] # Corrupt
  BY <1>1, MarkersAssumption DEF Generations
<1>5. Undamaged'
  BY <1>1, <1>2, <1>3, <1>4 DEF Durable, Undamaged
<1>6. Kept' \cap Recent # {}
  BY <1>1, <1>2, <1>4 DEF Kept
<1>7. OneDamaged'
  BY <1>1, <1>2, <1>4, <1>6 DEF OneDamaged
<1> QED
  BY <1>1, <1>5, <1>7 DEF Durable

(* Reading the current file back takes no witness away.                    *)
LEMMA DurableVerify == ASSUME IInv, Durable, VerifyCurrent PROVE Durable'
<1>1. /\ op.todo \in Plans /\ op.todo # <<>> /\ Head(op.todo) = "verify"
      /\ op'.todo = Tail(op.todo) /\ op'.save = op.save
      /\ UNCHANGED <<disk, archive, corruptions, acked, before, attempted>>
  BY DEF VerifyCurrent, Todo, Done, DuringWrite, history, IInv, TypeOK
<1>2. Latest' = Latest /\ Recent' = Recent /\ Kept' = Kept
      /\ \A S : InArchive(S)' = InArchive(S)
  BY <1>1 DEF Latest, Recent, InArchive, Kept
<1>3. op.todo \in Rotated /\ op.todo \in Written
  BY <1>1, Progress
<1>4. Undamaged'
  BY <1>1, <1>2, <1>3 DEF Durable, Undamaged
<1>5. OneDamaged'
  BY <1>1, <1>2, <1>3 DEF Durable, OneDamaged
<1> QED
  BY <1>1, <1>4, <1>5 DEF Durable

(* The receipt: current holds the save it is for, or the generation it     *)
(* replaced was kept.                                                      *)
LEMMA DurableReceipt == ASSUME IInv, Durable, KeepLastKnownGood PROVE Durable'
<1>1. /\ op.todo \in Plans /\ op.todo # <<>> /\ Head(op.todo) = "keep" /\ op' = NoOp
      /\ disk \in [Generations -> Saves \cup {Missing, Corrupt}] /\ op.save \in Saves
      /\ disk' = [disk EXCEPT !["last-known-good"] = op.save] \/ disk' = disk
      /\ acked' = op.save /\ attempted' = {}
      /\ before' = IF acked = Missing THEN {} ELSE Latest
      /\ UNCHANGED <<archive, corruptions>>
  BY DEF KeepLastKnownGood, ReplyWith, Todo, IInv, TypeOK, Latest
<1>2. op.todo = <<"keep">> /\ op.todo \in Rotated /\ op.todo \in Written
  BY <1>1, Remaining, Progress
<1>3. /\ "current" \in Generations /\ "previous" \in Generations
      /\ disk'["current"] = disk["current"] /\ disk'["previous"] = disk["previous"]
      /\ \A h \in Generations : disk[h] # Corrupt => disk'[h] # Corrupt
      /\ Missing \notin Saves
  BY <1>1, MarkersAssumption DEF Generations
<1>4. disk["current"] \in {op.save, Corrupt}
  BY <1>2 DEF IInv, Replaced
<1>5. /\ Latest' = {op.save} /\ op'.todo \notin Rotated /\ op'.todo \notin Written
      /\ acked' # Missing /\ (before' # {} => acked # Missing /\ Recent' = {op.save} \cup Latest)
      /\ \A S : (archive' \cap S # {}) = InArchive(S)
  BY <1>1, <1>3 DEF Latest, Recent, NoOp, Rotated, Written, InArchive
<1>6. acked # Missing => Latest \subseteq Saves
  BY DEF Latest, IInv, TypeOK
<1>7. ASSUME corruptions = 0
      PROVE  /\ \A h \in Generations : disk'[h] # Corrupt
             /\ disk'["current"] \in Latest'
             /\ before' # {} => disk'["previous"] \in Recent' \/ archive' \cap Recent' # {}
  <2>1. disk["current"] = op.save /\ \A h \in Generations : disk'[h] # Corrupt
    BY <1>3, <1>4, <1>7 DEF Durable, Undamaged
  <2>2. acked # Missing => disk["previous"] \in Latest \/ InArchive(Latest)
    BY <1>2, <1>7 DEF Durable, Undamaged
  <2> QED
    BY <1>1, <1>3, <1>5, <2>1, <2>2 DEF InArchive
<1>8. Undamaged'
  BY <1>1, <1>5, <1>7 DEF Undamaged, InArchive
<1>9. ASSUME corruptions = 1, before' # {}
      PROVE  Kept' \cap Recent' # {}
  <2>1. disk["current"] = op.save \/ disk["previous"] \in Latest \/ InArchive(Latest)
    BY <1>2, <1>5, <1>9 DEF Durable, OneDamaged
  <2>2. Recent' = {op.save} \cup Latest /\ Recent' \subseteq Saves
    BY <1>1, <1>5, <1>6, <1>9
  <2>3. disk'["current"] \in Recent' \/ disk'["previous"] \in Recent' \/ archive' \cap Recent' # {}
    BY <1>1, <1>3, <2>1, <2>2 DEF InArchive
  <2> QED
    BY <1>3, <2>2, <2>3 DEF Kept
<1>10. OneDamaged'
  BY <1>1, <1>5, <1>9 DEF OneDamaged
<1> QED
  BY <1>5, <1>8, <1>10 DEF Durable

(* A receipt survives any failed write, any crash and, from the second on, *)
(* any one damaged file, for every number of saves.                        *)
THEOREM ReceiptHolds == Spec => []ReceiptIsDurable
<1>1. Init => Durable
  <2> SUFFICES ASSUME Init PROVE Durable
    OBVIOUS
  <2>1. /\ acked = Missing /\ before = {} /\ corruptions = 0
        /\ \A g \in Generations : disk[g] = Missing
    BY DEF Init
  <2> QED
    BY <2>1, MarkersAssumption DEF Durable, Undamaged, OneDamaged
<1>2. IInv /\ Durable /\ [Next]_vars => Durable'
  <2> SUFFICES ASSUME IInv, TypeOK, Durable, [Next]_vars PROVE Durable'
    BY DEF IInv
  <2>1. CASE Launch \/ Crash \/ Fail \/ UNCHANGED vars
    BY <2>1, DurableIdle
  <2>2. CASE Damage
    BY <2>2, DurableDamage
  <2>3. CASE Request
    BY <2>3, DurableRequest
  <2>4. CASE MainStep
    BY <2>1, <2>4, DurableArchive, DurableRotate, DurableReplace, DurableVerify, DurableReceipt
       DEF MainStep
  <2> QED
    BY <2>1, <2>2, <2>3, <2>4 DEF Next, Request
<1>3. IInv /\ Durable => ReceiptIsDurable
  BY DurableMeans DEF IInv
<1> QED
  BY <1>1, <1>2, <1>3, SaveInvariant, PTL DEF Spec
=============================================================================
