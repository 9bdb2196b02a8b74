---------------------------- MODULE SaveTransfer ----------------------------
(***************************************************************************)
(* Commits, imports and resets between the renderer                        *)
(* (src/src/lib/durablePersistence.ts, SaveDataControls.tsx, App.tsx) and  *)
(* the main process (electron/main.cjs, electron/save-transfer.cjs), which *)
(* answers requests one after the other while the renderer goes on.        *)
(*                                                                         *)
(* An import or reset is previewed first and confirmed with the token of   *)
(* its preview.  The three generation files are one register here: how a   *)
(* write survives a crash is SaveStore's subject; that a write may fail,   *)
(* with the new save in place or not, is kept.                             *)
(***************************************************************************)
EXTENDS Integers, Sequences

CONSTANTS
  Settings, Progress,  \* the values of a save's two halves
  Fresh,               \* DEFAULT_PROGRESS
  MaxCommits, MaxOps, MaxEdits,  \* bounds: commits, uses of the save controls, edits of the file
  MaxFlight            \* bound on requests under way

Saves == [settings : Settings, progress : Progress]

ASSUME TransferAssumption ==
  /\ Fresh \in Progress /\ Settings # {}
  /\ {MaxCommits, MaxOps, MaxEdits, MaxFlight} \subseteq Nat

VARIABLES
  memory,    \* the settings and progress App renders
  commits,   \* commits made; each is its number
  pending,   \* pendingCommit: [id, save], or None
  loading,   \* startup.kind = "loading"
  failed,    \* saveFailure is shown
  panel,     \* the preview SaveDataControls shows: [kind, token], or None
  ops, busy, \* its operations so far, and the one it waits for, or 0
  choosing,  \* operations whose file dialog is open
  requests, replies,  \* under way between the processes, in order
  disk,      \* the save on disk
  archive,   \* saves archived before a reset
  file,      \* the file the player imports: [save, version]
  tokens,    \* save-transfer.cjs: pending, by token [kind, save, seen]
  window,    \* "open", "asked", "dialog" or "closed"
  spent,     \* history: the tokens that have written
  crossed    \* history: an import or reset and a commit were under way together, or the
             \* import or reset failed when it had written; until the next commit

controls == <<panel, busy>>
renderer == <<memory, commits, pending, loading, failed, controls, ops, choosing>>
main == <<disk, archive, tokens, spent>>
vars == <<renderer, requests, replies, main, file, window, crossed>>

None == [id |-> 0]
NoPreview == [kind |-> "none", token |-> 0]
Idle == 0

(* SaveDataControls is on the screen.                                      *)
Shown == window # "closed" /\ ~loading /\ ~failed
Alive == window # "closed"
Room == Len(requests) + Len(replies) < MaxFlight

AtRest == requests = <<>> /\ replies = <<>>

(* An import or reset is on its way to the disk, or back to memory.        *)
Crosses(message) == message.kind \in {"import", "reset", "probe"}
Crossing ==
  \/ \E i \in DOMAIN requests : Crosses(requests[i])
  \/ \E i \in DOMAIN replies : Crosses(replies[i])

-----------------------------------------------------------------------------
Init ==
  /\ disk \in Saves /\ memory = disk /\ disk.progress # Fresh
  /\ commits = 0 /\ pending = None /\ loading = FALSE /\ failed = FALSE
  /\ panel = NoPreview /\ ops = 0 /\ busy = Idle /\ choosing = {}
  /\ requests = <<>> /\ replies = <<>>
  /\ archive = {} /\ tokens = <<>> /\ window = "open"
  /\ file \in [save : Saves \ {disk}, version : {0}]
  /\ spent = {} /\ crossed = FALSE

-----------------------------------------------------------------------------
(* The renderer: persistBoundary, commitBoundary and writePending.         *)
CommitOf(save) == [kind |-> "commit", id |-> commits + 1, save |-> save]

Send(save) ==
  /\ commits < MaxCommits /\ commits' = commits + 1
  /\ pending' = [id |-> commits + 1, save |-> save]
  /\ crossed' = Crossing

(* updateProgress, updateSettings: rendered at once, then committed.       *)
Change ==
  /\ Shown /\ Room
  /\ \E save \in Saves \ {memory} :
       /\ save.settings = memory.settings \/ save.progress = memory.progress
       /\ memory' = save /\ Send(save) /\ requests' = Append(requests, CommitOf(save))
  /\ UNCHANGED <<loading, failed, controls, ops, choosing, replies, main, file, window>>

(* The system suspends, or the game is about to quit: whatever is in       *)
(* memory is committed, during a reload too.                               *)
CommitLifecycle ==
  /\ Alive /\ Room
  /\ Send(memory) /\ requests' = Append(requests, CommitOf(memory))
  /\ UNCHANGED <<memory, loading, failed, controls, ops, choosing, replies, main, file, window>>

(* "Retry" on the failure screen: nothing stops a second press.            *)
RetryPendingCommit ==
  /\ Alive /\ failed /\ ~loading /\ Room
  /\ IF pending = None THEN UNCHANGED requests
     ELSE requests' =
            Append(requests, [kind |-> "commit", id |-> pending.id, save |-> pending.save])
  /\ UNCHANGED <<renderer, replies, main, file, window, crossed>>

(* The buttons of SaveDataControls wait for one operation at a time.       *)
StartOperation == Shown /\ busy = Idle /\ ops < MaxOps /\ ops' = ops + 1 /\ busy' = ops + 1

PrepareImport ==
  /\ StartOperation /\ choosing' = choosing \cup {ops + 1}
  /\ UNCHANGED <<memory, commits, pending, loading, failed, panel, requests, replies, main,
                 file, window, crossed>>

PrepareReset ==
  /\ StartOperation /\ Room
  /\ requests' = Append(requests, [kind |-> "prepareReset", op |-> ops + 1])
  /\ UNCHANGED <<memory, commits, pending, loading, failed, panel, choosing, replies, main,
                 file, window, crossed>>

ConfirmPending ==
  /\ StartOperation /\ Room /\ panel # NoPreview
  /\ requests' = Append(requests, [kind |-> panel.kind, op |-> ops + 1, token |-> panel.token])
  /\ crossed' = (crossed \/ pending # None)
  /\ UNCHANGED <<memory, commits, pending, loading, failed, panel, choosing, replies, main,
                 file, window>>

CancelPreview ==
  /\ Shown /\ panel # NoPreview /\ busy = Idle
  /\ panel' = NoPreview
  /\ UNCHANGED <<memory, commits, pending, loading, failed, ops, busy, choosing, requests,
                 replies, main, file, window, crossed>>

(* Back to the menu: the component unmounts and forgets what it waits for. *)
LeaveSettings ==
  /\ Shown /\ (panel # NoPreview \/ busy # Idle)
  /\ panel' = NoPreview /\ busy' = Idle
  /\ UNCHANGED <<memory, commits, pending, loading, failed, ops, choosing, requests, replies,
                 main, file, window, crossed>>

-----------------------------------------------------------------------------
(* The main process.                                                       *)
Take(kind) == Alive /\ requests # <<>> /\ Head(requests).kind = kind /\ requests' = Tail(requests)
Answer(reply) == replies' = Append(replies, reply)
ReplyTo(request, ok) == [kind |-> request.kind, op |-> request.op, ok |-> ok]

(* save:commitAutosave; an error may come after the new save is in place.  *)
ServeCommit ==
  /\ Take("commit")
  /\ \E ok \in BOOLEAN :
       /\ Answer([kind |-> "commit", id |-> Head(requests).id, ok |-> ok])
       /\ \/ disk' = Head(requests).save
          \/ ~ok /\ UNCHANGED disk
  /\ UNCHANGED <<renderer, archive, tokens, spent, file, window, crossed>>

(* issueToken: the operation's number stands for its random token.         *)
Issued(token, entry) ==
  [t \in DOMAIN tokens \cup {token} |-> IF t = token THEN entry ELSE tokens[t]]

(* save:prepareImport: the dialog is closed with a file, or without one.   *)
ChooseFile ==
  \E op \in choosing :
    /\ Alive /\ Room /\ choosing' = choosing \ {op}
    /\ \/ /\ tokens' = Issued(op, [kind |-> "import", save |-> file.save,
                                   seen |-> file.version])
          /\ Answer([kind |-> "import-preview", op |-> op, ok |-> TRUE])
       \/ /\ Answer([kind |-> "import-preview", op |-> op, ok |-> FALSE])
          /\ UNCHANGED tokens
    /\ UNCHANGED <<memory, commits, pending, loading, failed, controls, ops, requests, disk,
                   archive, spent, file, window, crossed>>

ResetOf(save) == [settings |-> save.settings, progress |-> Fresh]

ServePrepareReset ==
  /\ Take("prepareReset")
  /\ LET op == Head(requests).op IN
       /\ tokens' = Issued(op, [kind |-> "reset", save |-> ResetOf(disk), seen |-> disk])
       /\ Answer([kind |-> "reset-preview", op |-> op, ok |-> TRUE])
  /\ UNCHANGED <<renderer, disk, archive, spent, file, window, crossed>>

(* consumeToken: gone whatever it was for.                                 *)
Without(token) == [t \in DOMAIN tokens \ {token} |-> tokens[t]]
Good(token, kind) == token \in DOMAIN tokens /\ tokens[token].kind = kind

(* The write of a confirmed save; it may fail with the save in place.      *)
Written(token, ok) ==
  /\ disk' = tokens[token].save /\ spent' = spent \cup {token}
  /\ crossed' = (crossed \/ ~ok)

Unchanged_Trusted(token) == TRUE   \* mutant
Unchanged(token) == tokens[token].seen = file.version
ServeConfirmImport ==
  /\ Take("import")
  /\ LET request == Head(requests)
         token == request.token
     IN /\ tokens' = Without(token)
        /\ IF Good(token, "import") /\ Unchanged(token)
           THEN \E ok \in BOOLEAN :
                  /\ Answer(ReplyTo(request, ok))
                  /\ \/ Written(token, ok)
                     \/ ~ok /\ UNCHANGED <<disk, spent, crossed>>
           ELSE Answer(ReplyTo(request, FALSE)) /\ UNCHANGED <<disk, spent, crossed>>
  /\ UNCHANGED <<renderer, archive, file, window>>

(* The save is archived before it is written over.                         *)
Archived == archive' = archive \cup {disk}
Current(token) == tokens[token].seen = disk
ServeConfirmReset ==
  /\ Take("reset")
  /\ LET request == Head(requests)
         token == request.token
     IN /\ tokens' = Without(token)
        /\ IF Good(token, "reset") /\ Current(token)
           THEN \E ok \in BOOLEAN :
                  /\ Answer(ReplyTo(request, ok))
                  /\ \/ Archived /\ Written(token, ok)
                     \/ ~ok /\ (Archived \/ UNCHANGED archive) /\ UNCHANGED <<disk, spent, crossed>>
           ELSE Answer(ReplyTo(request, FALSE)) /\ UNCHANGED <<disk, archive, spent, crossed>>
  /\ UNCHANGED <<renderer, file, window>>

ServeProbe ==
  /\ Take("probe")
  /\ Answer([kind |-> "probe", op |-> Head(requests).op, save |-> disk])
  /\ UNCHANGED <<renderer, main, file, window, crossed>>

-----------------------------------------------------------------------------
(* The renderer: what a reply resolves.                                    *)
Receive(kind) ==
  Alive /\ replies # <<>> /\ Head(replies).kind = kind /\ replies' = Tail(replies)

PendingAfter_AnyReceipt(reply) == IF reply.ok THEN None ELSE pending   \* mutant
PendingAfter(reply) == IF reply.ok /\ pending.id = reply.id THEN None ELSE pending

(* A failed commit takes the screen, and SaveDataControls off it.          *)
CommitResolved ==
  /\ Receive("commit")
  /\ LET reply == Head(replies) IN
       /\ pending' = PendingAfter(reply)
       /\ failed' = ~reply.ok
       /\ IF reply.ok THEN UNCHANGED controls ELSE panel' = NoPreview /\ busy' = Idle
  /\ UNCHANGED <<memory, commits, loading, ops, choosing, requests, main, file, window, crossed>>

KindOf(preview) == IF preview = "import-preview" THEN "import" ELSE "reset"
PreviewResolved ==
  \E kind \in {"import-preview", "reset-preview"} :
    /\ Receive(kind)
    /\ LET reply == Head(replies) IN
         IF busy # reply.op THEN UNCHANGED controls
         ELSE /\ busy' = Idle
              /\ panel' = IF reply.ok THEN [kind |-> KindOf(kind), token |-> reply.op] ELSE panel
    /\ UNCHANGED <<memory, commits, pending, loading, failed, ops, choosing, requests, main,
                   file, window, crossed>>

(* After a success everything is loaded again, whether or not the controls *)
(* are still there.                                                        *)
ConfirmResolved ==
  \E kind \in {"import", "reset"} :
    /\ Receive(kind)
    /\ LET reply == Head(replies) IN
         IF reply.ok
         THEN /\ loading' = TRUE /\ panel' = NoPreview /\ busy' = Idle
              /\ requests' = Append(requests, [kind |-> "probe", op |-> reply.op])
         ELSE /\ busy' = IF busy = reply.op THEN Idle ELSE busy
              /\ UNCHANGED <<loading, panel, requests>>
    /\ UNCHANGED <<memory, commits, pending, failed, ops, choosing, main, file, window, crossed>>

Loaded ==
  /\ Receive("probe")
  /\ memory' = Head(replies).save /\ loading' = FALSE
  /\ UNCHANGED <<commits, pending, failed, controls, ops, choosing, requests, main, file,
                 window, crossed>>

-----------------------------------------------------------------------------
(* beginCloseHandshake: the renderer commits, and reports in the same      *)
(* breath whether a commit is pending.                                     *)
CloseClicked ==
  /\ window = "open" /\ window' = "asked"
  /\ UNCHANGED <<renderer, requests, replies, main, file, crossed>>

ReportCloseState ==
  /\ window = "asked" /\ Len(requests) + Len(replies) < MaxFlight - 1
  /\ \A i \in DOMAIN requests : requests[i].kind # "report"
  /\ Send(memory)
  /\ requests' = Append(Append(requests, CommitOf(memory)),
                        [kind |-> "report", unsaved |-> pending'.id # 0])
  /\ UNCHANGED <<memory, loading, failed, controls, ops, choosing, replies, main, file, window>>

ServeReport ==
  /\ Take("report")
  /\ window' = IF window # "asked" THEN window
               ELSE IF Head(requests).unsaved THEN "dialog" ELSE "closed"
  /\ UNCHANGED <<renderer, replies, main, file, crossed>>

CloseTimeout ==
  /\ window = "asked" /\ window' = "closed"
  /\ UNCHANGED <<renderer, requests, replies, main, file, crossed>>

AnswerDialog ==
  /\ window = "dialog" /\ window' \in {"open", "closed"}
  /\ UNCHANGED <<renderer, requests, replies, main, file, crossed>>

-----------------------------------------------------------------------------
(* Outside: the file is saved again with other progress.                   *)
FileEdited ==
  /\ Alive /\ file.version < MaxEdits
  /\ \E progress \in Progress \ {file.save.progress} :
       file' = [save |-> [file.save EXCEPT !.progress = progress], version |-> file.version + 1]
  /\ UNCHANGED <<renderer, requests, replies, main, window, crossed>>

(* Five minutes after its preview a token is as good as none.              *)
Expire ==
  /\ Alive
  /\ \E token \in DOMAIN tokens : tokens' = Without(token)
  /\ UNCHANGED <<renderer, requests, replies, disk, archive, spent, file, window, crossed>>

-----------------------------------------------------------------------------
Next ==
  \/ Change \/ CommitLifecycle \/ RetryPendingCommit
  \/ PrepareImport \/ PrepareReset \/ ConfirmPending \/ CancelPreview \/ LeaveSettings
  \/ ServeCommit \/ ChooseFile \/ ServePrepareReset \/ ServeConfirmImport
  \/ ServeConfirmReset \/ ServeProbe
  \/ CommitResolved \/ PreviewResolved \/ ConfirmResolved \/ Loaded
  \/ CloseClicked \/ ReportCloseState \/ ServeReport \/ CloseTimeout \/ AnswerDialog
  \/ FileEdited \/ Expire

Spec == Init /\ [][Next]_vars

(* An import puts on disk what the file holds at that moment, and a reset  *)
(* keeps the settings of the save it replaces, which is in the archive;    *)
(* each on one confirmation of its own, whatever was committed, edited,    *)
(* previewed or failed since the preview (confirmImport and                *)
(* confirmProgressReset of save-transfer.cjs).                             *)
WritesAsConfirmed ==
  [][ disk' # disk /\ Head(requests).kind # "commit" =>
        LET request == Head(requests) IN
          /\ request.token \notin spent
          /\ IF request.kind = "import" THEN disk' = file.save
             ELSE disk' = ResetOf(disk) /\ disk \in archive' ]_vars

(* When the renderer knows of nothing unsaved, the disk has what the game  *)
(* shows: no receipt of an older commit clears a newer one, no retry puts  *)
(* an older save over a newer one, and what was imported or reset is what  *)
(* was loaded -- unless a commit and an import or reset crossed each other *)
(* (writePending and retryPendingCommit of durablePersistence.ts).         *)
NothingPendingIsSaved ==
  AtRest /\ pending = None /\ ~crossed => disk = memory

(* The dialog about unsaved progress is shown only when closing would lose *)
(* something: the renderer is to "report whether scored progress would be  *)
(* abandoned, then confirm before an unsaved-progress close"               *)
(* (electron/main.cjs:240).                                                *)
AsksOnlyIfUnsaved == window = "dialog" => disk # memory
=============================================================================
