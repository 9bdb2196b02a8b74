-------------------------- MODULE SaveTransferProofs --------------------------
(***************************************************************************)
(* Theorems about SaveTransfer, for any number of commits, operations,     *)
(* edits of the file and requests under way: an import or reset that was   *)
(* confirmed writes what its preview was made from, and once; and what is  *)
(* not pending is on disk.                                                 *)
(*                                                                         *)
(* Two facts carry the first.  An operation's number is in one place at a  *)
(* time -- an open dialog, a request for a preview, an issued token, a     *)
(* token that has written -- so no token comes back (OnePlace).  And what  *)
(* a token would write belongs to the version of the file, or the save, it *)
(* was issued for (TokensHold).                                            *)
(*                                                                         *)
(* The second needs what every message under way will do (SavedInv):       *)
(* commits are in the order of their numbers, retries included; and unless *)
(* a commit crossed an import or reset, none is behind one, and the last   *)
(* answer to the question what is on disk is what is on disk.              *)
(***************************************************************************)
EXTENDS SaveTransfer, SequenceTheorems, TLAPS

Requests ==
  [kind : {"commit"}, id : Nat, save : Saves]
    \cup [kind : {"prepareReset"}, op : Nat]
    \cup [kind : {"import", "reset"}, op : Nat, token : Nat]
    \cup [kind : {"probe"}, op : Nat]
    \cup [kind : {"report"}, unsaved : BOOLEAN]
Replies ==
  [kind : {"commit"}, id : Nat, ok : BOOLEAN]
    \cup [kind : {"import-preview", "reset-preview", "import", "reset"}, op : Nat, ok : BOOLEAN]
    \cup [kind : {"probe"}, op : Nat, save : Saves]

RendererOK ==
  /\ memory \in Saves /\ commits \in Nat /\ ops \in Nat
  /\ pending = None \/ pending \in [id : Nat, save : Saves]
  /\ panel = NoPreview \/ panel \in [kind : {"import", "reset"}, token : Nat]
  /\ choosing \subseteq Nat
QueuesOK == requests \in Seq(Requests) /\ replies \in Seq(Replies)
DiskOK == disk \in Saves /\ file \in [save : Saves, version : Nat]

(* The operations whose previews of a reset are asked for.                 *)
IsAsk(request) == request.kind = "prepareReset"
Asked(s) == {s[i].op : i \in {j \in DOMAIN s : IsAsk(s[j])}}
AskedOnce(s) ==
  \A i, j \in DOMAIN s : IsAsk(s[i]) /\ IsAsk(s[j]) /\ s[i].op = s[j].op => i = j

Entries ==
  [kind : {"import"}, save : Saves, seen : Nat] \cup [kind : {"reset"}, save : Saves, seen : Saves]
TokensOK == tokens \in [DOMAIN tokens -> Entries]

OnePlace ==
  /\ AskedOnce(requests)
  /\ choosing \cup Asked(requests) \cup DOMAIN tokens \cup spent \subseteq 1..ops
  /\ choosing \cap Asked(requests) = {}
  /\ choosing \cap DOMAIN tokens = {} /\ choosing \cap spent = {}
  /\ Asked(requests) \cap DOMAIN tokens = {} /\ Asked(requests) \cap spent = {}
  /\ DOMAIN tokens \cap spent = {}

Holds(entry) ==
  IF entry.kind = "import"
  THEN entry.seen <= file.version /\ (entry.seen = file.version => entry.save = file.save)
  ELSE entry.save = ResetOf(entry.seen)
TokensHold == \A token \in DOMAIN tokens : Holds(tokens[token])

TypeInv == RendererOK /\ QueuesOK /\ DiskOK /\ TokensOK
IInv == TypeInv /\ OnePlace /\ TokensHold

-----------------------------------------------------------------------------
(* What a request that is sent or taken does to the operations asked for.  *)
LEMMA AskedAfterAppend ==
  ASSUME NEW s \in Seq(Requests), NEW e \in Requests
  PROVE  /\ Append(s, e) \in Seq(Requests)
         /\ ~IsAsk(e) => Asked(Append(s, e)) = Asked(s)
         /\ IsAsk(e) => Asked(Append(s, e)) = Asked(s) \cup {e.op}
         /\ AskedOnce(s) /\ (IsAsk(e) => e.op \notin Asked(s)) => AskedOnce(Append(s, e))
<1> DEFINE t == Append(s, e)
<1>1. t \in Seq(Requests) /\ Len(t) = Len(s) + 1 /\ Len(s) \in Nat
  OBVIOUS
<1>2. DOMAIN s = 1..Len(s) /\ DOMAIN t = 1..(Len(s) + 1)
  BY <1>1
<1>3. \A i \in DOMAIN s : i \in DOMAIN t /\ t[i] = s[i]
  BY <1>1, <1>2
<1>4. Len(s) + 1 \in DOMAIN t /\ t[Len(s) + 1] = e
  BY <1>1, <1>2
<1>5. \A i \in DOMAIN t : i \in DOMAIN s \/ i = Len(s) + 1
  BY <1>1, <1>2
<1> HIDE DEF t
<1>6. ~IsAsk(e) => Asked(t) = Asked(s)
  BY <1>3, <1>4, <1>5 DEF Asked
<1>7. IsAsk(e) => Asked(t) = Asked(s) \cup {e.op}
  BY <1>3, <1>4, <1>5 DEF Asked
<1>8. AskedOnce(s) /\ (IsAsk(e) => e.op \notin Asked(s)) => AskedOnce(t)
  BY <1>3, <1>4, <1>5 DEF Asked, AskedOnce
<1> QED BY <1>1, <1>6, <1>7, <1>8 DEF t

(* Taking a request drops what it asked for, and nothing else comes.       *)
LEMMA AskedAfterTail ==
  ASSUME NEW s \in Seq(Requests), s # <<>>
  PROVE  /\ Tail(s) \in Seq(Requests) /\ Head(s) \in Requests
         /\ Asked(Tail(s)) \subseteq Asked(s)
         /\ AskedOnce(s) => AskedOnce(Tail(s))
         /\ AskedOnce(s) /\ IsAsk(Head(s)) => Head(s).op \in Asked(s) \ Asked(Tail(s))
<1> DEFINE t == Tail(s)
<1>1. t \in Seq(Requests) /\ Len(t) = Len(s) - 1 /\ Len(s) \in Nat /\ Len(s) > 0
  OBVIOUS
<1>2. DOMAIN s = 1..Len(s) /\ DOMAIN t = 1..(Len(s) - 1)
  BY <1>1
<1>3. \A i \in DOMAIN t : i + 1 \in DOMAIN s /\ t[i] = s[i + 1] /\ i + 1 # 1
  BY <1>1, <1>2
<1>4. 1 \in DOMAIN s /\ Head(s) = s[1] /\ Head(s) \in Requests
  BY <1>1, <1>2
<1>5. \A i, j \in DOMAIN t : i + 1 = j + 1 => i = j
  BY <1>2
<1> HIDE DEF t
<1>6. Asked(t) \subseteq Asked(s)
  BY <1>3 DEF Asked
<1>7. AskedOnce(s) => AskedOnce(t)
  BY <1>3, <1>5 DEF AskedOnce
<1>8. AskedOnce(s) /\ IsAsk(Head(s)) => Head(s).op \in Asked(s) /\ Head(s).op \notin Asked(t)
  BY <1>3, <1>4 DEF AskedOnce, Asked
<1> QED BY <1>1, <1>4, <1>6, <1>7, <1>8 DEF t

(* A step that asks for nothing new.                                       *)
Narrows ==
  AskedOnce(requests) => AskedOnce(requests') /\ Asked(requests') \subseteq Asked(requests)

(* A request that is sent keeps the type; only a "prepareReset" asks.      *)
LEMMA Sent ==
  ASSUME QueuesOK, NEW e \in Requests, requests' = Append(requests, e)
  PROVE  requests' \in Seq(Requests) /\ (~IsAsk(e) => Narrows)
BY AskedAfterAppend DEF QueuesOK, Narrows

(* A request that is taken has the kind it was taken for.                  *)
LEMMA Taken ==
  ASSUME QueuesOK, NEW kind, Take(kind)
  PROVE  /\ requests' \in Seq(Requests) /\ Narrows
         /\ Head(requests) \in Requests /\ Head(requests).kind = kind
BY AskedAfterTail DEF QueuesOK, Narrows, Take

(* When no request moves, nothing is asked for.                            *)
LEMMA Stayed ==
  ASSUME QueuesOK, requests' = requests PROVE requests' \in Seq(Requests) /\ Narrows
BY DEF QueuesOK, Narrows

(* A reply that is sent keeps the type.                                    *)
LEMMA Answered ==
  ASSUME QueuesOK, NEW e \in Replies, replies' = Append(replies, e) PROVE replies' \in Seq(Replies)
BY DEF QueuesOK

(* A reply that is received has the kind it was received for.              *)
LEMMA Received ==
  ASSUME QueuesOK, NEW kind, Receive(kind)
  PROVE  replies' \in Seq(Replies) /\ Head(replies) \in Replies /\ Head(replies).kind = kind
BY DEF QueuesOK, Receive

(* What a reset writes is a save.                                          *)
LEMMA ResetIsSave == ASSUME NEW save \in Saves PROVE ResetOf(save) \in Saves
BY TransferAssumption DEF Saves, ResetOf

(* What the renderer holds keeps its type.                                 *)
LEMMA RendererKept == TypeInv /\ [Next]_vars => RendererOK'
<1> SUFFICES ASSUME TypeInv, [Next]_vars PROVE RendererOK'
  OBVIOUS
<1> USE DEF TypeInv
<1>1. CASE Change
  BY <1>1 DEF Change, controls, main, RendererOK, Send, Saves
<1>2. CASE CommitLifecycle
  BY <1>2 DEF CommitLifecycle, controls, main, RendererOK, Send
<1>3. CASE RetryPendingCommit
  BY <1>3 DEF RetryPendingCommit, renderer, controls, main, RendererOK
<1>4. CASE PrepareImport
  BY <1>4 DEF PrepareImport, StartOperation, main, RendererOK
<1>5. CASE PrepareReset
  BY <1>5 DEF PrepareReset, StartOperation, main, RendererOK
<1>6. CASE ConfirmPending
  BY <1>6 DEF ConfirmPending, StartOperation, main, RendererOK
<1>7. CASE CancelPreview
  BY <1>7 DEF CancelPreview, main, RendererOK
<1>8. CASE LeaveSettings
  BY <1>8 DEF LeaveSettings, main, RendererOK
<1>9. CASE ServeCommit
  BY <1>9 DEF ServeCommit, renderer, controls, RendererOK
<1>10. CASE ChooseFile
  BY <1>10 DEF ChooseFile, controls, RendererOK
<1>11. CASE ServePrepareReset
  BY <1>11 DEF ServePrepareReset, renderer, controls, RendererOK
<1>12. CASE ServeConfirmImport
  BY <1>12 DEF ServeConfirmImport, renderer, controls, RendererOK
<1>13. CASE ServeConfirmReset
  BY <1>13 DEF ServeConfirmReset, renderer, controls, RendererOK
<1>14. CASE ServeProbe
  BY <1>14 DEF ServeProbe, renderer, controls, main, RendererOK
<1>15. CASE CommitResolved
  BY <1>15 DEF CommitResolved, controls, main, RendererOK, PendingAfter
<1>16. CASE PreviewResolved
  <2>1. PICK kind \in {"import-preview", "reset-preview"} :
          Receive(kind) /\ (panel' = panel \/ panel' = [kind |-> KindOf(kind), token |-> Head(replies).op])
    BY <1>16 DEF PreviewResolved, controls
  <2>2. Head(replies) \in Replies /\ Head(replies).kind = kind
    BY <2>1, Received
  <2>3. Head(replies).op \in Nat
    BY <2>2 DEF Replies
  <2>4. UNCHANGED <<memory, commits, pending, ops, choosing>>
    BY <1>16 DEF PreviewResolved
  <2> QED BY <2>1, <2>3, <2>4 DEF RendererOK, KindOf
<1>17. CASE ConfirmResolved
  <2>1. UNCHANGED <<memory, commits, pending, ops, choosing>> /\ panel' \in {panel, NoPreview}
    BY <1>17 DEF ConfirmResolved
  <2> QED BY <2>1 DEF RendererOK
<1>18. CASE Loaded
  <2>1. Head(replies) \in Replies /\ Head(replies).kind = "probe"
    BY <1>18, Received DEF Loaded
  <2>2. Head(replies).save \in Saves
    BY <2>1 DEF Replies
  <2> QED BY <1>18, <2>2 DEF Loaded, controls, main, RendererOK
<1>19. CASE CloseClicked
  BY <1>19 DEF CloseClicked, renderer, controls, main, RendererOK
<1>20. CASE ReportCloseState
  BY <1>20 DEF ReportCloseState, controls, main, RendererOK, Send
<1>21. CASE ServeReport
  BY <1>21 DEF ServeReport, renderer, controls, main, RendererOK
<1>22. CASE CloseTimeout
  BY <1>22 DEF CloseTimeout, renderer, controls, main, RendererOK
<1>23. CASE AnswerDialog
  BY <1>23 DEF AnswerDialog, renderer, controls, main, RendererOK
<1>24. CASE FileEdited
  BY <1>24 DEF FileEdited, renderer, controls, main, RendererOK
<1>25. CASE Expire
  BY <1>25 DEF Expire, renderer, controls, RendererOK
<1>26. CASE UNCHANGED vars
  BY <1>26 DEF vars, renderer, controls, RendererOK
<1> QED BY <1>1, <1>2, <1>3, <1>4, <1>5, <1>6, <1>7, <1>8, <1>9, <1>10, <1>11, <1>12, <1>13,
           <1>14, <1>15, <1>16, <1>17, <1>18, <1>19, <1>20, <1>21, <1>22, <1>23, <1>24, <1>25,
           <1>26 DEF Next

(* Requests and replies keep their type, and only the preview of a reset   *)
(* asks for one.                                                           *)
LEMMA QueuesKept == TypeInv /\ [Next]_vars => QueuesOK' /\ (PrepareReset \/ Narrows)
<1> SUFFICES ASSUME TypeInv, [Next]_vars PROVE QueuesOK' /\ (PrepareReset \/ Narrows)
  OBVIOUS
<1> USE DEF TypeInv
<1>1. CASE Change
  <2>1. PICK save \in Saves : requests' = Append(requests, CommitOf(save))
    BY <1>1 DEF Change
  <2>2. CommitOf(save) \in Requests /\ ~IsAsk(CommitOf(save))
    BY DEF CommitOf, Requests, RendererOK, IsAsk
  <2>3. UNCHANGED replies
    BY <1>1 DEF Change
  <2> QED BY <2>1, <2>2, <2>3, Sent DEF QueuesOK
<1>2. CASE CommitLifecycle
  <2>1. CommitOf(memory) \in Requests /\ ~IsAsk(CommitOf(memory))
    BY DEF CommitOf, Requests, RendererOK, IsAsk
  <2> QED BY <1>2, <2>1, Sent DEF CommitLifecycle, QueuesOK
<1>3. CASE RetryPendingCommit
  <2> DEFINE e == [kind |-> "commit", id |-> pending.id, save |-> pending.save]
  <2>1. UNCHANGED replies
    BY <1>3 DEF RetryPendingCommit
  <2>2. CASE UNCHANGED requests
    BY <2>1, <2>2, Stayed DEF QueuesOK
  <2>3. CASE pending # None /\ requests' = Append(requests, e)
    <3>1. e \in Requests /\ ~IsAsk(e)
      BY <2>3 DEF Requests, RendererOK, IsAsk
    <3> QED BY <2>1, <2>3, <3>1, Sent DEF QueuesOK
  <2> QED BY <1>3, <2>2, <2>3 DEF RetryPendingCommit
<1>4. CASE PrepareImport
  BY <1>4, Stayed DEF PrepareImport, QueuesOK
<1>5. CASE PrepareReset
  <2> DEFINE e == [kind |-> "prepareReset", op |-> ops + 1]
  <2>1. e \in Requests
    BY DEF Requests, RendererOK
  <2> QED BY <1>5, <2>1, Sent DEF PrepareReset, QueuesOK
<1>6. CASE ConfirmPending
  <2> DEFINE e == [kind |-> panel.kind, op |-> ops + 1, token |-> panel.token]
  <2>1. e \in Requests /\ ~IsAsk(e)
    BY <1>6 DEF ConfirmPending, Requests, RendererOK, IsAsk
  <2> QED BY <1>6, <2>1, Sent DEF ConfirmPending, QueuesOK
<1>7. CASE CancelPreview
  BY <1>7, Stayed DEF CancelPreview, QueuesOK
<1>8. CASE LeaveSettings
  BY <1>8, Stayed DEF LeaveSettings, QueuesOK
<1>9. CASE ServeCommit
  <2>1. Take("commit") /\ \E e \in Replies : Answer(e)
    <3>1. Take("commit") /\ \E ok \in BOOLEAN :
            Answer([kind |-> "commit", id |-> Head(requests).id, ok |-> ok])
      BY <1>9 DEF ServeCommit
    <3>2. Head(requests).id \in Nat
      BY <3>1, Taken DEF Requests
    <3> QED BY <3>1, <3>2 DEF Replies
  <2> QED BY <2>1, Taken, Answered DEF QueuesOK, Answer
<1>10. CASE ChooseFile
  <2>1. \E e \in Replies : Answer(e)
    BY <1>10 DEF ChooseFile, Replies, RendererOK
  <2>2. UNCHANGED requests
    BY <1>10 DEF ChooseFile
  <2> QED BY <2>1, <2>2, Answered, Stayed DEF QueuesOK, Answer
<1>11. CASE ServePrepareReset
  <2>1. Take("prepareReset") /\ \E e \in Replies : Answer(e)
    <3>1. Take("prepareReset") /\ Answer([kind |-> "reset-preview", op |-> Head(requests).op, ok |-> TRUE])
      BY <1>11 DEF ServePrepareReset
    <3>2. Head(requests).op \in Nat
      BY <3>1, Taken DEF Requests
    <3> QED BY <3>1, <3>2 DEF Replies
  <2> QED BY <2>1, Taken, Answered DEF QueuesOK, Answer
<1>12. CASE ServeConfirmImport
  <2>1. Take("import") /\ \E e \in Replies : Answer(e)
    <3>1. Take("import") /\ \E ok \in BOOLEAN : Answer(ReplyTo(Head(requests), ok))
      BY <1>12 DEF ServeConfirmImport
    <3>2. Head(requests).op \in Nat /\ Head(requests).kind = "import"
      BY <3>1, Taken DEF Requests
    <3> QED BY <3>1, <3>2 DEF Replies, ReplyTo
  <2> QED BY <2>1, Taken, Answered DEF QueuesOK, Answer
<1>13. CASE ServeConfirmReset
  <2>1. Take("reset") /\ \E e \in Replies : Answer(e)
    <3>1. Take("reset") /\ \E ok \in BOOLEAN : Answer(ReplyTo(Head(requests), ok))
      BY <1>13 DEF ServeConfirmReset
    <3>2. Head(requests).op \in Nat /\ Head(requests).kind = "reset"
      BY <3>1, Taken DEF Requests
    <3> QED BY <3>1, <3>2 DEF Replies, ReplyTo
  <2> QED BY <2>1, Taken, Answered DEF QueuesOK, Answer
<1>14. CASE ServeProbe
  <2>1. Take("probe") /\ \E e \in Replies : Answer(e)
    <3>1. Take("probe") /\ Answer([kind |-> "probe", op |-> Head(requests).op, save |-> disk])
      BY <1>14 DEF ServeProbe
    <3>2. Head(requests).op \in Nat
      BY <3>1, Taken DEF Requests
    <3> QED BY <3>1, <3>2 DEF Replies, DiskOK
  <2> QED BY <2>1, Taken, Answered DEF QueuesOK, Answer
<1>15. CASE CommitResolved
  <2>1. PICK kind : Receive(kind) /\ UNCHANGED requests
    BY <1>15 DEF CommitResolved
  <2> QED BY <2>1, Received, Stayed DEF QueuesOK
<1>16. CASE PreviewResolved
  <2>1. PICK kind : Receive(kind) /\ UNCHANGED requests
    BY <1>16 DEF PreviewResolved
  <2> QED BY <2>1, Received, Stayed DEF QueuesOK
<1>17. CASE ConfirmResolved
  <2>1. PICK kind \in {"import", "reset"} :
          /\ Receive(kind)
          /\ \/ UNCHANGED requests
             \/ requests' = Append(requests, [kind |-> "probe", op |-> Head(replies).op])
    BY <1>17 DEF ConfirmResolved
  <2>2. Head(replies).op \in Nat
    BY <2>1, Received DEF Replies
  <2> DEFINE e == [kind |-> "probe", op |-> Head(replies).op]
  <2>3. e \in Requests /\ ~IsAsk(e)
    BY <2>2 DEF Requests, IsAsk
  <2> QED BY <2>1, <2>3, Sent, Stayed, Received DEF QueuesOK
<1>18. CASE Loaded
  <2>1. PICK kind : Receive(kind) /\ UNCHANGED requests
    BY <1>18 DEF Loaded
  <2> QED BY <2>1, Received, Stayed DEF QueuesOK
<1>19. CASE CloseClicked
  BY <1>19, Stayed DEF CloseClicked, QueuesOK
<1>20. CASE ReportCloseState
  <2> DEFINE e == CommitOf(memory)
             r == [kind |-> "report", unsaved |-> pending'.id # 0]
  <2>1. e \in Requests /\ ~IsAsk(e) /\ r \in Requests /\ ~IsAsk(r)
    BY DEF CommitOf, Requests, RendererOK, IsAsk
  <2>2. requests' = Append(Append(requests, e), r) /\ UNCHANGED replies
    BY <1>20 DEF ReportCloseState
  <2> HIDE DEF e, r
  <2>3. /\ Append(requests, e) \in Seq(Requests) /\ Asked(Append(requests, e)) = Asked(requests)
        /\ AskedOnce(requests) => AskedOnce(Append(requests, e))
    BY <2>1, AskedAfterAppend DEF QueuesOK
  <2> QED BY <2>1, <2>2, <2>3, AskedAfterAppend DEF QueuesOK, Narrows
<1>21. CASE ServeReport
  <2>1. Take("report") /\ UNCHANGED replies
    BY <1>21 DEF ServeReport
  <2> QED BY <2>1, Taken DEF QueuesOK
<1>22. CASE CloseTimeout
  BY <1>22, Stayed DEF CloseTimeout, QueuesOK
<1>23. CASE AnswerDialog
  BY <1>23, Stayed DEF AnswerDialog, QueuesOK
<1>24. CASE FileEdited
  BY <1>24, Stayed DEF FileEdited, QueuesOK
<1>25. CASE Expire
  BY <1>25, Stayed DEF Expire, QueuesOK
<1>26. CASE UNCHANGED vars
  BY <1>26, Stayed DEF vars, QueuesOK
<1> QED BY <1>1, <1>2, <1>3, <1>4, <1>5, <1>6, <1>7, <1>8, <1>9, <1>10, <1>11, <1>12, <1>13,
           <1>14, <1>15, <1>16, <1>17, <1>18, <1>19, <1>20, <1>21, <1>22, <1>23, <1>24, <1>25,
           <1>26 DEF Next

-----------------------------------------------------------------------------
(* What a token holds is a save.                                           *)
LEMMA EntryHolds ==
  ASSUME TokensOK, NEW token \in DOMAIN tokens
  PROVE  /\ tokens[token] \in Entries /\ tokens[token].save \in Saves
         /\ tokens[token].kind = "import" => tokens[token].seen \in Nat
         /\ tokens[token].kind = "reset" => tokens[token].seen \in Saves
<1>1. tokens[token] \in Entries
  BY DEF TokensOK
<1> QED BY <1>1 DEF Entries

(* Issuing a token leaves the others as they are.                          *)
LEMMA IssuedOK ==
  ASSUME TokensOK, NEW token, NEW entry \in Entries, tokens' = Issued(token, entry)
  PROVE  /\ TokensOK' /\ DOMAIN tokens' = DOMAIN tokens \cup {token}
         /\ \A t \in DOMAIN tokens' : tokens'[t] = entry \/ (t \in DOMAIN tokens /\ tokens'[t] = tokens[t])
BY DEF TokensOK, Issued

(* Consuming a token leaves the others as they are.                        *)
LEMMA WithoutOK ==
  ASSUME TokensOK, NEW token, tokens' = Without(token)
  PROVE  /\ TokensOK' /\ DOMAIN tokens' = DOMAIN tokens \ {token}
         /\ \A t \in DOMAIN tokens' : tokens'[t] = tokens[t]
BY DEF TokensOK, Without

(* When no token moves, each holds what it held.                           *)
LEMMA SameTokens ==
  ASSUME TokensOK, UNCHANGED tokens
  PROVE  /\ TokensOK' /\ DOMAIN tokens' = DOMAIN tokens
         /\ \A t \in DOMAIN tokens' : tokens'[t] = tokens[t]
BY DEF TokensOK

(* The disk, the file and the tokens keep their types.                     *)
LEMMA DiskKept == TypeInv /\ [Next]_vars => DiskOK' /\ TokensOK'
<1> SUFFICES ASSUME TypeInv, [Next]_vars PROVE DiskOK' /\ TokensOK'
  OBVIOUS
<1> USE DEF TypeInv
<1>1. CASE Change
  BY <1>1, SameTokens DEF Change, main, DiskOK
<1>2. CASE CommitLifecycle
  BY <1>2, SameTokens DEF CommitLifecycle, main, DiskOK
<1>3. CASE RetryPendingCommit
  BY <1>3, SameTokens DEF RetryPendingCommit, main, DiskOK
<1>4. CASE PrepareImport
  BY <1>4, SameTokens DEF PrepareImport, main, DiskOK
<1>5. CASE PrepareReset
  BY <1>5, SameTokens DEF PrepareReset, main, DiskOK
<1>6. CASE ConfirmPending
  BY <1>6, SameTokens DEF ConfirmPending, main, DiskOK
<1>7. CASE CancelPreview
  BY <1>7, SameTokens DEF CancelPreview, main, DiskOK
<1>8. CASE LeaveSettings
  BY <1>8, SameTokens DEF LeaveSettings, main, DiskOK
<1>9. CASE ServeCommit
  <2>1. Take("commit") /\ disk' \in {disk, Head(requests).save} /\ UNCHANGED <<tokens, file>>
    BY <1>9 DEF ServeCommit
  <2>2. Head(requests).save \in Saves
    BY <2>1, Taken DEF Requests
  <2> QED BY <2>1, <2>2, SameTokens DEF DiskOK
<1>10. CASE ChooseFile
  <2>1. UNCHANGED <<disk, file>>
    BY <1>10 DEF ChooseFile
  <2>2. CASE UNCHANGED tokens
    BY <2>1, <2>2, SameTokens DEF DiskOK
  <2>3. CASE \E op : tokens' = Issued(op, [kind |-> "import", save |-> file.save, seen |-> file.version])
    <3>1. [kind |-> "import", save |-> file.save, seen |-> file.version] \in Entries
      BY DEF DiskOK, Entries
    <3> QED BY <2>1, <2>3, <3>1, IssuedOK DEF DiskOK
  <2> QED BY <1>10, <2>2, <2>3 DEF ChooseFile
<1>11. CASE ServePrepareReset
  <2>1. /\ UNCHANGED <<disk, file>>
        /\ tokens' = Issued(Head(requests).op, [kind |-> "reset", save |-> ResetOf(disk), seen |-> disk])
    BY <1>11 DEF ServePrepareReset
  <2>2. [kind |-> "reset", save |-> ResetOf(disk), seen |-> disk] \in Entries
    BY ResetIsSave DEF DiskOK, Entries
  <2> QED BY <2>1, <2>2, IssuedOK DEF DiskOK
<1>12. CASE ServeConfirmImport
  <2> DEFINE token == Head(requests).token
  <2>1. /\ UNCHANGED file /\ tokens' = Without(token)
        /\ UNCHANGED disk \/ (Good(token, "import") /\ disk' = tokens[token].save)
    BY <1>12 DEF ServeConfirmImport, Written
  <2> QED BY <2>1, WithoutOK, EntryHolds DEF DiskOK, Good
<1>13. CASE ServeConfirmReset
  <2> DEFINE token == Head(requests).token
  <2>1. /\ UNCHANGED file /\ tokens' = Without(token)
        /\ UNCHANGED disk \/ (Good(token, "reset") /\ disk' = tokens[token].save)
    BY <1>13 DEF ServeConfirmReset, Written
  <2> QED BY <2>1, WithoutOK, EntryHolds DEF DiskOK, Good
<1>14. CASE ServeProbe
  BY <1>14, SameTokens DEF ServeProbe, main, DiskOK
<1>15. CASE CommitResolved
  BY <1>15, SameTokens DEF CommitResolved, main, DiskOK
<1>16. CASE PreviewResolved
  BY <1>16, SameTokens DEF PreviewResolved, main, DiskOK
<1>17. CASE ConfirmResolved
  BY <1>17, SameTokens DEF ConfirmResolved, main, DiskOK
<1>18. CASE Loaded
  BY <1>18, SameTokens DEF Loaded, main, DiskOK
<1>19. CASE CloseClicked
  BY <1>19, SameTokens DEF CloseClicked, main, DiskOK
<1>20. CASE ReportCloseState
  BY <1>20, SameTokens DEF ReportCloseState, main, DiskOK
<1>21. CASE ServeReport
  BY <1>21, SameTokens DEF ServeReport, main, DiskOK
<1>22. CASE CloseTimeout
  BY <1>22, SameTokens DEF CloseTimeout, main, DiskOK
<1>23. CASE AnswerDialog
  BY <1>23, SameTokens DEF AnswerDialog, main, DiskOK
<1>24. CASE FileEdited
  <2>1. PICK progress \in Progress :
          file' = [save |-> [file.save EXCEPT !.progress = progress], version |-> file.version + 1]
    BY <1>24 DEF FileEdited
  <2>2. file.save \in [settings : Settings, progress : Progress] /\ file.version \in Nat
    BY DEF DiskOK, Saves
  <2>3. [file.save EXCEPT !.progress = progress] \in [settings : Settings, progress : Progress]
    BY <2>2, Zenon
  <2>4. file' \in [save : Saves, version : Nat]
    BY <2>1, <2>2, <2>3 DEF Saves
  <2> QED BY <1>24, <2>4, SameTokens DEF FileEdited, main, DiskOK
<1>25. CASE Expire
  <2>1. PICK token \in DOMAIN tokens : tokens' = Without(token)
    BY <1>25 DEF Expire
  <2> QED BY <1>25, <2>1, WithoutOK DEF Expire, DiskOK
<1>26. CASE UNCHANGED vars
  BY <1>26, SameTokens DEF vars, main, DiskOK
<1> QED BY <1>1, <1>2, <1>3, <1>4, <1>5, <1>6, <1>7, <1>8, <1>9, <1>10, <1>11, <1>12, <1>13,
           <1>14, <1>15, <1>16, <1>17, <1>18, <1>19, <1>20, <1>21, <1>22, <1>23, <1>24, <1>25,
           <1>26 DEF Next

-----------------------------------------------------------------------------
(* A step that puts no operation anywhere new.                             *)
LEMMA StillOnePlace ==
  ASSUME OnePlace, Narrows, ops \in Nat, ops' \in Nat, ops <= ops', choosing' \subseteq choosing,
         DOMAIN tokens' \subseteq DOMAIN tokens, spent' \subseteq spent
  PROVE  OnePlace'
<1>1. Asked(requests') \subseteq Asked(requests) /\ AskedOnce(requests')
  BY DEF Narrows, OnePlace
<1>2. 1..ops \subseteq 1..ops'
  OBVIOUS
<1>3. /\ choosing' \subseteq choosing /\ Asked(requests') \subseteq Asked(requests)
      /\ DOMAIN tokens' \subseteq DOMAIN tokens /\ spent' \subseteq spent
  BY <1>1
<1> QED BY <1>1, <1>2, <1>3, Zenon DEF OnePlace

(* A request for the preview of a reset is the only one that asks.         *)
LEMMA StepNarrows == TypeInv /\ [Next]_vars => PrepareReset \/ Narrows
BY QueuesKept

(* An operation's number stays in one place.                               *)
LEMMA OnePlaceKept == TypeInv /\ OnePlace /\ [Next]_vars => OnePlace'
<1> SUFFICES ASSUME TypeInv, OnePlace, [Next]_vars PROVE OnePlace'
  OBVIOUS
<1> USE DEF TypeInv
<1>1. CASE Change
  <2>1. /\ ops' \in Nat /\ ops <= ops' /\ choosing' \subseteq choosing
        /\ UNCHANGED <<tokens, spent>> /\ ~PrepareReset
    BY <1>1 DEF Change, StartOperation, main, renderer, RendererOK, PrepareReset
  <2> QED BY <2>1, StepNarrows, StillOnePlace DEF RendererOK
<1>2. CASE CommitLifecycle
  <2>1. /\ ops' \in Nat /\ ops <= ops' /\ choosing' \subseteq choosing
        /\ UNCHANGED <<tokens, spent>> /\ ~PrepareReset
    BY <1>2 DEF CommitLifecycle, StartOperation, main, renderer, RendererOK, PrepareReset
  <2> QED BY <2>1, StepNarrows, StillOnePlace DEF RendererOK
<1>3. CASE RetryPendingCommit
  <2>1. /\ ops' \in Nat /\ ops <= ops' /\ choosing' \subseteq choosing
        /\ UNCHANGED <<tokens, spent>> /\ ~PrepareReset
    BY <1>3 DEF RetryPendingCommit, StartOperation, main, renderer, RendererOK, PrepareReset
  <2> QED BY <2>1, StepNarrows, StillOnePlace DEF RendererOK
<1>4. CASE PrepareImport
  <2>1. /\ Narrows /\ ops' = ops + 1 /\ choosing' = choosing \cup {ops + 1}
        /\ UNCHANGED <<tokens, spent>>
    BY <1>4, Stayed DEF PrepareImport, StartOperation, main
  <2>2. ops + 1 \notin 1..ops /\ 1..ops \cup {ops + 1} \subseteq 1..(ops + 1)
    BY DEF RendererOK
  <2> QED BY <2>1, <2>2 DEF OnePlace, Narrows
<1>5. CASE PrepareReset
  <2> DEFINE e == [kind |-> "prepareReset", op |-> ops + 1]
  <2>1. /\ ops' = ops + 1 /\ requests' = Append(requests, e)
        /\ UNCHANGED <<choosing, tokens, spent>>
    BY <1>5 DEF PrepareReset, StartOperation, main
  <2>2. ops + 1 \notin 1..ops /\ 1..ops \cup {ops + 1} \subseteq 1..(ops + 1)
    BY DEF RendererOK
  <2>3. e \in Requests /\ IsAsk(e) /\ e.op = ops + 1
    BY DEF Requests, RendererOK, IsAsk
  <2> HIDE DEF e
  <2>4. e.op \notin Asked(requests)
    BY <2>2, <2>3 DEF OnePlace
  <2>5. Asked(requests') = Asked(requests) \cup {ops + 1} /\ AskedOnce(requests')
    BY <2>1, <2>3, <2>4, AskedAfterAppend DEF OnePlace, QueuesOK
  <2> QED BY <2>1, <2>2, <2>5 DEF OnePlace
<1>6. CASE ConfirmPending
  <2>1. /\ ops' \in Nat /\ ops <= ops' /\ choosing' \subseteq choosing
        /\ UNCHANGED <<tokens, spent>> /\ ~PrepareReset
    BY <1>6 DEF ConfirmPending, StartOperation, main, renderer, RendererOK, PrepareReset
  <2> QED BY <2>1, StepNarrows, StillOnePlace DEF RendererOK
<1>7. CASE CancelPreview
  <2>1. /\ ops' \in Nat /\ ops <= ops' /\ choosing' \subseteq choosing
        /\ UNCHANGED <<tokens, spent>> /\ ~PrepareReset
    BY <1>7 DEF CancelPreview, StartOperation, main, renderer, RendererOK, PrepareReset
  <2> QED BY <2>1, StepNarrows, StillOnePlace DEF RendererOK
<1>8. CASE LeaveSettings
  <2>1. /\ ops' \in Nat /\ ops <= ops' /\ choosing' \subseteq choosing
        /\ UNCHANGED <<tokens, spent>> /\ ~PrepareReset
    BY <1>8 DEF LeaveSettings, StartOperation, main, renderer, RendererOK, PrepareReset
  <2> QED BY <2>1, StepNarrows, StillOnePlace DEF RendererOK
<1>9. CASE ServeCommit
  <2>1. /\ ops' \in Nat /\ ops <= ops' /\ choosing' \subseteq choosing
        /\ UNCHANGED <<tokens, spent>> /\ ~PrepareReset
    BY <1>9 DEF ServeCommit, StartOperation, main, renderer, RendererOK, PrepareReset
  <2> QED BY <2>1, StepNarrows, StillOnePlace DEF RendererOK
<1>10. CASE ChooseFile
  <2>1. PICK op \in choosing :
          /\ choosing' = choosing \ {op} /\ UNCHANGED <<ops, spent, requests>>
          /\ \/ UNCHANGED tokens
             \/ tokens' = Issued(op, [kind |-> "import", save |-> file.save, seen |-> file.version])
    BY <1>10 DEF ChooseFile
  <2>2. [kind |-> "import", save |-> file.save, seen |-> file.version] \in Entries
    BY DEF DiskOK, Entries
  <2>3. DOMAIN tokens' \subseteq DOMAIN tokens \cup {op}
    BY <2>1, <2>2, IssuedOK
  <2> QED BY <2>1, <2>3 DEF OnePlace
<1>11. CASE ServePrepareReset
  <2> DEFINE op == Head(requests).op
  <2>1. /\ Take("prepareReset") /\ UNCHANGED <<ops, spent, choosing>>
        /\ tokens' = Issued(op, [kind |-> "reset", save |-> ResetOf(disk), seen |-> disk])
    BY <1>11 DEF ServePrepareReset, renderer
  <2>2. [kind |-> "reset", save |-> ResetOf(disk), seen |-> disk] \in Entries
    BY ResetIsSave DEF DiskOK, Entries
  <2>3. DOMAIN tokens' = DOMAIN tokens \cup {op}
    BY <2>1, <2>2, IssuedOK
  <2>4. requests # <<>> /\ requests' = Tail(requests) /\ IsAsk(Head(requests))
    BY <2>1 DEF Take, IsAsk
  <2>5. /\ AskedOnce(requests') /\ Asked(requests') \subseteq Asked(requests)
        /\ op \in Asked(requests) /\ op \notin Asked(requests')
    BY <2>4, AskedAfterTail DEF OnePlace, QueuesOK
  <2> QED BY <2>1, <2>3, <2>5 DEF OnePlace
<1>12. CASE ServeConfirmImport
  <2> DEFINE token == Head(requests).token
  <2>1. /\ Take("import") /\ UNCHANGED <<ops, choosing>> /\ tokens' = Without(token)
        /\ UNCHANGED spent \/ (Good(token, "import") /\ spent' = spent \cup {token})
    BY <1>12 DEF ServeConfirmImport, Written, renderer
  <2>2. DOMAIN tokens' = DOMAIN tokens \ {token}
    BY <2>1, WithoutOK
  <2>3. Narrows
    BY <2>1, Taken
  <2> QED BY <2>1, <2>2, <2>3 DEF OnePlace, Narrows, Good
<1>13. CASE ServeConfirmReset
  <2> DEFINE token == Head(requests).token
  <2>1. /\ Take("reset") /\ UNCHANGED <<ops, choosing>> /\ tokens' = Without(token)
        /\ UNCHANGED spent \/ (Good(token, "reset") /\ spent' = spent \cup {token})
    BY <1>13 DEF ServeConfirmReset, Written, renderer
  <2>2. DOMAIN tokens' = DOMAIN tokens \ {token}
    BY <2>1, WithoutOK
  <2>3. Narrows
    BY <2>1, Taken
  <2> QED BY <2>1, <2>2, <2>3 DEF OnePlace, Narrows, Good
<1>14. CASE ServeProbe
  <2>1. /\ ops' \in Nat /\ ops <= ops' /\ choosing' \subseteq choosing
        /\ UNCHANGED <<tokens, spent>> /\ ~PrepareReset
    BY <1>14 DEF ServeProbe, StartOperation, main, renderer, RendererOK, PrepareReset
  <2> QED BY <2>1, StepNarrows, StillOnePlace DEF RendererOK
<1>15. CASE CommitResolved
  <2>1. /\ ops' \in Nat /\ ops <= ops' /\ choosing' \subseteq choosing
        /\ UNCHANGED <<tokens, spent>> /\ ~PrepareReset
    BY <1>15 DEF CommitResolved, StartOperation, main, renderer, RendererOK, PrepareReset
  <2> QED BY <2>1, StepNarrows, StillOnePlace DEF RendererOK
<1>16. CASE PreviewResolved
  <2>1. /\ ops' \in Nat /\ ops <= ops' /\ choosing' \subseteq choosing
        /\ UNCHANGED <<tokens, spent>> /\ ~PrepareReset
    BY <1>16 DEF PreviewResolved, StartOperation, main, renderer, RendererOK, PrepareReset
  <2> QED BY <2>1, StepNarrows, StillOnePlace DEF RendererOK
<1>17. CASE ConfirmResolved
  <2>1. /\ ops' \in Nat /\ ops <= ops' /\ choosing' \subseteq choosing
        /\ UNCHANGED <<tokens, spent>> /\ ~PrepareReset
    BY <1>17 DEF ConfirmResolved, StartOperation, main, renderer, RendererOK, PrepareReset
  <2> QED BY <2>1, StepNarrows, StillOnePlace DEF RendererOK
<1>18. CASE Loaded
  <2>1. /\ ops' \in Nat /\ ops <= ops' /\ choosing' \subseteq choosing
        /\ UNCHANGED <<tokens, spent>> /\ ~PrepareReset
    BY <1>18 DEF Loaded, StartOperation, main, renderer, RendererOK, PrepareReset
  <2> QED BY <2>1, StepNarrows, StillOnePlace DEF RendererOK
<1>19. CASE CloseClicked
  <2>1. /\ ops' \in Nat /\ ops <= ops' /\ choosing' \subseteq choosing
        /\ UNCHANGED <<tokens, spent>> /\ ~PrepareReset
    BY <1>19 DEF CloseClicked, StartOperation, main, renderer, RendererOK, PrepareReset
  <2> QED BY <2>1, StepNarrows, StillOnePlace DEF RendererOK
<1>20. CASE ReportCloseState
  <2>1. /\ ops' \in Nat /\ ops <= ops' /\ choosing' \subseteq choosing
        /\ UNCHANGED <<tokens, spent>> /\ ~PrepareReset
    BY <1>20 DEF ReportCloseState, StartOperation, main, renderer, RendererOK, PrepareReset
  <2> QED BY <2>1, StepNarrows, StillOnePlace DEF RendererOK
<1>21. CASE ServeReport
  <2>1. /\ ops' \in Nat /\ ops <= ops' /\ choosing' \subseteq choosing
        /\ UNCHANGED <<tokens, spent>> /\ ~PrepareReset
    BY <1>21 DEF ServeReport, StartOperation, main, renderer, RendererOK, PrepareReset
  <2> QED BY <2>1, StepNarrows, StillOnePlace DEF RendererOK
<1>22. CASE CloseTimeout
  <2>1. /\ ops' \in Nat /\ ops <= ops' /\ choosing' \subseteq choosing
        /\ UNCHANGED <<tokens, spent>> /\ ~PrepareReset
    BY <1>22 DEF CloseTimeout, StartOperation, main, renderer, RendererOK, PrepareReset
  <2> QED BY <2>1, StepNarrows, StillOnePlace DEF RendererOK
<1>23. CASE AnswerDialog
  <2>1. /\ ops' \in Nat /\ ops <= ops' /\ choosing' \subseteq choosing
        /\ UNCHANGED <<tokens, spent>> /\ ~PrepareReset
    BY <1>23 DEF AnswerDialog, StartOperation, main, renderer, RendererOK, PrepareReset
  <2> QED BY <2>1, StepNarrows, StillOnePlace DEF RendererOK
<1>24. CASE FileEdited
  <2>1. /\ ops' \in Nat /\ ops <= ops' /\ choosing' \subseteq choosing
        /\ UNCHANGED <<tokens, spent>> /\ ~PrepareReset
    BY <1>24 DEF FileEdited, StartOperation, main, renderer, RendererOK, PrepareReset
  <2> QED BY <2>1, StepNarrows, StillOnePlace DEF RendererOK
<1>25. CASE Expire
  <2>1. PICK token \in DOMAIN tokens : tokens' = Without(token)
    BY <1>25 DEF Expire
  <2>2. DOMAIN tokens' \subseteq DOMAIN tokens
    BY <2>1, WithoutOK
  <2>3. UNCHANGED <<ops, choosing, spent>> /\ ~PrepareReset
    BY <1>25 DEF Expire, renderer, PrepareReset, StartOperation, RendererOK
  <2> QED BY <2>2, <2>3, StepNarrows, StillOnePlace DEF RendererOK
<1>26. CASE UNCHANGED vars
  <2>1. Narrows /\ UNCHANGED <<ops, choosing, tokens, spent>>
    BY <1>26, Stayed DEF vars, renderer, main
  <2> QED BY <2>1, StillOnePlace DEF RendererOK
<1> QED BY <1>1, <1>2, <1>3, <1>4, <1>5, <1>6, <1>7, <1>8, <1>9, <1>10, <1>11, <1>12, <1>13,
           <1>14, <1>15, <1>16, <1>17, <1>18, <1>19, <1>20, <1>21, <1>22, <1>23, <1>24, <1>25,
           <1>26 DEF Next

-----------------------------------------------------------------------------
(* A step that issues no token and leaves the file alone.                  *)
LEMMA StillHold ==
  ASSUME TokensHold, UNCHANGED file,
         \A t \in DOMAIN tokens' : t \in DOMAIN tokens /\ tokens'[t] = tokens[t]
  PROVE  TokensHold'
BY DEF TokensHold, Holds

(* A token is for the version of the file, or the save, it was issued for. *)
LEMMA TokensHoldKept == TypeInv /\ TokensHold /\ [Next]_vars => TokensHold'
<1> SUFFICES ASSUME TypeInv, TokensHold, [Next]_vars PROVE TokensHold'
  OBVIOUS
<1> USE DEF TypeInv
<1>1. CASE Change
  BY <1>1, SameTokens, StillHold DEF Change, main
<1>2. CASE CommitLifecycle
  BY <1>2, SameTokens, StillHold DEF CommitLifecycle, main
<1>3. CASE RetryPendingCommit
  BY <1>3, SameTokens, StillHold DEF RetryPendingCommit, main
<1>4. CASE PrepareImport
  BY <1>4, SameTokens, StillHold DEF PrepareImport, main
<1>5. CASE PrepareReset
  BY <1>5, SameTokens, StillHold DEF PrepareReset, main
<1>6. CASE ConfirmPending
  BY <1>6, SameTokens, StillHold DEF ConfirmPending, main
<1>7. CASE CancelPreview
  BY <1>7, SameTokens, StillHold DEF CancelPreview, main
<1>8. CASE LeaveSettings
  BY <1>8, SameTokens, StillHold DEF LeaveSettings, main
<1>9. CASE ServeCommit
  BY <1>9, SameTokens, StillHold DEF ServeCommit, main
<1>10. CASE ChooseFile
  <2> DEFINE entry == [kind |-> "import", save |-> file.save, seen |-> file.version]
  <2>1. UNCHANGED file
    BY <1>10 DEF ChooseFile
  <2>2. CASE UNCHANGED tokens
    BY <2>1, <2>2, SameTokens, StillHold
  <2>3. CASE \E op : tokens' = Issued(op, entry)
    <3>1. /\ entry \in Entries /\ entry.kind = "import" /\ file.version \in Nat
          /\ entry.seen = file.version /\ entry.save = file.save
      BY DEF DiskOK, Entries
    <3> HIDE DEF entry
    <3>2. \A t \in DOMAIN tokens' : tokens'[t] = entry \/ (t \in DOMAIN tokens /\ tokens'[t] = tokens[t])
      BY <2>3, <3>1, IssuedOK
    <3> QED BY <2>1, <3>1, <3>2 DEF TokensHold, Holds
  <2> QED BY <1>10, <2>2, <2>3 DEF ChooseFile
<1>11. CASE ServePrepareReset
  <2> DEFINE entry == [kind |-> "reset", save |-> ResetOf(disk), seen |-> disk]
  <2>1. UNCHANGED file /\ tokens' = Issued(Head(requests).op, entry)
    BY <1>11 DEF ServePrepareReset
  <2>2. entry \in Entries /\ entry.kind = "reset" /\ entry.save = ResetOf(entry.seen)
    BY ResetIsSave DEF DiskOK, Entries
  <2> HIDE DEF entry
  <2>3. \A t \in DOMAIN tokens' : tokens'[t] = entry \/ (t \in DOMAIN tokens /\ tokens'[t] = tokens[t])
    BY <2>1, <2>2, IssuedOK
  <2> QED BY <2>1, <2>2, <2>3 DEF TokensHold, Holds
<1>12. CASE ServeConfirmImport
  <2>1. UNCHANGED file /\ tokens' = Without(Head(requests).token)
    BY <1>12 DEF ServeConfirmImport
  <2> QED BY <2>1, WithoutOK, StillHold
<1>13. CASE ServeConfirmReset
  <2>1. UNCHANGED file /\ tokens' = Without(Head(requests).token)
    BY <1>13 DEF ServeConfirmReset
  <2> QED BY <2>1, WithoutOK, StillHold
<1>14. CASE ServeProbe
  BY <1>14, SameTokens, StillHold DEF ServeProbe, main
<1>15. CASE CommitResolved
  BY <1>15, SameTokens, StillHold DEF CommitResolved, main
<1>16. CASE PreviewResolved
  BY <1>16, SameTokens, StillHold DEF PreviewResolved, main
<1>17. CASE ConfirmResolved
  BY <1>17, SameTokens, StillHold DEF ConfirmResolved, main
<1>18. CASE Loaded
  BY <1>18, SameTokens, StillHold DEF Loaded, main
<1>19. CASE CloseClicked
  BY <1>19, SameTokens, StillHold DEF CloseClicked, main
<1>20. CASE ReportCloseState
  BY <1>20, SameTokens, StillHold DEF ReportCloseState, main
<1>21. CASE ServeReport
  BY <1>21, SameTokens, StillHold DEF ServeReport, main
<1>22. CASE CloseTimeout
  BY <1>22, SameTokens, StillHold DEF CloseTimeout, main
<1>23. CASE AnswerDialog
  BY <1>23, SameTokens, StillHold DEF AnswerDialog, main
<1>24. CASE FileEdited
  <2>1. file'.version = file.version + 1 /\ UNCHANGED tokens
    BY <1>24 DEF FileEdited, main
  <2>2. file.version \in Nat
    BY DEF DiskOK
  <2>3. \A t \in DOMAIN tokens : tokens[t].kind = "import" => tokens[t].seen \in Nat
    BY EntryHolds
  <2> QED BY <2>1, <2>2, <2>3 DEF TokensHold, Holds
<1>25. CASE Expire
  <2>1. UNCHANGED file /\ \E token \in DOMAIN tokens : tokens' = Without(token)
    BY <1>25 DEF Expire
  <2> QED BY <2>1, WithoutOK, StillHold
<1>26. CASE UNCHANGED vars
  BY <1>26, SameTokens, StillHold DEF vars, main
<1> QED BY <1>1, <1>2, <1>3, <1>4, <1>5, <1>6, <1>7, <1>8, <1>9, <1>10, <1>11, <1>12, <1>13,
           <1>14, <1>15, <1>16, <1>17, <1>18, <1>19, <1>20, <1>21, <1>22, <1>23, <1>24, <1>25,
           <1>26 DEF Next

-----------------------------------------------------------------------------
(* The initial states satisfy the invariant.                               *)
LEMMA InitIInv == Init => IInv
<1> SUFFICES ASSUME Init PROVE IInv
  OBVIOUS
<1>1. RendererOK
  BY DEF Init, RendererOK
<1>2. QueuesOK /\ Asked(requests) = {} /\ AskedOnce(requests)
  BY DEF Init, QueuesOK, Asked, AskedOnce
<1>3. DiskOK
  BY DEF Init, DiskOK
<1>4. TokensOK /\ DOMAIN tokens = {}
  BY DEF Init, TokensOK
<1>5. OnePlace
  BY <1>2, <1>4 DEF Init, OnePlace
<1>6. TokensHold
  BY <1>4 DEF TokensHold
<1> QED BY <1>1, <1>2, <1>3, <1>4, <1>5, <1>6 DEF IInv, TypeInv

(* Every step keeps the invariant.                                         *)
LEMMA NextIInv == IInv /\ [Next]_vars => IInv'
<1> SUFFICES ASSUME TypeInv, OnePlace, TokensHold, [Next]_vars PROVE IInv'
  BY DEF IInv
<1>1. RendererOK'
  BY RendererKept
<1>2. QueuesOK'
  BY QueuesKept
<1>3. DiskOK' /\ TokensOK'
  BY DiskKept
<1>4. OnePlace' /\ TokensHold'
  BY OnePlaceKept, TokensHoldKept
<1> QED BY <1>1, <1>2, <1>3, <1>4 DEF IInv, TypeInv

(* The invariant holds of every behaviour.                                 *)
THEOREM IInvHolds == Spec => []IInv
<1>1. Init => IInv
  BY InitIInv
<1>2. IInv /\ [Next]_vars => IInv'
  BY NextIInv
<1> QED BY <1>1, <1>2, PTL DEF Spec

-----------------------------------------------------------------------------
ConfirmedWrite ==
  disk' # disk /\ Head(requests).kind # "commit" =>
        LET request == Head(requests) IN
          /\ request.token \notin spent
          /\ IF request.kind = "import" THEN disk' = file.save
             ELSE disk' = ResetOf(disk) /\ disk \in archive'

(* A step from a state of the invariant writes as confirmed.               *)
LEMMA StepWritesAsConfirmed == OnePlace /\ TokensHold /\ [Next]_vars => ConfirmedWrite
<1> SUFFICES ASSUME OnePlace, TokensHold, [Next]_vars PROVE ConfirmedWrite
  OBVIOUS
<1>1. CASE Change
  BY <1>1 DEF Change, main, ConfirmedWrite
<1>2. CASE CommitLifecycle
  BY <1>2 DEF CommitLifecycle, main, ConfirmedWrite
<1>3. CASE RetryPendingCommit
  BY <1>3 DEF RetryPendingCommit, main, ConfirmedWrite
<1>4. CASE PrepareImport
  BY <1>4 DEF PrepareImport, main, ConfirmedWrite
<1>5. CASE PrepareReset
  BY <1>5 DEF PrepareReset, main, ConfirmedWrite
<1>6. CASE ConfirmPending
  BY <1>6 DEF ConfirmPending, main, ConfirmedWrite
<1>7. CASE CancelPreview
  BY <1>7 DEF CancelPreview, main, ConfirmedWrite
<1>8. CASE LeaveSettings
  BY <1>8 DEF LeaveSettings, main, ConfirmedWrite
<1>9. CASE ServeCommit
  BY <1>9 DEF ServeCommit, Take, ConfirmedWrite
<1>10. CASE ChooseFile
  BY <1>10 DEF ChooseFile, main, ConfirmedWrite
<1>11. CASE ServePrepareReset
  BY <1>11 DEF ServePrepareReset, main, ConfirmedWrite
<1>12. CASE ServeConfirmImport
  <2> DEFINE token == Head(requests).token
  <2>1. Head(requests).kind = "import"
    BY <1>12 DEF ServeConfirmImport, Take
  <2>2. UNCHANGED disk \/ (Good(token, "import") /\ Unchanged(token) /\ disk' = tokens[token].save)
    BY <1>12 DEF ServeConfirmImport, Written
  <2>3. CASE UNCHANGED disk
    BY <2>3 DEF ConfirmedWrite
  <2>4. CASE Good(token, "import") /\ Unchanged(token) /\ disk' = tokens[token].save
    <3>1. token \notin spent
      BY <2>4 DEF Good, OnePlace
    <3>2. disk' = file.save
      BY <2>4 DEF Good, Unchanged, TokensHold, Holds
    <3> QED BY <2>1, <3>1, <3>2 DEF ConfirmedWrite
  <2> QED BY <2>2, <2>3, <2>4
<1>13. CASE ServeConfirmReset
  <2> DEFINE token == Head(requests).token
  <2>1. Head(requests).kind = "reset"
    BY <1>13 DEF ServeConfirmReset, Take
  <2>2. \/ UNCHANGED disk
        \/ Good(token, "reset") /\ Current(token) /\ disk' = tokens[token].save /\ disk \in archive'
    BY <1>13 DEF ServeConfirmReset, Written, Archived
  <2>3. CASE UNCHANGED disk
    BY <2>3 DEF ConfirmedWrite
  <2>4. CASE Good(token, "reset") /\ Current(token) /\ disk' = tokens[token].save /\ disk \in archive'
    <3>1. token \notin spent
      BY <2>4 DEF Good, OnePlace
    <3>2. disk' = ResetOf(disk)
      BY <2>4 DEF Good, Current, TokensHold, Holds
    <3> QED BY <2>1, <2>4, <3>1, <3>2 DEF ConfirmedWrite
  <2> QED BY <2>2, <2>3, <2>4
<1>14. CASE ServeProbe
  BY <1>14 DEF ServeProbe, main, ConfirmedWrite
<1>15. CASE CommitResolved
  BY <1>15 DEF CommitResolved, main, ConfirmedWrite
<1>16. CASE PreviewResolved
  BY <1>16 DEF PreviewResolved, main, ConfirmedWrite
<1>17. CASE ConfirmResolved
  BY <1>17 DEF ConfirmResolved, main, ConfirmedWrite
<1>18. CASE Loaded
  BY <1>18 DEF Loaded, main, ConfirmedWrite
<1>19. CASE CloseClicked
  BY <1>19 DEF CloseClicked, main, ConfirmedWrite
<1>20. CASE ReportCloseState
  BY <1>20 DEF ReportCloseState, main, ConfirmedWrite
<1>21. CASE ServeReport
  BY <1>21 DEF ServeReport, main, ConfirmedWrite
<1>22. CASE CloseTimeout
  BY <1>22 DEF CloseTimeout, main, ConfirmedWrite
<1>23. CASE AnswerDialog
  BY <1>23 DEF AnswerDialog, main, ConfirmedWrite
<1>24. CASE FileEdited
  BY <1>24 DEF FileEdited, main, ConfirmedWrite
<1>25. CASE Expire
  BY <1>25 DEF Expire, main, ConfirmedWrite
<1>26. CASE UNCHANGED vars
  BY <1>26 DEF vars, main, ConfirmedWrite
<1> QED BY <1>1, <1>2, <1>3, <1>4, <1>5, <1>6, <1>7, <1>8, <1>9, <1>10, <1>11, <1>12, <1>13,
           <1>14, <1>15, <1>16, <1>17, <1>18, <1>19, <1>20, <1>21, <1>22, <1>23, <1>24, <1>25,
           <1>26 DEF Next

(* An import puts on disk what the file holds at that moment, and a reset  *)
(* what its preview promised, archiving the save it replaces; each on one  *)
(* confirmation of its own, whatever happened since the preview            *)
(* (confirmImport and confirmProgressReset of save-transfer.cjs).          *)
THEOREM WritesAsConfirmedHolds == Spec => WritesAsConfirmed
<1>1. IInv /\ [Next]_vars => [ConfirmedWrite]_vars
  BY StepWritesAsConfirmed DEF IInv
<1>2. [ConfirmedWrite]_vars => [disk' # disk /\ Head(requests).kind # "commit" =>
        LET request == Head(requests) IN
          /\ request.token \notin spent
          /\ IF request.kind = "import" THEN disk' = file.save
             ELSE disk' = ResetOf(disk) /\ disk \in archive']_vars
  BY DEF ConfirmedWrite
<1> QED BY <1>1, <1>2, IInvHolds, PTL DEF Spec, WritesAsConfirmed
-----------------------------------------------------------------------------
(* The messages that concern a commit, or an import or reset that was      *)
(* confirmed, and what their order says.  Commits are sent in the order of *)
(* their numbers; one that is under way with an import or reset comes      *)
(* before it; and of several answers of the disk the last is the disk.     *)
IsCommit(m) == m.kind = "commit"
IsProbe(m) == m.kind = "probe"
Said(s) == {s[i] : i \in {j \in DOMAIN s : IsCommit(s[j]) \/ Crosses(s[j])}}

Sorted(s) ==
  \A i, j \in DOMAIN s : i < j /\ IsCommit(s[i]) /\ IsCommit(s[j]) => s[i].id <= s[j].id
CommitsFirst(s) == \A i, j \in DOMAIN s : i < j /\ Crosses(s[i]) => ~IsCommit(s[j])
LastProbe(s, save) ==
  \A i \in DOMAIN s :
    IsProbe(s[i]) /\ (\A j \in DOMAIN s : IsProbe(s[j]) => j <= i) => s[i].save = save

(* What is said once a message is sent, and what it leaves in order.       *)
LEMMA SaidAfterAppend ==
  ASSUME NEW E, NEW s \in Seq(E), NEW e \in E
  PROVE  LET t == Append(s, e)
         IN /\ Said(t) = IF IsCommit(e) \/ Crosses(e) THEN Said(s) \cup {e} ELSE Said(s)
            /\ Sorted(s) /\ (IsCommit(e) => \A m \in Said(s) : IsCommit(m) => m.id <= e.id)
                 => Sorted(t)
            /\ CommitsFirst(s) /\ (IsCommit(e) => \A m \in Said(s) : ~Crosses(m))
                 => CommitsFirst(t)
            /\ ~IsProbe(e) => \A save : LastProbe(s, save) => LastProbe(t, save)
            /\ IsProbe(e) => LastProbe(t, e.save)
<1> DEFINE t == Append(s, e)
           n == Len(s) + 1
<1>1. t \in Seq(E) /\ Len(t) = n /\ Len(s) \in Nat
  OBVIOUS
<1>2. DOMAIN s = 1..Len(s) /\ DOMAIN t = 1..n
  BY <1>1
<1>3. \A i \in DOMAIN s : i \in DOMAIN t /\ t[i] = s[i] /\ i < n
  BY <1>1, <1>2
<1>4. n \in DOMAIN t /\ t[n] = e
  BY <1>1, <1>2
<1>5. \A i \in DOMAIN t : i \in DOMAIN s \/ i = n
  BY <1>1, <1>2
<1>6. \A i \in DOMAIN t : i \in Int /\ i <= n
  BY <1>1, <1>2
<1> HIDE DEF t, n
<1>7. Said(t) = IF IsCommit(e) \/ Crosses(e) THEN Said(s) \cup {e} ELSE Said(s)
  BY <1>3, <1>4, <1>5 DEF Said
<1>8. \A i \in DOMAIN s : IsCommit(s[i]) \/ Crosses(s[i]) => s[i] \in Said(s)
  BY DEF Said
<1>9. Sorted(s) /\ (IsCommit(e) => \A m \in Said(s) : IsCommit(m) => m.id <= e.id) => Sorted(t)
  <2> SUFFICES ASSUME Sorted(s), IsCommit(e) => \A m \in Said(s) : IsCommit(m) => m.id <= e.id,
                      NEW i \in DOMAIN t, NEW j \in DOMAIN t, i < j, IsCommit(t[i]), IsCommit(t[j])
               PROVE  t[i].id <= t[j].id
    BY DEF Sorted
  <2>1. i \in DOMAIN s
    BY <1>4, <1>5, <1>6
  <2>2. CASE j \in DOMAIN s
    BY <1>3, <2>1, <2>2 DEF Sorted
  <2>3. CASE j = n
    BY <1>3, <1>4, <1>8, <2>1, <2>3
  <2> QED
    BY <1>5, <2>2, <2>3
<1>10. CommitsFirst(s) /\ (IsCommit(e) => \A m \in Said(s) : ~Crosses(m)) => CommitsFirst(t)
  <2> SUFFICES ASSUME CommitsFirst(s), IsCommit(e) => \A m \in Said(s) : ~Crosses(m),
                      NEW i \in DOMAIN t, NEW j \in DOMAIN t, i < j, Crosses(t[i])
               PROVE  ~IsCommit(t[j])
    BY DEF CommitsFirst
  <2>1. i \in DOMAIN s
    BY <1>4, <1>5, <1>6
  <2>2. CASE j \in DOMAIN s
    BY <1>3, <2>1, <2>2 DEF CommitsFirst
  <2>3. CASE j = n
    BY <1>3, <1>4, <1>8, <2>1, <2>3
  <2> QED
    BY <1>5, <2>2, <2>3
<1>11. ASSUME ~IsProbe(e), NEW save, LastProbe(s, save)
       PROVE  LastProbe(t, save)
  BY <1>3, <1>4, <1>5, <1>11 DEF LastProbe
<1>12. ASSUME IsProbe(e)
       PROVE  LastProbe(t, e.save)
  <2> SUFFICES ASSUME NEW i \in DOMAIN t, \A j \in DOMAIN t : IsProbe(t[j]) => j <= i
               PROVE  t[i].save = e.save
    BY DEF LastProbe
  <2>1. n <= i /\ i <= n /\ i \in Int /\ n \in Int
    BY <1>4, <1>6, <1>12
  <2> QED
    BY <1>4, <2>1
<1> QED
  BY <1>7, <1>9, <1>10, <1>11, <1>12 DEF t

(* What is said once the first message is taken, and what order shows of   *)
(* it.                                                                     *)
LEMMA SaidAfterTail ==
  ASSUME NEW E, NEW s \in Seq(E), s # <<>>
  PROVE  LET t == Tail(s)
             e == Head(s)
         IN /\ Said(s) = IF IsCommit(e) \/ Crosses(e) THEN Said(t) \cup {e} ELSE Said(t)
            /\ Sorted(s) => /\ Sorted(t)
                            /\ IsCommit(e) => \A m \in Said(t) : IsCommit(m) => e.id <= m.id
            /\ CommitsFirst(s) => /\ CommitsFirst(t)
                                  /\ Crosses(e) => \A m \in Said(t) : ~IsCommit(m)
            /\ \A save : LastProbe(s, save) =>
                 /\ LastProbe(t, save)
                 /\ IsProbe(e) /\ (\A m \in Said(t) : ~IsProbe(m)) => e.save = save
<1> DEFINE t == Tail(s)
           e == Head(s)
<1>1. t \in Seq(E) /\ Len(t) = Len(s) - 1 /\ Len(s) \in Nat /\ Len(s) > 0
  OBVIOUS
<1>2. DOMAIN s = 1..Len(s) /\ DOMAIN t = 1..(Len(s) - 1)
  BY <1>1
<1>3. \A i \in DOMAIN t : i + 1 \in DOMAIN s /\ t[i] = s[i + 1] /\ 1 < i + 1 /\ i \in Int
  BY <1>1, <1>2
<1>4. 1 \in DOMAIN s /\ e = s[1]
  BY <1>1, <1>2
<1>5. \A i \in DOMAIN s : i = 1 \/ i - 1 \in DOMAIN t
  BY <1>1, <1>2
<1>6. \A i \in DOMAIN s : i \in Int /\ i - 1 + 1 = i /\ 1 <= i
  BY <1>1, <1>2
<1> HIDE DEF t, e
<1>7. \A i \in DOMAIN s : i # 1 => t[i - 1] = s[i]
  BY <1>3, <1>5, <1>6
<1>8. Said(s) = IF IsCommit(e) \/ Crosses(e) THEN Said(t) \cup {e} ELSE Said(t)
  BY <1>3, <1>4, <1>5, <1>7 DEF Said
<1>9. ASSUME Sorted(s)
      PROVE  Sorted(t) /\ (IsCommit(e) => \A m \in Said(t) : IsCommit(m) => e.id <= m.id)
  <2>1. Sorted(t)
    <3> SUFFICES ASSUME NEW i \in DOMAIN t, NEW j \in DOMAIN t, i < j,
                        IsCommit(t[i]), IsCommit(t[j])
                 PROVE  t[i].id <= t[j].id
      BY DEF Sorted
    <3>1. i + 1 < j + 1
      BY <1>3
    <3> QED
      BY <1>3, <1>9, <3>1 DEF Sorted
  <2>2. ASSUME IsCommit(e), NEW m \in Said(t), IsCommit(m)
        PROVE  e.id <= m.id
    <3>1. PICK i \in DOMAIN t : m = t[i]
      BY <2>2 DEF Said
    <3> QED
      BY <1>3, <1>4, <1>9, <2>2, <3>1 DEF Sorted
  <2> QED
    BY <2>1, <2>2
<1>10. ASSUME CommitsFirst(s)
       PROVE  CommitsFirst(t) /\ (Crosses(e) => \A m \in Said(t) : ~IsCommit(m))
  <2>1. CommitsFirst(t)
    <3> SUFFICES ASSUME NEW i \in DOMAIN t, NEW j \in DOMAIN t, i < j, Crosses(t[i])
                 PROVE  ~IsCommit(t[j])
      BY DEF CommitsFirst
    <3>1. i + 1 < j + 1
      BY <1>3
    <3> QED
      BY <1>3, <1>10, <3>1 DEF CommitsFirst
  <2>2. ASSUME Crosses(e), NEW m \in Said(t)
        PROVE  ~IsCommit(m)
    <3>1. PICK i \in DOMAIN t : m = t[i]
      BY <2>2 DEF Said
    <3> QED
      BY <1>3, <1>4, <1>10, <2>2, <3>1 DEF CommitsFirst
  <2> QED
    BY <2>1, <2>2
<1>11. ASSUME NEW save, LastProbe(s, save)
       PROVE  LastProbe(t, save)
  <2> SUFFICES ASSUME NEW i \in DOMAIN t, IsProbe(t[i]),
                      \A j \in DOMAIN t : IsProbe(t[j]) => j <= i
               PROVE  t[i].save = save
    BY DEF LastProbe
  <2>1. ASSUME NEW j \in DOMAIN s, IsProbe(s[j])
        PROVE  j <= i + 1
    <3>1. CASE j = 1
      BY <1>3, <3>1
    <3>2. CASE j # 1
      <4>1. j - 1 \in DOMAIN t /\ t[j - 1] = s[j]
        BY <1>5, <1>7, <3>2
      <4>2. j - 1 <= i
        BY <2>1, <4>1
      <4> QED
        BY <1>3, <1>6, <4>2
    <3> QED
      BY <3>1, <3>2
  <2> QED
    BY <1>3, <1>11, <2>1 DEF LastProbe
<1>12. ASSUME NEW save, LastProbe(s, save), IsProbe(e), \A m \in Said(t) : ~IsProbe(m)
       PROVE  e.save = save
  <2>1. ASSUME NEW j \in DOMAIN s, IsProbe(s[j])
        PROVE  j <= 1
    <3>1. CASE j # 1
      <4>1. j - 1 \in DOMAIN t /\ t[j - 1] = s[j]
        BY <1>5, <1>7, <3>1
      <4>2. t[j - 1] \in Said(t)
        BY <2>1, <4>1 DEF Said, IsProbe, Crosses
      <4> QED
        BY <1>12, <2>1, <4>1, <4>2
    <3> QED
      BY <3>1
  <2> QED
    BY <1>4, <1>12, <2>1 DEF LastProbe
<1> QED
  BY <1>8, <1>9, <1>10, <1>11, <1>12 DEF t, e

-----------------------------------------------------------------------------
(* Commits are numbered in the order they are sent, retries included.      *)
Numbered ==
  /\ Sorted(requests)
  /\ \A m \in Said(requests) \cup Said(replies) : IsCommit(m) => m.id \in 1..commits
  /\ pending # None => pending.id = commits /\ commits # 0

(* The last commit is acknowledged, or its receipt is on its way.          *)
Acked ==
  \/ pending = None
  \/ \E m \in Said(replies) : IsCommit(m) /\ m.ok /\ m.id = commits

(* An import or reset has written, and memory is still to follow.          *)
Landed ==
  \/ \E m \in Said(replies) : m.kind \in {"import", "reset"} /\ m.ok
  \/ \E m \in Said(requests) : IsProbe(m)

(* When nothing crossed: a commit not yet acknowledged is of what is in    *)
(* memory and under way alone; and once the last one is, the disk agrees   *)
(* with memory, or an answer on its way will make them agree.              *)
Agrees ==
  /\ pending # None => ~Crossing /\ pending.save = memory
  /\ \A m \in Said(requests) : IsCommit(m) /\ m.id = commits => m.save = memory
  /\ CommitsFirst(requests)
  /\ (\E m \in Said(replies) : Crosses(m)) \/ (\E m \in Said(requests) : IsProbe(m))
       => \A m \in Said(requests) : ~IsCommit(m)
  /\ Acked => \A m \in Said(requests) : IsCommit(m) => m.id = commits
  /\ Acked => \/ Landed
              \/ /\ LastProbe(replies, disk)
                 /\ (\A m \in Said(replies) : ~IsProbe(m)) => disk = memory

SavedInv == Numbered /\ (~crossed => Agrees)

(* Whether anything crosses is read off what is said.                      *)
LEMMA CrossingSaid == Crossing <=> \E m \in Said(requests) \cup Said(replies) : Crosses(m)
BY DEF Crossing, Said

(* Steps that concern neither commits nor confirmed imports and resets.    *)
Quiet ==
  /\ UNCHANGED <<disk, memory, commits, pending, crossed>>
  /\ Said(requests') = Said(requests) /\ Said(replies') = Said(replies)
  /\ Sorted(requests) => Sorted(requests')
  /\ CommitsFirst(requests) => CommitsFirst(requests')
  /\ LastProbe(replies, disk) => LastProbe(replies', disk)

(* A quiet step leaves everything as it is said.                           *)
LEMMA QuietKeeps == ASSUME SavedInv, Quiet PROVE SavedInv'
<1>1. Numbered'
  BY DEF SavedInv, Quiet, Numbered
<1>2. /\ Crossing' <=> Crossing
      /\ Acked' <=> Acked
      /\ Landed' <=> Landed
  BY CrossingSaid DEF Quiet, Acked, Landed, Crossing, Said
<1>3. ~crossed' => Agrees'
  BY <1>2 DEF SavedInv, Quiet, Agrees
<1> QED
  BY <1>1, <1>3 DEF SavedInv

(* No message moves: quiet.                                                *)
LEMMA SameQueues ==
  ASSUME UNCHANGED <<disk, memory, commits, pending, crossed>>,
         requests' = requests, replies' = replies
  PROVE  Quiet
BY DEF Quiet

(* A question about a reset and the report of a close are not commits.     *)
LEMMA QuietRequest ==
  ASSUME QueuesOK, UNCHANGED <<disk, memory, commits, pending, crossed, replies>>,
         NEW e \in Requests, ~IsCommit(e), ~Crosses(e), requests' = Append(requests, e)
  PROVE  Quiet
BY SaidAfterAppend DEF QueuesOK, Quiet

(* The main process takes such a request, and may answer in kind: quiet.   *)
LEMMA QuietServed ==
  ASSUME QueuesOK, UNCHANGED <<disk, memory, commits, pending, crossed>>,
         requests # <<>>, requests' = Tail(requests),
         ~IsCommit(Head(requests)), ~Crosses(Head(requests)),
         \/ UNCHANGED replies
         \/ \E e \in Replies : ~IsCommit(e) /\ ~Crosses(e) /\ replies' = Append(replies, e)
  PROVE  Quiet
<1>1. /\ Said(requests') = Said(requests)
      /\ Sorted(requests) => Sorted(requests')
      /\ CommitsFirst(requests) => CommitsFirst(requests')
  BY SaidAfterTail DEF QueuesOK
<1>2. ASSUME NEW e \in Replies, ~IsCommit(e), ~Crosses(e), replies' = Append(replies, e)
      PROVE  /\ Said(replies') = Said(replies)
             /\ LastProbe(replies, disk) => LastProbe(replies', disk)
  <2>1. ~IsProbe(e)
    BY <1>2 DEF IsProbe, Crosses
  <2> QED
    BY <1>2, <2>1, SaidAfterAppend DEF QueuesOK
<1> QED
  BY <1>1, <1>2 DEF Quiet

(* An answer to a preview: quiet.                                          *)
LEMMA QuietReply ==
  ASSUME QueuesOK, UNCHANGED <<disk, memory, commits, pending, crossed, requests>>,
         NEW e \in Replies, ~IsCommit(e), ~Crosses(e), replies' = Append(replies, e)
  PROVE  Quiet
<1>1. ~IsProbe(e)
  BY DEF IsProbe, Crosses
<1>2. /\ Said(replies') = Said(replies)
      /\ LastProbe(replies, disk) => LastProbe(replies', disk)
  BY <1>1, SaidAfterAppend DEF QueuesOK
<1> QED
  BY <1>2 DEF Quiet

(* The renderer takes such an answer: quiet.                               *)
LEMMA QuietReceived ==
  ASSUME QueuesOK, UNCHANGED <<disk, memory, commits, pending, crossed, requests>>,
         replies # <<>>, replies' = Tail(replies), ~IsCommit(Head(replies)), ~Crosses(Head(replies))
  PROVE  Quiet
<1>1. /\ Said(replies') = Said(replies)
      /\ LastProbe(replies, disk) => LastProbe(replies', disk)
  BY SaidAfterTail DEF QueuesOK
<1> QED
  BY <1>1 DEF Quiet

(* The actions that are quiet.                                             *)
LEMMA QuietSteps ==
  ASSUME TypeInv,
         \/ PrepareImport \/ PrepareReset \/ CancelPreview \/ LeaveSettings
         \/ ChooseFile \/ ServePrepareReset \/ PreviewResolved
         \/ CloseClicked \/ ServeReport \/ CloseTimeout \/ AnswerDialog
         \/ FileEdited \/ Expire \/ UNCHANGED vars
  PROVE  Quiet
<1> QueuesOK
  BY DEF TypeInv
<1> USE DEF IsCommit, Crosses
<1>1. CASE PrepareImport
  BY <1>1, SameQueues DEF PrepareImport, main
<1>2. CASE PrepareReset
  <2> DEFINE e == [kind |-> "prepareReset", op |-> ops + 1]
  <2>1. e \in Requests
    BY DEF Requests, TypeInv, RendererOK
  <2> QED
    BY <1>2, <2>1, QuietRequest DEF PrepareReset, main
<1>3. CASE CancelPreview
  BY <1>3, SameQueues DEF CancelPreview, main
<1>4. CASE LeaveSettings
  BY <1>4, SameQueues DEF LeaveSettings, main
<1>5. CASE ChooseFile
  <2>1. PICK op \in Nat, ok \in BOOLEAN :
          replies' = Append(replies, [kind |-> "import-preview", op |-> op, ok |-> ok])
    BY <1>5 DEF ChooseFile, Answer, TypeInv, RendererOK
  <2>2. [kind |-> "import-preview", op |-> op, ok |-> ok] \in Replies
    BY DEF Replies
  <2> QED
    BY <1>5, <2>1, <2>2, QuietReply DEF ChooseFile
<1>6. CASE ServePrepareReset
  <2>1. /\ requests # <<>> /\ requests' = Tail(requests) /\ Head(requests).kind = "prepareReset"
        /\ replies' = Append(replies, [kind |-> "reset-preview", op |-> Head(requests).op, ok |-> TRUE])
    BY <1>6 DEF ServePrepareReset, Take, Answer
  <2>2. Head(requests).op \in Nat
    BY <1>6, Taken DEF ServePrepareReset, Requests
  <2>3. [kind |-> "reset-preview", op |-> Head(requests).op, ok |-> TRUE] \in Replies
    BY <2>2 DEF Replies
  <2> QED
    BY <1>6, <2>1, <2>3, QuietServed DEF ServePrepareReset, renderer
<1>7. CASE PreviewResolved
  <2>1. /\ replies # <<>> /\ replies' = Tail(replies)
        /\ Head(replies).kind \in {"import-preview", "reset-preview"}
    BY <1>7 DEF PreviewResolved, Receive
  <2> QED
    BY <1>7, <2>1, QuietReceived DEF PreviewResolved, main
<1>8. CASE CloseClicked \/ CloseTimeout \/ AnswerDialog
  BY <1>8, SameQueues DEF CloseClicked, CloseTimeout, AnswerDialog, renderer, main
<1>9. CASE ServeReport
  <2>1. requests # <<>> /\ requests' = Tail(requests) /\ Head(requests).kind = "report"
    BY <1>9 DEF ServeReport, Take
  <2> QED
    BY <1>9, <2>1, QuietServed DEF ServeReport, renderer, main
<1>10. CASE FileEdited \/ Expire
  BY <1>10, SameQueues DEF FileEdited, Expire, renderer, main
<1>11. CASE UNCHANGED vars
  BY <1>11, SameQueues DEF vars, renderer, main
<1> QED
  BY <1>1, <1>2, <1>3, <1>4, <1>5, <1>6, <1>7, <1>8, <1>9, <1>10, <1>11

-----------------------------------------------------------------------------
(* A new commit: whatever is under way is older, and if an import or reset *)
(* is among it they cross.                                                 *)
LEMMA SendKeeps ==
  ASSUME TypeInv, SavedInv, NEW save \in Saves, Send(save), memory' = save, UNCHANGED replies,
         Said(requests') = Said(requests) \cup {CommitOf(save)}, Sorted(requests')
  PROVE  SavedInv'
<1> DEFINE e == CommitOf(save)
<1>1. /\ commits \in Nat /\ commits' = commits + 1 /\ crossed' = Crossing
      /\ pending' = [id |-> commits + 1, save |-> save]
      /\ IsCommit(e) /\ ~Crosses(e) /\ ~IsProbe(e) /\ e.id = commits + 1 /\ e.save = save
  BY DEF Send, TypeInv, RendererOK, CommitOf, IsCommit, IsProbe, Crosses
<1>2. pending' # None
  BY <1>1 DEF None
<1>3. \A m \in Said(requests) \cup Said(replies) : IsCommit(m) => m.id \in 1..commits
  BY DEF SavedInv, Numbered
<1> HIDE DEF e
<1>4. Said(requests') = Said(requests) \cup {e}
  BY DEF e
<1>5. Numbered'
  BY <1>1, <1>3, <1>4 DEF Numbered
<1>6. ASSUME ~crossed'
      PROVE  Agrees'
  <2>1. \A m \in Said(requests') \cup Said(replies') : ~Crosses(m)
    BY <1>1, <1>4, <1>6, CrossingSaid
  <2>2. ~Crossing'
    BY <2>1 DEF Crossing, Said
  <2>3. CommitsFirst(requests')
    BY <2>1 DEF CommitsFirst, Said
  <2>4. \A m \in Said(requests') : IsCommit(m) /\ m.id = commits' => m.save = memory'
    BY <1>1, <1>3, <1>4
  <2>5. ~Acked'
    <3>1. \A m \in Said(replies) : IsCommit(m) => m.id # commits'
      BY <1>1, <1>3
    <3> QED
      BY <1>2, <3>1 DEF Acked
  <2>6. ~\E m \in Said(requests') : IsProbe(m)
    BY <2>1 DEF IsProbe, Crosses
  <2> QED
    BY <1>1, <2>1, <2>2, <2>3, <2>4, <2>5, <2>6 DEF Agrees
<1> QED
  BY <1>5, <1>6 DEF SavedInv

(* The queue after a commit is sent.                                       *)
LEMMA CommitSent ==
  ASSUME TypeInv, SavedInv, NEW save \in Saves
  PROVE  LET t == Append(requests, CommitOf(save))
         IN /\ t \in Seq(Requests)
            /\ Said(t) = Said(requests) \cup {CommitOf(save)} /\ Sorted(t)
<1> DEFINE e == CommitOf(save)
<1>1. /\ commits \in Nat /\ e \in Requests /\ IsCommit(e) /\ e.id = commits + 1
      /\ requests \in Seq(Requests)
  BY DEF TypeInv, RendererOK, QueuesOK, CommitOf, Requests, IsCommit
<1>2. \A m \in Said(requests) : IsCommit(m) => m.id <= e.id
  BY <1>1 DEF SavedInv, Numbered
<1>3. Sorted(requests)
  BY DEF SavedInv, Numbered
<1> HIDE DEF e
<1>4. Append(requests, e) \in Seq(Requests)
  BY <1>1
<1> QED
  BY <1>1, <1>2, <1>3, <1>4, SaidAfterAppend DEF e

(* The actions that send a new commit.                                     *)
LEMMA CommitSteps ==
  ASSUME TypeInv, SavedInv, Change \/ CommitLifecycle \/ ReportCloseState
  PROVE  SavedInv'
<1>1. CASE Change
  <2>1. PICK save \in Saves : memory' = save /\ Send(save) /\ requests' = Append(requests, CommitOf(save))
    BY <1>1 DEF Change
  <2>2. UNCHANGED replies
    BY <1>1 DEF Change
  <2> QED
    BY <2>1, <2>2, CommitSent, SendKeeps
<1>2. CASE CommitLifecycle
  <2>1. memory \in Saves
    BY DEF TypeInv, RendererOK
  <2> QED
    BY <1>2, <2>1, CommitSent, SendKeeps DEF CommitLifecycle
<1>3. CASE ReportCloseState
  <2> DEFINE t == Append(requests, CommitOf(memory))
             r == [kind |-> "report", unsaved |-> pending'.id # 0]
  <2>1. memory \in Saves /\ r \in Requests /\ ~IsCommit(r) /\ ~Crosses(r)
    BY DEF TypeInv, RendererOK, Requests, IsCommit, Crosses
  <2>2. requests' = Append(t, r) /\ Send(memory) /\ memory' = memory /\ UNCHANGED replies
    BY <1>3 DEF ReportCloseState
  <2>3. /\ t \in Seq(Requests) /\ Sorted(t)
        /\ Said(t) = Said(requests) \cup {CommitOf(memory)}
    BY <2>1, CommitSent
  <2> HIDE DEF t, r
  <2>4. Sorted(requests') /\ Said(requests') = Said(t)
    BY <2>1, <2>2, <2>3, SaidAfterAppend
  <2> QED
    BY <2>1, <2>2, <2>3, <2>4, SendKeeps
<1> QED
  BY <1>1, <1>2, <1>3

(* A retry sends the last commit again, and nothing is under way with it.  *)
LEMMA RetryKeeps == ASSUME TypeInv, SavedInv, RetryPendingCommit PROVE SavedInv'
<1>1. UNCHANGED <<disk, memory, commits, pending, crossed, replies>>
  BY DEF RetryPendingCommit, renderer, main
<1>2. CASE UNCHANGED requests
  BY <1>1, <1>2, SameQueues, QuietKeeps
<1>3. CASE pending # None
  <2> DEFINE e == [kind |-> "commit", id |-> pending.id, save |-> pending.save]
  <2>1. requests' = Append(requests, e)
    BY <1>3 DEF RetryPendingCommit
  <2>2. /\ e \in Requests /\ IsCommit(e) /\ ~Crosses(e) /\ ~IsProbe(e)
        /\ e.id = commits /\ e.save = pending.save
        /\ commits \in Nat /\ commits # 0 /\ requests \in Seq(Requests)
    BY <1>3 DEF TypeInv, RendererOK, QueuesOK, Requests, IsCommit, Crosses, IsProbe,
                SavedInv, Numbered
  <2> HIDE DEF e
  <2>3. \A m \in Said(requests) : IsCommit(m) => m.id <= e.id
    BY <2>2 DEF SavedInv, Numbered
  <2>4. /\ Said(requests') = Said(requests) \cup {e}
        /\ Sorted(requests) => Sorted(requests')
        /\ CommitsFirst(requests) /\ (\A m \in Said(requests) : ~Crosses(m))
             => CommitsFirst(requests')
    BY <2>1, <2>2, <2>3, SaidAfterAppend
  <2>5. Numbered'
    BY <1>1, <2>2, <2>4 DEF SavedInv, Numbered
  <2>6. ASSUME ~crossed'
        PROVE  Agrees'
    <3>1. Agrees /\ ~Crossing /\ pending.save = memory
      BY <1>1, <1>3, <2>6 DEF SavedInv, Agrees
    <3>2. \A m \in Said(requests) \cup Said(replies) : ~Crosses(m)
      BY <3>1, CrossingSaid
    <3>3. \A m \in Said(requests') \cup Said(replies') : ~Crosses(m)
      BY <1>1, <2>2, <2>4, <3>2
    <3>4. ~Crossing'
      BY <3>3 DEF Crossing, Said
    <3>5. (Acked' <=> Acked) /\ (Landed' <=> Landed)
      BY <1>1, <2>2, <2>4 DEF Acked, Landed
    <3>6. CommitsFirst(requests')
      BY <2>4, <3>1, <3>2 DEF Agrees
    <3>7. ~\E m \in Said(requests') : IsProbe(m)
      BY <3>3 DEF IsProbe, Crosses
    <3> QED
      BY <1>1, <2>2, <2>4, <3>1, <3>3, <3>4, <3>5, <3>6, <3>7 DEF Agrees
  <2> QED
    BY <2>5, <2>6 DEF SavedInv
<1> QED
  BY <1>2, <1>3 DEF RetryPendingCommit

(* A confirmation joins what is under way behind every commit.             *)
LEMMA ConfirmKeeps == ASSUME TypeInv, SavedInv, ConfirmPending PROVE SavedInv'
<1> DEFINE e == [kind |-> panel.kind, op |-> ops + 1, token |-> panel.token]
<1>1. /\ requests' = Append(requests, e) /\ crossed' = (crossed \/ pending # None)
      /\ UNCHANGED <<disk, memory, commits, pending, replies>>
  BY DEF ConfirmPending, main
<1>2. /\ e \in Requests /\ Crosses(e) /\ ~IsCommit(e) /\ ~IsProbe(e)
      /\ requests \in Seq(Requests)
  BY DEF ConfirmPending, TypeInv, RendererOK, QueuesOK, Requests, Crosses, IsCommit, IsProbe
<1> HIDE DEF e
<1>3. /\ Said(requests') = Said(requests) \cup {e}
      /\ Sorted(requests) => Sorted(requests')
      /\ CommitsFirst(requests) => CommitsFirst(requests')
  BY <1>1, <1>2, SaidAfterAppend
<1>4. Numbered'
  BY <1>1, <1>2, <1>3 DEF SavedInv, Numbered
<1>5. ASSUME ~crossed'
      PROVE  Agrees'
  <2>1. Agrees /\ pending = None
    BY <1>1, <1>5 DEF SavedInv
  <2>2. (Acked' <=> Acked) /\ (Landed' <=> Landed)
    BY <1>1, <1>2, <1>3 DEF Acked, Landed
  <2> QED
    BY <1>1, <1>2, <1>3, <2>1, <2>2 DEF Agrees
<1> QED
  BY <1>4, <1>5 DEF SavedInv

(* A queue without answers to the question what is on disk.                *)
LEMMA NoProbes ==
  ASSUME NEW s, \A m \in Said(s) : ~IsProbe(m), NEW save
  PROVE  LastProbe(s, save)
BY DEF LastProbe, Said, IsProbe, Crosses

(* The main process writes a commit: once the last is acknowledged, only   *)
(* copies of it are left, and it is what is in memory.                     *)
LEMMA ServeCommitKeeps == ASSUME TypeInv, SavedInv, ServeCommit PROVE SavedInv'
<1> DEFINE e == Head(requests)
<1>1. PICK ok \in BOOLEAN :
        /\ replies' = Append(replies, [kind |-> "commit", id |-> e.id, ok |-> ok])
        /\ disk' = e.save \/ (~ok /\ UNCHANGED disk)
  BY DEF ServeCommit, Answer
<1> DEFINE r == [kind |-> "commit", id |-> e.id, ok |-> ok]
<1>2. /\ requests # <<>> /\ requests' = Tail(requests) /\ requests \in Seq(Requests)
      /\ UNCHANGED <<memory, commits, pending, crossed>>
  BY DEF ServeCommit, Take, renderer, TypeInv, QueuesOK
<1>3. IsCommit(e) /\ ~IsProbe(e) /\ ~Crosses(e) /\ e.id \in Nat /\ commits \in Nat
  BY Taken DEF ServeCommit, IsCommit, IsProbe, Crosses, TypeInv, RendererOK, Requests
<1>4. /\ r \in Replies /\ replies \in Seq(Replies) /\ r.ok = ok /\ r.id = e.id
      /\ IsCommit(r) /\ ~IsProbe(r) /\ ~Crosses(r)
  BY <1>3 DEF Replies, IsCommit, IsProbe, Crosses, TypeInv, QueuesOK
<1> HIDE DEF e, r
<1>5. Said(replies') = Said(replies) \cup {r}
  BY <1>1, <1>4, SaidAfterAppend DEF r
<1>6. /\ Said(requests) = Said(requests') \cup {e}
      /\ Sorted(requests) => /\ Sorted(requests')
                             /\ \A m \in Said(requests') : IsCommit(m) => e.id <= m.id
      /\ CommitsFirst(requests) => CommitsFirst(requests')
  BY <1>2, <1>3, SaidAfterTail DEF e
<1>7. Numbered'
  BY <1>2, <1>3, <1>4, <1>5, <1>6 DEF SavedInv, Numbered
<1>8. ASSUME ~crossed'
      PROVE  Agrees'
  <2>1. Agrees
    BY <1>2, <1>8 DEF SavedInv
  <2>2. (\A m \in Said(replies) : ~Crosses(m)) /\ (\A m \in Said(requests) : ~IsProbe(m))
    BY <1>3, <1>6, <2>1 DEF Agrees
  <2>3. (\A m \in Said(replies') : ~Crosses(m)) /\ (\A m \in Said(requests') : ~IsProbe(m))
    BY <1>4, <1>5, <1>6, <2>2
  <2>4. \A m \in Said(replies') : ~IsProbe(m)
    BY <2>3 DEF IsProbe, Crosses
  <2>5. LastProbe(replies', disk')
    BY <2>4, NoProbes
  <2>6. ~Crossing => ~Crossing'
    BY <1>6, <2>3, CrossingSaid DEF Crossing, Said
  <2>7. Acked' => Acked \/ (ok /\ e.id = commits)
    BY <1>2, <1>4, <1>5 DEF Acked
  <2>8. ASSUME Acked'
        PROVE  disk' = memory /\ \A m \in Said(requests') : IsCommit(m) => m.id = commits
    <3>1. CASE ok /\ e.id = commits
      <4>1. disk' = memory
        BY <1>1, <1>3, <1>6, <2>1, <3>1 DEF Agrees
      <4>2. ASSUME NEW m \in Said(requests'), IsCommit(m)
            PROVE  m.id = commits
        <5>1. e.id <= m.id /\ m.id \in 1..commits
          BY <1>6, <4>2 DEF SavedInv, Numbered
        <5> QED
          BY <1>3, <3>1, <5>1
      <4> QED
        BY <4>1, <4>2
    <3>2. CASE Acked
      <4>1. \A m \in Said(requests) : IsCommit(m) => m.id = commits /\ m.save = memory
        BY <2>1, <3>2 DEF Agrees
      <4>2. ~Landed
        BY <2>2 DEF Landed, Crosses
      <4>3. disk = memory
        BY <2>1, <2>2, <3>2, <4>2 DEF Agrees, IsProbe, Crosses
      <4> QED
        BY <1>1, <1>3, <1>6, <4>1, <4>3
    <3> QED
      BY <2>7, <2>8, <3>1, <3>2
  <2> QED
    BY <1>2, <1>6, <2>1, <2>3, <2>5, <2>6, <2>8 DEF Agrees
<1> QED
  BY <1>7, <1>8 DEF SavedInv

(* The main process serves an import or reset: behind it there is no       *)
(* commit; and when it wrote, its answer says so, or failed and crossed.   *)
LEMMA ConfirmServed ==
  ASSUME TypeInv, SavedInv,
         requests # <<>>, requests' = Tail(requests),
         Head(requests).kind \in {"import", "reset"},
         UNCHANGED <<memory, commits, pending>>,
         NEW r \in Replies, replies' = Append(replies, r), r.kind \in {"import", "reset"},
         UNCHANGED <<disk, crossed>> \/ (crossed' = (crossed \/ ~r.ok))
  PROVE  SavedInv'
<1> DEFINE e == Head(requests)
<1>1. requests \in Seq(Requests) /\ replies \in Seq(Replies)
  BY DEF TypeInv, QueuesOK
<1>2. /\ Crosses(e) /\ ~IsCommit(e) /\ ~IsProbe(e)
      /\ Crosses(r) /\ ~IsCommit(r) /\ ~IsProbe(r)
  BY DEF Crosses, IsCommit, IsProbe
<1> HIDE DEF e
<1>3. /\ Said(replies') = Said(replies) \cup {r}
      /\ \A save : LastProbe(replies, save) => LastProbe(replies', save)
  BY <1>1, <1>2, SaidAfterAppend
<1>4. /\ Said(requests) = Said(requests') \cup {e}
      /\ Sorted(requests) => Sorted(requests')
      /\ CommitsFirst(requests) => /\ CommitsFirst(requests')
                                   /\ \A m \in Said(requests') : ~IsCommit(m)
  BY <1>1, <1>2, SaidAfterTail DEF e
<1>5. Numbered'
  BY <1>2, <1>3, <1>4 DEF SavedInv, Numbered
<1>6. ASSUME ~crossed'
      PROVE  Agrees'
  <2>1. Agrees
    BY <1>6 DEF SavedInv
  <2>2. Crossing
    BY <1>2, <1>4, CrossingSaid
  <2>3. pending = None
    BY <2>1, <2>2 DEF Agrees
  <2>4. \A m \in Said(requests') : ~IsCommit(m)
    BY <1>4, <2>1 DEF Agrees
  <2>5. Landed => Landed'
    BY <1>2, <1>3, <1>4 DEF Landed
  <2>6. Landed' \/ (LastProbe(replies', disk') /\ ((\A m \in Said(replies') : ~IsProbe(m)) => disk' = memory'))
    <3>1. CASE UNCHANGED disk
      <4>1. Landed \/ (LastProbe(replies, disk) /\ ((\A m \in Said(replies) : ~IsProbe(m)) => disk = memory))
        BY <2>1, <2>3 DEF Agrees, Acked
      <4> QED
        BY <1>2, <1>3, <2>5, <3>1, <4>1
    <3>2. CASE r.ok
      BY <1>3, <3>2 DEF Landed
    <3> QED
      BY <1>6, <3>1, <3>2
  <2> QED
    BY <1>4, <2>1, <2>3, <2>4, <2>6 DEF Agrees
<1> QED
  BY <1>5, <1>6 DEF SavedInv

(* The two actions that serve a confirmation.                              *)
LEMMA ServeConfirmKeeps ==
  ASSUME TypeInv, SavedInv, ServeConfirmImport \/ ServeConfirmReset PROVE SavedInv'
<1> QueuesOK
  BY DEF TypeInv
<1>1. CASE ServeConfirmImport
  <2>1. Take("import") /\ UNCHANGED <<memory, commits, pending>>
    BY <1>1 DEF ServeConfirmImport, renderer
  <2>2. PICK ok \in BOOLEAN :
          /\ Answer(ReplyTo(Head(requests), ok))
          /\ UNCHANGED <<disk, crossed>> \/ crossed' = (crossed \/ ~ok)
    BY <1>1 DEF ServeConfirmImport, Written
  <2> DEFINE r == ReplyTo(Head(requests), ok)
  <2>3. Head(requests).op \in Nat /\ Head(requests).kind = "import"
    BY <2>1, Taken DEF Requests
  <2>4. r \in Replies /\ r.kind = "import" /\ r.ok = ok
    BY <2>3 DEF ReplyTo, Replies
  <2> HIDE DEF r
  <2> QED
    BY <2>1, <2>2, <2>3, <2>4, ConfirmServed DEF Take, Answer, r
<1>2. CASE ServeConfirmReset
  <2>1. Take("reset") /\ UNCHANGED <<memory, commits, pending>>
    BY <1>2 DEF ServeConfirmReset, renderer
  <2>2. PICK ok \in BOOLEAN :
          /\ Answer(ReplyTo(Head(requests), ok))
          /\ UNCHANGED <<disk, crossed>> \/ crossed' = (crossed \/ ~ok)
    BY <1>2 DEF ServeConfirmReset, Written
  <2> DEFINE r == ReplyTo(Head(requests), ok)
  <2>3. Head(requests).op \in Nat /\ Head(requests).kind = "reset"
    BY <2>1, Taken DEF Requests
  <2>4. r \in Replies /\ r.kind = "reset" /\ r.ok = ok
    BY <2>3 DEF ReplyTo, Replies
  <2> HIDE DEF r
  <2> QED
    BY <2>1, <2>2, <2>3, <2>4, ConfirmServed DEF Take, Answer, r
<1> QED
  BY <1>1, <1>2

(* The question what is on disk is answered with what is on disk, and no   *)
(* commit is behind it.                                                    *)
LEMMA ServeProbeKeeps == ASSUME TypeInv, SavedInv, ServeProbe PROVE SavedInv'
<1> DEFINE e == Head(requests)
           r == [kind |-> "probe", op |-> e.op, save |-> disk]
<1>1. /\ requests # <<>> /\ requests' = Tail(requests) /\ replies' = Append(replies, r)
      /\ UNCHANGED <<disk, memory, commits, pending, crossed>>
      /\ requests \in Seq(Requests) /\ replies \in Seq(Replies)
  BY DEF ServeProbe, Take, Answer, renderer, main, TypeInv, QueuesOK
<1>2. Crosses(e) /\ ~IsCommit(e) /\ IsProbe(e) /\ e.op \in Nat
  BY Taken DEF ServeProbe, Crosses, IsCommit, IsProbe, TypeInv, Requests
<1>3. r \in Replies /\ r.save = disk /\ Crosses(r) /\ ~IsCommit(r) /\ IsProbe(r)
  BY <1>2 DEF Replies, TypeInv, DiskOK, Crosses, IsCommit, IsProbe
<1> HIDE DEF e, r
<1>4. Said(replies') = Said(replies) \cup {r} /\ LastProbe(replies', disk)
  BY <1>1, <1>3, SaidAfterAppend
<1>5. /\ Said(requests) = Said(requests') \cup {e}
      /\ Sorted(requests) => Sorted(requests')
      /\ CommitsFirst(requests) => /\ CommitsFirst(requests')
                                   /\ \A m \in Said(requests') : ~IsCommit(m)
  BY <1>1, <1>2, SaidAfterTail DEF e
<1>6. Numbered'
  BY <1>1, <1>2, <1>3, <1>4, <1>5 DEF SavedInv, Numbered
<1>7. ASSUME ~crossed'
      PROVE  Agrees'
  <2>1. Agrees /\ Crossing
    BY <1>1, <1>2, <1>5, <1>7, CrossingSaid DEF SavedInv
  <2>2. pending' = None /\ \A m \in Said(requests') : ~IsCommit(m)
    BY <1>1, <1>5, <2>1 DEF Agrees
  <2>3. \E m \in Said(replies') : IsProbe(m)
    BY <1>3, <1>4
  <2> QED
    BY <1>1, <1>4, <1>5, <2>1, <2>2, <2>3 DEF Agrees
<1> QED
  BY <1>6, <1>7 DEF SavedInv

-----------------------------------------------------------------------------
(* A commit's reply clears the pending commit only when it is its own.     *)
LEMMA CommitResolvedKeeps == ASSUME TypeInv, SavedInv, CommitResolved PROVE SavedInv'
<1> DEFINE e == Head(replies)
<1>1. /\ replies # <<>> /\ replies' = Tail(replies) /\ replies \in Seq(Replies)
      /\ UNCHANGED <<disk, memory, commits, requests, crossed>>
  BY DEF CommitResolved, Receive, main, TypeInv, QueuesOK
<1>2. IsCommit(e) /\ ~Crosses(e) /\ ~IsProbe(e) /\ e.ok \in BOOLEAN
  BY Received DEF CommitResolved, IsCommit, Crosses, IsProbe, TypeInv, Replies
<1>3. pending' = pending \/ (pending' = None /\ e.ok /\ pending.id = e.id)
  BY DEF CommitResolved, PendingAfter
<1> HIDE DEF e
<1>4. /\ Said(replies) = Said(replies') \cup {e}
      /\ \A save : LastProbe(replies, save) => LastProbe(replies', save)
  BY <1>1, <1>2, SaidAfterTail DEF e
<1>5. Numbered'
  BY <1>1, <1>3, <1>4 DEF SavedInv, Numbered
<1>6. ASSUME ~crossed'
      PROVE  Agrees'
  <2>1. Agrees
    BY <1>1, <1>6 DEF SavedInv
  <2>2. Acked' => Acked
    <3>1. CASE pending' = pending
      BY <1>1, <1>4, <3>1 DEF Acked
    <3>2. CASE pending # None /\ e.ok /\ pending.id = e.id
      BY <1>2, <1>4, <3>2 DEF Acked, SavedInv, Numbered
    <3>3. CASE pending = None
      BY <3>3 DEF Acked
    <3> QED
      BY <1>3, <3>1, <3>2, <3>3
  <2>3. Crossing' => Crossing
    BY <1>1, <1>2, <1>4, CrossingSaid DEF Crossing, Said
  <2>4. Landed => Landed'
    BY <1>1, <1>2, <1>4 DEF Landed, IsCommit
  <2>5. pending' # None => ~Crossing' /\ pending'.save = memory'
    BY <1>1, <1>3, <2>1, <2>3 DEF Agrees
  <2> QED
    BY <1>1, <1>2, <1>4, <2>1, <2>2, <2>4, <2>5 DEF Agrees
<1> QED
  BY <1>5, <1>6 DEF SavedInv

(* An import or reset that succeeded is followed by the question what is   *)
(* on disk; one that failed had not written, or it crossed.                *)
LEMMA ConfirmResolvedKeeps == ASSUME TypeInv, SavedInv, ConfirmResolved PROVE SavedInv'
<1> DEFINE e == Head(replies)
           q == [kind |-> "probe", op |-> e.op]
<1>1. /\ replies # <<>> /\ replies' = Tail(replies) /\ replies \in Seq(Replies)
      /\ requests \in Seq(Requests)
      /\ UNCHANGED <<disk, memory, commits, pending, crossed>>
      /\ \/ e.ok /\ requests' = Append(requests, q)
         \/ ~e.ok /\ UNCHANGED requests
  BY DEF ConfirmResolved, Receive, main, TypeInv, QueuesOK
<1>2. PICK kind \in {"import", "reset"} : Receive(kind)
  BY DEF ConfirmResolved
<1>3. e \in Replies /\ e.kind = kind
  BY <1>2, Received DEF TypeInv
<1>4. Crosses(e) /\ ~IsCommit(e) /\ ~IsProbe(e) /\ e.op \in Nat
  BY <1>2, <1>3 DEF Crosses, IsCommit, IsProbe, Replies
<1>5. q \in Requests /\ Crosses(q) /\ ~IsCommit(q) /\ IsProbe(q)
  BY <1>4 DEF Crosses, IsCommit, IsProbe, Requests
<1> HIDE DEF e, q
<1>6. /\ Said(replies) = Said(replies') \cup {e}
      /\ \A save : LastProbe(replies, save) => LastProbe(replies', save)
  BY <1>1, <1>4, SaidAfterTail DEF e
<1>7. requests' = Append(requests, q) =>
        /\ Said(requests') = Said(requests) \cup {q}
        /\ Sorted(requests) => Sorted(requests')
        /\ CommitsFirst(requests) => CommitsFirst(requests')
  BY <1>1, <1>5, SaidAfterAppend
<1>8. Numbered'
  BY <1>1, <1>5, <1>6, <1>7 DEF SavedInv, Numbered
<1>9. ASSUME ~crossed'
      PROVE  Agrees'
  <2>1. Agrees /\ Crossing
    BY <1>1, <1>4, <1>6, <1>9, CrossingSaid DEF SavedInv
  <2>2. pending = None /\ \A m \in Said(requests) : ~IsCommit(m)
    BY <1>4, <1>6, <2>1 DEF Agrees
  <2>3. (\A m \in Said(requests') : ~IsCommit(m)) /\ CommitsFirst(requests')
    BY <1>1, <1>5, <1>7, <2>1, <2>2 DEF Agrees
  <2>4. Landed' \/ (LastProbe(replies', disk') /\ ((\A m \in Said(replies') : ~IsProbe(m)) => disk' = memory'))
    <3>1. CASE requests' = Append(requests, q)
      BY <1>5, <1>7, <3>1 DEF Landed
    <3>2. CASE ~e.ok /\ UNCHANGED requests
      <4>1. Landed => Landed'
        BY <1>6, <3>2 DEF Landed
      <4>2. Landed \/ (LastProbe(replies, disk) /\ ((\A m \in Said(replies) : ~IsProbe(m)) => disk = memory))
        BY <2>1, <2>2 DEF Agrees, Acked
      <4> QED
        BY <1>1, <1>4, <1>6, <4>1, <4>2
    <3> QED
      BY <1>1, <3>1, <3>2
  <2> QED
    BY <1>1, <2>2, <2>3, <2>4 DEF Agrees
<1> QED
  BY <1>8, <1>9 DEF SavedInv

(* What is loaded last is what is on disk.                                 *)
LEMMA LoadedKeeps == ASSUME TypeInv, SavedInv, Loaded PROVE SavedInv'
<1> DEFINE e == Head(replies)
<1>1. /\ replies # <<>> /\ replies' = Tail(replies) /\ replies \in Seq(Replies)
      /\ memory' = e.save /\ UNCHANGED <<disk, commits, pending, requests, crossed>>
  BY DEF Loaded, Receive, main, TypeInv, QueuesOK
<1>2. Crosses(e) /\ ~IsCommit(e) /\ IsProbe(e)
  BY Received DEF Loaded, Crosses, IsCommit, IsProbe, TypeInv
<1>3. e.kind = "probe"
  BY <1>2 DEF IsProbe
<1> HIDE DEF e
<1>4. /\ Said(replies) = Said(replies') \cup {e}
      /\ \A save : LastProbe(replies, save) =>
           /\ LastProbe(replies', save)
           /\ (\A m \in Said(replies') : ~IsProbe(m)) => e.save = save
  BY <1>1, <1>2, SaidAfterTail DEF e
<1>5. Numbered'
  BY <1>1, <1>4 DEF SavedInv, Numbered
<1>6. ASSUME ~crossed'
      PROVE  Agrees'
  <2>1. Agrees /\ Crossing
    BY <1>1, <1>2, <1>4, <1>6, CrossingSaid DEF SavedInv
  <2>2. pending = None /\ \A m \in Said(requests) : ~IsCommit(m)
    BY <1>2, <1>4, <2>1 DEF Agrees
  <2>3. Landed => Landed'
    BY <1>1, <1>3, <1>4 DEF Landed
  <2>4. Landed \/ LastProbe(replies, disk)
    BY <2>1, <2>2 DEF Agrees, Acked
  <2>5. Landed' \/ (LastProbe(replies', disk') /\ ((\A m \in Said(replies') : ~IsProbe(m)) => disk' = memory'))
    BY <1>1, <1>4, <2>3, <2>4
  <2> QED
    BY <1>1, <2>1, <2>2, <2>5 DEF Agrees
<1> QED
  BY <1>5, <1>6 DEF SavedInv

-----------------------------------------------------------------------------
(* Nothing is said in an empty queue.                                      *)
LEMMA NothingSaid == Said(<<>>) = {} /\ Sorted(<<>>) /\ CommitsFirst(<<>>)
BY DEF Said, Sorted, CommitsFirst

(* Nothing is under way at first.                                          *)
LEMMA InitSavedInv == Init => SavedInv
<1> SUFFICES ASSUME Init PROVE SavedInv
  OBVIOUS
<1>1. Said(requests) = {} /\ Said(replies) = {} /\ Sorted(requests) /\ CommitsFirst(requests)
  BY NothingSaid DEF Init
<1>2. LastProbe(replies, disk)
  BY <1>1, NoProbes
<1> QED
  BY <1>1, <1>2 DEF Init, SavedInv, Numbered, Agrees

(* Every step keeps what is saved.                                         *)
LEMMA NextSavedInv == TypeInv /\ SavedInv /\ [Next]_vars => SavedInv'
<1> SUFFICES ASSUME TypeInv, SavedInv, [Next]_vars PROVE SavedInv'
  OBVIOUS
<1>1. CASE Change \/ CommitLifecycle \/ ReportCloseState
  BY <1>1, CommitSteps
<1>2. CASE RetryPendingCommit
  BY <1>2, RetryKeeps
<1>3. CASE ConfirmPending
  BY <1>3, ConfirmKeeps
<1>4. CASE ServeCommit
  BY <1>4, ServeCommitKeeps
<1>5. CASE ServeConfirmImport \/ ServeConfirmReset
  BY <1>5, ServeConfirmKeeps
<1>6. CASE ServeProbe
  BY <1>6, ServeProbeKeeps
<1>7. CASE CommitResolved
  BY <1>7, CommitResolvedKeeps
<1>8. CASE ConfirmResolved
  BY <1>8, ConfirmResolvedKeeps
<1>9. CASE Loaded
  BY <1>9, LoadedKeeps
<1>10. CASE PrepareImport \/ PrepareReset \/ CancelPreview \/ LeaveSettings
  BY <1>10, QuietSteps, QuietKeeps
<1>11. CASE ChooseFile \/ ServePrepareReset \/ PreviewResolved \/ CloseClicked
  BY <1>11, QuietSteps, QuietKeeps
<1>12. CASE ServeReport \/ CloseTimeout \/ AnswerDialog \/ FileEdited \/ Expire \/ UNCHANGED vars
  BY <1>12, QuietSteps, QuietKeeps
<1> QED
  BY <1>1, <1>2, <1>3, <1>4, <1>5, <1>6, <1>7, <1>8, <1>9, <1>10, <1>11, <1>12 DEF Next

(* When nothing is under way and the renderer knows of nothing unsaved,    *)
(* the disk has what the game shows, unless a commit crossed an import or  *)
(* reset (writePending and retryPendingCommit of durablePersistence.ts,    *)
(* and the reload of App.tsx).                                             *)
THEOREM NothingPendingHolds == Spec => []NothingPendingIsSaved
<1>1. Init => SavedInv
  BY InitSavedInv
<1>2. IInv /\ SavedInv /\ [Next]_vars => SavedInv'
  BY NextSavedInv DEF IInv
<1>3. SavedInv => NothingPendingIsSaved
  <2> SUFFICES ASSUME SavedInv, AtRest, pending = None, ~crossed PROVE disk = memory
    BY DEF NothingPendingIsSaved
  <2>1. Said(requests) = {} /\ Said(replies) = {}
    BY NothingSaid DEF AtRest
  <2> QED
    BY <2>1 DEF SavedInv, Agrees, Acked, Landed
<1> QED
  BY <1>1, <1>2, <1>3, IInvHolds, PTL DEF Spec
=============================================================================
