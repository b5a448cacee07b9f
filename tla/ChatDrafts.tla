------------------------------- MODULE ChatDrafts -------------------------------
(***************************************************************************)
(* The drafts of one session as dc_chat_controller.js keeps them: browser  *)
(* tabs that show the same session, the IndexedDB record they share, the   *)
(* BroadcastChannel over which a save is announced, and the submission of  *)
(* a draft to the server, which accepts each submission id once.           *)
(*                                                                         *)
(* A draft is [rev, text, file].  Its revision id and its submission id    *)
(* are always drawn together, so `rev' stands for both; `text' is the      *)
(* revision at which the user last edited the draft (0 = empty composer),  *)
(* so two edits are never the same text.                                   *)
(***************************************************************************)
EXTENDS Naturals, SequencesExt

CONSTANTS Tabs,        \* browser tabs that show the session
          HomeSaves,   \* whether a composer without a session saves too
          MaxActs      \* bound: edits, submissions, reloads, reconnections, storage faults

VARIABLES page,       \* page[t]: "opening" -> "reading" (the first read) -> "ready",
                      \* or "closed": the database could not be opened
          draft,      \* draft[t]: text, attachments, draftRevisionId, draftSubmissionId
          touched,    \* draftTouched
          timer,      \* saveTimer is armed
          conflict,   \* pendingConflict
          actions,    \* the recovery actions are visible
          uploads,    \* uploads[t]: pending ids whose upload has not settled
          submitted,  \* submittedDraft (with submittedRevisionId)
          pending,    \* chatRequestPending
          found,      \* found[t]: what became of its reads and saves, in order, as far as
                      \* the page has yet to hear of it
          mail,       \* mail[t]: BroadcastChannel messages (the announced revision)
          store,      \* the record under the key of the session
          home,       \* the record under the provisional key
          posts,      \* submissions on their way to the server
          accepted,   \* drafts the server accepted, in order
          lapsed,     \* (history) revisions reported as saved that were not stored, and stored
                      \* ones whose page was left before it announced them
          rev,        \* revision ids drawn so far
          acts        \* how many acts so far, and the kinds the properties tell apart

inputVars  == <<draft, touched, timer>>
reportVars == <<conflict, actions>>
submitVars == <<submitted, pending, posts, accepted>>
dbVars     == <<found, mail, store, home, lapsed>>
vars == <<page, inputVars, reportVars, uploads, submitVars, dbVars, rev, acts>>

NoFile  == [id |-> 0, st |-> "none"]
Empty(r) == [rev |-> r, text |-> 0, file |-> NoFile]
NoDraft == Empty(0)

Acts(n, kinds) ==
  /\ acts.n + n <= MaxActs
  /\ acts' = [n |-> acts.n + n, kinds |-> acts.kinds \cup kinds]

\* A page that is no longer there: what it asked of the server may still be done
Gone == "gone"

(***************************************************************************)
(* Saving.  IndexedDB runs the transactions of all tabs one at a time in   *)
(* the order they are created, so each takes effect when it is created;    *)
(* what a page hears of it comes later, and a page hears of its own        *)
(* transactions in their order.                                            *)
(***************************************************************************)
\* A page hears of a transaction on d: a read ("first", "update") found d; d was "saved"; the
\* save "failed"; or its request succeeded and its transaction was "aborted" at the commit
Reported(t, d, for) == found' = [found EXCEPT ![t] = Append(@, [draft |-> d, for |-> for])]

Reads == {"first", "update"}

Open(t) == page[t] \in {"reading", "ready"}

\* saveDraftNow of a composer that holds d.  Every save fails, and is seen to fail at once,
\* while the database is not open
Save(t, d, how) ==
  /\ timer' = [timer EXCEPT ![t] = FALSE]
  /\ store' = IF how = "saved" THEN d ELSE store
  /\ \/ /\ Open(t)
        /\ Reported(t, d, how)
        /\ UNCHANGED actions
     \/ /\ ~Open(t) /\ how = "failed"
        /\ actions' = [actions EXCEPT ![t] = TRUE]
        /\ UNCHANGED found

Outcomes == {"saved", "failed", "aborted"}

Faults(t, how) == IF how = "saved" \/ ~Open(t) THEN 0 ELSE 1

\* Mutant: the save is not announced
SaveHeardSilently(t) ==
  /\ found[t] # <<>> /\ Head(found[t]).for \in Outcomes
  /\ found' = [found EXCEPT ![t] = Tail(@)]
  /\ LET e == Head(found[t]) IN
     /\ actions' = [actions EXCEPT ![t] = e.for = "failed" \/ (@ /\ conflict[t] # NoDraft)]
     /\ lapsed' = IF e.for = "aborted" THEN lapsed \cup {e.draft.rev} ELSE lapsed
  /\ UNCHANGED <<page, inputVars, conflict, uploads, submitVars, mail, store, home, rev, acts>>

\* The page hears what became of a save.  The request settles the promise: a save aborted at
\* the commit has been reported as saved.  One that failed shows the recovery actions; any
\* other hides them, unless a conflict holds them, and is announced to the other tabs
SaveHeard(t) ==
  /\ found[t] # <<>> /\ Head(found[t]).for \in Outcomes
  /\ found' = [found EXCEPT ![t] = Tail(@)]
  /\ LET e == Head(found[t]) IN
     /\ actions' = [actions EXCEPT ![t] = e.for = "failed" \/ (@ /\ conflict[t] # NoDraft)]
     /\ mail' = [u \in Tabs |-> IF e.for # "failed" /\ u # t THEN Append(mail[u], e.draft.rev) ELSE mail[u]]
     /\ lapsed' = IF e.for = "aborted" THEN lapsed \cup {e.draft.rev} ELSE lapsed
  /\ UNCHANGED <<page, inputVars, conflict, uploads, submitVars, store, home, rev, acts>>

\* markDraftChanged: a change by the user or by an upload draws new ids and arms the timer
MarkChanged(t, d) ==
  /\ rev' = rev + 1
  /\ draft' = [draft EXCEPT ![t] = [d EXCEPT !.rev = rev + 1]]
  /\ touched' = [touched EXCEPT ![t] = TRUE]
  /\ timer' = [timer EXCEPT ![t] = TRUE]

\* The timer fires 150 ms after the last change
SaveTimer(t) ==
  /\ timer[t]
  /\ \E how \in Outcomes : Save(t, draft[t], how) /\ Acts(Faults(t, how), {})
  /\ UNCHANGED <<page, draft, touched, conflict, uploads, submitVars, mail, home, lapsed, rev>>

\* Back online the draft is saved whether or not it was touched
Reconnect(t) ==
  /\ \E how \in Outcomes : Save(t, draft[t], how) /\ Acts(1 + Faults(t, how), {})
  /\ UNCHANGED <<page, draft, touched, conflict, uploads, submitVars, mail, home, lapsed, rev>>

(***************************************************************************)
(* The user's edits                                                        *)
(***************************************************************************)
Edited(t, file) == [draft[t] EXCEPT !.text = rev + 1, !.file = file]

Type(t) ==
  /\ Acts(1, {})
  /\ MarkChanged(t, Edited(t, draft[t].file))
  /\ UNCHANGED <<page, reportVars, uploads, submitVars, dbVars>>

\* The pending id of the upload is named by the edit that added the file
AddFile(t) ==
  /\ "file" \notin acts.kinds   \* bound: one upload
  /\ Acts(1, {"file"})
  /\ draft[t].file = NoFile
  /\ MarkChanged(t, Edited(t, [id |-> rev + 1, st |-> "uploading"]))
  /\ uploads' = [uploads EXCEPT ![t] = @ \cup {rev + 1}]
  /\ UNCHANGED <<page, reportVars, submitVars, dbVars>>

RemoveFile(t) ==
  /\ Acts(1, {})
  /\ draft[t].file # NoFile
  /\ MarkChanged(t, Edited(t, NoFile))
  /\ UNCHANGED <<page, reportVars, uploads, submitVars, dbVars>>

\* An upload settles: its chip, if it is still in the composer, is ready or failed; the
\* draft counts as changed in either case
UploadSettles(t, id, st) ==
  /\ id \in uploads[t]
  /\ uploads' = [uploads EXCEPT ![t] = @ \ {id}]
  /\ MarkChanged(t, IF draft[t].file.id = id THEN [draft[t] EXCEPT !.file.st = st] ELSE draft[t])
  /\ UNCHANGED <<page, reportVars, submitVars, dbVars, acts>>

(***************************************************************************)
(* Reading                                                                 *)
(***************************************************************************)
\* A read of the record under the session's key
Read(t, for) == Reported(t, store, for)

DatabaseOpens(t) ==
  /\ page[t] = "opening"
  /\ page' = [page EXCEPT ![t] = "reading"]
  /\ Read(t, "first")
  /\ UNCHANGED <<inputVars, reportVars, uploads, submitVars, mail, store, home, lapsed, rev, acts>>

\* openConversationDraftDb is rejected
DatabaseFails(t) ==
  /\ page[t] = "opening"
  /\ Acts(1, {})
  /\ page' = [page EXCEPT ![t] = "closed"]
  /\ actions' = [actions EXCEPT ![t] = TRUE]
  /\ UNCHANGED <<inputVars, conflict, uploads, submitVars, dbVars, rev>>

\* receiveDraftUpdate: another tab announced a revision
ReceiveUpdate(t) ==
  /\ mail[t] # <<>>
  /\ mail' = [mail EXCEPT ![t] = Tail(@)]
  /\ IF Open(t) /\ Head(mail[t]) # draft[t].rev THEN Read(t, "update") ELSE UNCHANGED found
  /\ UNCHANGED <<page, inputVars, reportVars, uploads, submitVars, store, home, lapsed, rev, acts>>

\* transferProvisionalDraft: where the session had no record, the provisional one, if there
\* is one, is put under the key of the session and deleted.  The transaction does not look
\* at the key of the session again
Transfer ==
  /\ store' = IF home = NoDraft THEN store ELSE home
  /\ home' = NoDraft

\* Mutant: the composer keeps its own ids
ApplyText(t, d) ==
  /\ draft' = [draft EXCEPT ![t] = [d EXCEPT !.rev = draft[t].rev]]
  /\ touched' = [touched EXCEPT ![t] = FALSE]

\* applyStoredDraft: the composer takes the stored draft with its ids
Apply(t, d) ==
  /\ draft' = [draft EXCEPT ![t] = d]
  /\ touched' = [touched EXCEPT ![t] = FALSE]

\* Mutant: an announced draft is applied to a touched composer too
TakeAlways(t, d, for) ==
  /\ IF d = NoDraft THEN UNCHANGED <<draft, touched>> ELSE Apply(t, d)
  /\ UNCHANGED reportVars

\* What a read came to: the first one is applied; a later one, made because another tab
\* announced a revision, is applied unless the draft was touched here
Take(t, d, for) ==
  \/ d = NoDraft /\ UNCHANGED <<draft, touched, reportVars>>
  \/ /\ d # NoDraft /\ (for = "first" \/ ~touched[t])
     /\ Apply(t, d)
     /\ UNCHANGED reportVars
  \/ /\ d # NoDraft /\ for = "update" /\ touched[t]
     /\ conflict' = [conflict EXCEPT ![t] = d]
     /\ actions' = [actions EXCEPT ![t] = TRUE]
     /\ UNCHANGED <<draft, touched>>

ReadDone(t) ==
  /\ found[t] # <<>> /\ Head(found[t]).for \in Reads
  /\ found' = [found EXCEPT ![t] = Tail(@)]
  /\ LET e == Head(found[t]) IN
     /\ page' = IF e.for = "first" THEN [page EXCEPT ![t] = "ready"] ELSE page
     /\ IF e.draft = NoDraft THEN Transfer ELSE UNCHANGED <<store, home>>
     /\ Take(t, IF e.draft = NoDraft THEN home ELSE e.draft, e.for)
  /\ UNCHANGED <<timer, uploads, submitVars, mail, lapsed, rev, acts>>

\* recoverConflictingDraft: nothing is saved, and touched is cleared
Recover(t) ==
  /\ conflict[t] # NoDraft
  /\ Apply(t, conflict[t])
  /\ conflict' = [conflict EXCEPT ![t] = NoDraft]
  /\ actions' = [actions EXCEPT ![t] = FALSE]
  /\ UNCHANGED <<page, timer, uploads, submitVars, dbVars, rev, acts>>

\* A composer on a page without a session saves under the provisional key
HomeSave ==
  /\ HomeSaves
  /\ Acts(1, {"home"})
  /\ rev' = rev + 1
  /\ home' = [Empty(rev + 1) EXCEPT !.text = rev + 1]
  /\ UNCHANGED <<page, inputVars, reportVars, uploads, submitVars, found, mail, store, lapsed>>

(***************************************************************************)
(* Submitting                                                              *)
(***************************************************************************)
\* canSubmitRichInput: an upload must have settled well
ChipsSettled(d) == d.file.st \in {"none", "ready"}

\* updateSendState
Submittable(t) == ~pending[t] /\ draft[t].text # 0 /\ ChipsSettled(draft[t])

Submit(t) ==
  /\ Submittable(t)
  /\ Acts(1, {})
  /\ pending' = [pending EXCEPT ![t] = TRUE]
  /\ submitted' = [submitted EXCEPT ![t] = draft[t]]
  /\ posts' = posts \cup {[tab |-> t, draft |-> draft[t]]}
  /\ UNCHANGED <<page, inputVars, reportVars, uploads, dbVars, accepted, rev>>

\* The server accepts a submission id once and answers a repetition as it did the first
\* time (ConversationService._submitLocked)
Admit(d) == IF \E i \in DOMAIN accepted : accepted[i].rev = d.rev THEN accepted ELSE Append(accepted, d)

\* acknowledgeSubmittedDraft: the composer is cleared if it still holds the submitted
\* revision; either way what it now holds is saved
Acknowledge(t) ==
  LET same == draft[t].rev = submitted[t].rev
      next == IF same THEN Empty(rev + 1) ELSE draft[t] IN
  /\ draft' = [draft EXCEPT ![t] = next]
  /\ rev' = IF same THEN rev + 1 ELSE rev
  /\ touched' = [touched EXCEPT ![t] = @ /\ ~same]
  /\ submitted' = [submitted EXCEPT ![t] = NoDraft]
  /\ \E how \in Outcomes : Save(t, next, how) /\ Acts(Faults(t, how), {})

\* handleFinallyRequest for the form of the composer: the submission was accepted, or
\* refused, or it or its answer was lost
Answered(m) ==
  /\ m \in posts
  /\ posts' = posts \ {m}
  /\ pending' = [t \in Tabs |-> pending[t] /\ t # m.tab]
  /\ \/ /\ accepted' = Admit(m.draft)
        /\ m.tab # Gone
        /\ Acknowledge(m.tab)
     \/ /\ accepted' \in {accepted, Admit(m.draft)}
        /\ UNCHANGED <<inputVars, actions, submitted, found, store, rev, acts>>
  /\ UNCHANGED <<page, conflict, uploads, mail, home, lapsed>>

(***************************************************************************)
(* Loading a page                                                          *)
(***************************************************************************)
\* The revisions t has stored and not announced
Unannounced(t) == {e.draft.rev : e \in {e \in ToSet(found[t]) : e.for = "saved"}}

\* The page is left and loaded again: its timer, its uploads, its callbacks and its channel are
\* gone (disconnect), and its fields start as in connect
Reload(t) ==
  /\ Acts(1, {"reload"})
  /\ page' = [page EXCEPT ![t] = "opening"]
  /\ rev' = rev + 1
  /\ draft' = [draft EXCEPT ![t] = Empty(rev + 1)]
  /\ touched' = [touched EXCEPT ![t] = FALSE]
  /\ timer' = [timer EXCEPT ![t] = FALSE]
  /\ conflict' = [conflict EXCEPT ![t] = NoDraft]
  /\ actions' = [actions EXCEPT ![t] = FALSE]
  /\ uploads' = [uploads EXCEPT ![t] = {}]
  /\ submitted' = [submitted EXCEPT ![t] = NoDraft]
  /\ pending' = [pending EXCEPT ![t] = FALSE]
  /\ found' = [found EXCEPT ![t] = <<>>]
  /\ mail' = [mail EXCEPT ![t] = <<>>]
  /\ lapsed' = lapsed \cup Unannounced(t)
  /\ posts' = {IF m.tab = t THEN [m EXCEPT !.tab = Gone] ELSE m : m \in posts}
  /\ UNCHANGED <<store, home, accepted>>

\* Both pages are loaded and the session has no draft; Reload opens them anew
Init ==
  /\ page = [t \in Tabs |-> "ready"]
  /\ draft \in {d \in [Tabs -> {Empty(r) : r \in 1..Cardinality(Tabs)}] : IsInjective(d)}
  /\ touched = [t \in Tabs |-> FALSE]
  /\ timer = [t \in Tabs |-> FALSE]
  /\ conflict = [t \in Tabs |-> NoDraft]
  /\ actions = [t \in Tabs |-> FALSE]
  /\ uploads = [t \in Tabs |-> {}]
  /\ submitted = [t \in Tabs |-> NoDraft]
  /\ pending = [t \in Tabs |-> FALSE]
  /\ found = [t \in Tabs |-> <<>>]
  /\ mail = [t \in Tabs |-> <<>>]
  /\ store = NoDraft
  /\ home = NoDraft
  /\ posts = {} /\ accepted = <<>>
  /\ lapsed = {}
  /\ rev = Cardinality(Tabs)
  /\ acts = [n |-> 0, kinds |-> {}]

User(t) == Type(t) \/ AddFile(t) \/ RemoveFile(t) \/ Recover(t) \/ Submit(t) \/ Reload(t) \/ Reconnect(t)

Page(t) ==
  \/ SaveTimer(t) \/ DatabaseOpens(t) \/ DatabaseFails(t) \/ ReceiveUpdate(t)
  \/ ReadDone(t) \/ SaveHeard(t)
  \/ \E id \in uploads[t], st \in {"ready", "failed"} : UploadSettles(t, id, st)

Next ==
  \/ \E t \in Tabs : User(t) \/ Page(t)
  \/ HomeSave
  \/ \E m \in posts : Answered(m)

Spec == Init /\ [][Next]_vars

(***************************************************************************)
(* Properties                                                              *)
(***************************************************************************)
Drafts == [rev : Nat, text : Nat, file : [id : Nat, st : {"none", "uploading", "ready", "failed"}]]

DraftsTypeOK ==
  /\ page \in [Tabs -> {"opening", "closed", "reading", "ready"}]
  /\ draft \in [Tabs -> Drafts]
  /\ store \in Drafts /\ home \in Drafts
  /\ \A t \in Tabs : draft[t].text <= draft[t].rev /\ draft[t].rev <= rev

TypedKept(t) ==
  page[t] = "ready" /\ page'[t] = "ready" /\ touched[t] /\ draft'[t].text # draft[t].text =>
    \/ draft'[t].text = rev + 1
    \/ draft'[t].text = 0 /\ \E i \in DOMAIN accepted' : accepted'[i].text = draft[t].text
    \/ conflict[t] # NoDraft /\ draft'[t] = conflict[t]

\* Once the first read is over, text the user typed leaves the composer only because the user
\* changes it, because the server has accepted exactly that text, or because the user recovers
\* the conflicting draft that is shown (receiveDraftUpdate, acknowledgeSubmittedDraft)
TypedTextKept == [][\A t \in Tabs : TypedKept(t)]_vars

\* A draft that is sent again because its answer was lost, or because another tab or a reload
\* restored it, is accepted once: its submission id travels with it through the store, the
\* conflict and the retry.  (Not with an upload: one that settles after its chip has left the
\* composer draws new ids for an unchanged draft, which may be on its way.)
AcceptedOnce ==
  \A i, j \in DOMAIN accepted :
    (/\ accepted[i].text = accepted[j].text
     /\ accepted[i].file = accepted[j].file
     /\ "file" \notin acts.kinds) => i = j

\* When no timer, transaction or announcement is outstanding, a draft the user touched is the
\* stored one, or the tab shows that it is not: the recovery actions are visible.  (The
\* exceptions: a draft reported as saved whose transaction was then aborted, a record whose
\* page was left between the save and its announcement, and a provisional draft that was
\* moved over the record.)
TouchedIsStoredOrShown ==
  LET quiet == \A t \in Tabs : found[t] = <<>> /\ mail[t] = <<>> /\ ~timer[t] IN
  quiet /\ "home" \notin acts.kinds =>
    \A t \in Tabs : page[t] = "ready" /\ touched[t] =>
      draft[t] = store \/ actions[t] \/ draft[t].rev \in lapsed \/ store.rev \in lapsed
=============================================================================
