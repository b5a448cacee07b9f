------------------------------ MODULE PagesProofs ------------------------------
(***************************************************************************)
(* The web client beside a conversation, for any texts, filters and chats  *)
(* and any number of acts: the command dialog lists what its text and      *)
(* filter ask for, commands meet the conversation they were listed for,    *)
(* the task event stream and the polling follow the page shown, and a new  *)
(* chat waits for the mutations of the chat shown.                         *)
(***************************************************************************)
EXTENDS MCPages, FiniteSetTheorems, TLAPS

(***************************************************************************)
(* The command dialog and the slash palette                                *)
(***************************************************************************)

Texts == Words \cup {"", "/"}

\* The filter the dialog starts with is one of Filters, whichever it is
FirstFilter == CHOOSE f \in Filters : TRUE

Boxes == [open : BOOLEAN, text : Texts, filter : Filters \cup {FirstFilter}]

Targets == [text : Texts, filter : Filters \cup {FirstFilter, ""}]

Requests ==
  [surface : Surfaces, kind : {"search", "catalog"}, for : Targets, current : BOOLEAN, at : Nat]
    \cup [surface : Surfaces, kind : {"run"}, for : [listed : Nat], current : BOOLEAN, at : Nat]

PaletteTypeOK ==
  /\ rev \in Nat /\ box \in Boxes /\ timer \in {"none", "current", "overtaken"}
  /\ asked \in SUBSET Requests
  /\ shown \in [for : Targets, at : Nat]
  /\ cache \in [Surfaces -> Nat] /\ slash \in [hidden : BOOLEAN, at : Nat]
  /\ saved \in {None} \cup Boxes
  /\ missed \in BOOLEAN

\* The requests the dialog still waits for
Awaited(S) == {r \in S : r.surface = "global" /\ r.kind # "run" /\ r.current}

\* They are made for what the dialog asks for now: whatever changes that overtakes them
AskedForBox ==
  /\ \A r \in Awaited(asked) : box.open /\ timer # "current" /\ r.for = For(box)
  /\ \A r \in asked : r.kind = "search" => r.surface = "global"

DialogInv == PaletteTypeOK /\ AskedForBox /\ ListMatchesBox

LEMMA ForType == ASSUME NEW b \in Boxes PROVE For(b) \in Targets
BY DEF Boxes, Targets, For, Texts

LEMMA OvertakenNone ==
  ASSUME PaletteTypeOK
  PROVE  /\ Overtaken \in SUBSET Requests /\ Awaited(Overtaken) = {}
         /\ \A r \in Overtaken : r.kind = "search" => \E q \in asked : q.kind = "search" /\ q.surface = r.surface
PROOF
<1> DEFINE g(q) == IF q.surface = "global" THEN [q EXCEPT !.current = FALSE] ELSE q
<1>1. ASSUME NEW q \in asked
      PROVE  /\ g(q) \in Requests /\ g(q).kind = q.kind /\ g(q).surface = q.surface
             /\ ~(g(q).surface = "global" /\ g(q).current)
  <2>1. q \in Requests
    BY DEF PaletteTypeOK
  <2>2. CASE q.surface = "global"
    BY <2>1, <2>2 DEF Requests, Surfaces
  <2>3. CASE q.surface # "global"
    BY <2>1, <2>3
  <2> QED BY <2>2, <2>3
<1>2. Overtaken = {g(q) : q \in asked}
  BY DEF Overtaken
<1> HIDE DEF g
<1> QED BY <1>1, <1>2 DEF Awaited

(* A refresh for the box that is shown next, with nothing awaited before.  *)
LEMMA Refreshed ==
  ASSUME NEW before \in SUBSET Requests, Awaited(before) = {}, NEW c \in [Surfaces -> Nat],
         \A r \in before : r.kind = "search" => r.surface = "global",
         shown \in [for : Targets, at : Nat], missed \in BOOLEAN,
         box' \in Boxes, box'.open, timer' \in {"none", "overtaken"}, Refresh(box', c, before)
  PROVE  /\ asked' \in SUBSET Requests /\ shown' \in [for : Targets, at : Nat] /\ missed' \in BOOLEAN
         /\ AskedForBox' /\ ListMatchesBox'
PROOF
<1> DEFINE r == [surface |-> "global", kind |-> IF IsSearch(box'.text) THEN "search" ELSE "catalog",
                 for |-> For(box'), current |-> TRUE, at |-> 0]
<1>1. For(box') \in Targets
  BY ForType
<1>2. r \in Requests /\ r.surface = "global" /\ r.kind # "run" /\ r.current /\ r.for = For(box')
  BY <1>1 DEF Requests, Surfaces
<1>3. CASE IsSearch(box'.text) \/ c["global"] = 0
  <2>1. asked' = before \cup {r} /\ UNCHANGED <<shown, missed>>
    BY <1>3 DEF Refresh
  <2>2. Awaited(asked') = {r}
    BY <1>2, <2>1 DEF Awaited
  <2>3. AskedForBox'
    BY <1>2, <2>1, <2>2 DEF AskedForBox
  <2>4. ListMatchesBox'
    BY <1>2, <2>1 DEF ListMatchesBox
  <2> QED BY <1>2, <2>1, <2>3, <2>4
<1>4. CASE ~(IsSearch(box'.text) \/ c["global"] = 0)
  <2>1. asked' = before /\ shown' = [for |-> For(box'), at |-> c["global"]] /\ missed' = FALSE
    BY <1>4 DEF Refresh
  <2>2. shown' \in [for : Targets, at : Nat]
    BY <1>1, <2>1 DEF Surfaces
  <2>3. AskedForBox' /\ ListMatchesBox'
    BY <2>1 DEF AskedForBox, ListMatchesBox
  <2> QED BY <2>1, <2>2, <2>3
<1> QED BY <1>3, <1>4

(* An answer that is awaited is rendered.                                  *)
LEMMA Rendered ==
  ASSUME DialogInv, UNCHANGED <<box, timer>>, NEW r \in Awaited(asked), asked' = asked \ {r}, shown'.for = r.for
  PROVE  AskedForBox' /\ ListMatchesBox'
PROOF
<1>1. For(box)' = For(box)
  BY DEF For, IsSearch
<1>2. AskedForBox'
  BY <1>1 DEF DialogInv, AskedForBox, Awaited
<1>3. shown'.for = For(box)'
  BY <1>1 DEF DialogInv, AskedForBox
<1> QED BY <1>2, <1>3 DEF ListMatchesBox

(* What is awaited stays, or the dialog is told that it is missed.         *)
LEMMA Undisturbed ==
  ASSUME DialogInv, UNCHANGED <<box, timer, shown>>, missed => missed',
         \A x \in asked' : x.kind = "search" => x.surface = "global",
         \A x \in Awaited(asked') : \E y \in Awaited(asked) : x.for = y.for,
         Awaited(asked') = {} => Awaited(asked) = {} \/ missed'
  PROVE  AskedForBox' /\ ListMatchesBox'
PROOF
<1>1. For(box)' = For(box)
  BY DEF For, IsSearch
<1>2. AskedForBox'
  BY <1>1 DEF DialogInv, AskedForBox
<1>3. ASSUME box.open, timer # "current", ~missed', Awaited(asked') = {} PROVE shown'.for = For(box)'
  BY <1>1, <1>3 DEF DialogInv, ListMatchesBox, Awaited
<1> QED BY <1>2, <1>3 DEF ListMatchesBox, Awaited

LEMMA InitDialog == Init => DialogInv
PROOF
<1>1. ASSUME Init PROVE PaletteTypeOK
  <2>1. For([text |-> "", filter |-> ""]) \in Targets
    BY DEF For, Targets, Texts
  <2> QED BY <1>1, <2>1 DEF Init, PaletteTypeOK, Boxes, Texts, FirstFilter, Surfaces
<1>2. ASSUME Init PROVE AskedForBox /\ ListMatchesBox
  BY <1>2 DEF Init, AskedForBox, Awaited, ListMatchesBox
<1> QED BY <1>1, <1>2 DEF DialogInv

LEMMA StepDialog ==
  ASSUME DialogInv, [Next]_vars
  PROVE  DialogInv'
PROOF
<1> USE DEF DialogInv
<1> DEFINE T == TimerOvertaken \in {"none", "overtaken"}
<1>t. T
  BY DEF TimerOvertaken
<1>o. /\ Overtaken \in SUBSET Requests /\ Awaited(Overtaken) = {}
      /\ \A r \in Overtaken : r.kind = "search" => r.surface = "global"
  BY OvertakenNone DEF AskedForBox
<1>s. shown \in [for : Targets, at : Nat] /\ missed \in BOOLEAN /\ cache \in [Surfaces -> Nat]
  BY DEF PaletteTypeOK
<1>1. CASE Open
  <2>1. box' \in Boxes /\ box'.open /\ cache' \in [Surfaces -> Nat]
    BY <1>1 DEF Open, PaletteTypeOK, Boxes
  <2>2. /\ asked' \in SUBSET Requests /\ shown' \in [for : Targets, at : Nat] /\ missed' \in BOOLEAN
        /\ AskedForBox' /\ ListMatchesBox'
    BY <1>1, <1>t, <1>o, <1>s, <2>1, Refreshed DEF Open
  <2> QED BY <1>1, <1>t, <2>1, <2>2 DEF Open, PaletteTypeOK
<1>2. CASE Close
  <2>1. box' \in Boxes /\ ~box'.open
    BY <1>2 DEF Close, PaletteTypeOK, Boxes
  <2> QED BY <1>2, <1>t, <1>o, <2>1 DEF Close, PaletteTypeOK, AskedForBox, ListMatchesBox
<1>3. CASE Type
  <2>1. box' \in Boxes
    BY <1>3 DEF Type, PaletteTypeOK, Boxes, Texts
  <2> QED BY <1>3, <1>o, <2>1 DEF Type, PaletteTypeOK, AskedForBox, ListMatchesBox
<1>4. CASE Narrow
  <2>1. box' \in Boxes /\ box'.open
    BY <1>4 DEF Narrow, PaletteTypeOK, Boxes
  <2>2. /\ asked' \in SUBSET Requests /\ shown' \in [for : Targets, at : Nat] /\ missed' \in BOOLEAN
        /\ AskedForBox' /\ ListMatchesBox'
    BY <1>4, <1>t, <1>o, <1>s, <2>1, Refreshed DEF Narrow
  <2> QED BY <1>4, <1>t, <2>1, <2>2 DEF Narrow, PaletteTypeOK
<1>5. CASE Pause
  <2>1. CASE timer = "current" /\ box.open
    <3>1. Awaited(asked) = {} /\ asked \in SUBSET Requests /\ \A r \in asked : r.kind = "search" => r.surface = "global"
      BY <2>1 DEF PaletteTypeOK, AskedForBox
    <3>2. box' = box /\ box' \in Boxes /\ box'.open /\ timer' = "none" /\ Refresh(box', cache, asked)
      BY <1>5, <2>1 DEF Pause, PaletteTypeOK
    <3>3. /\ asked' \in SUBSET Requests /\ shown' \in [for : Targets, at : Nat] /\ missed' \in BOOLEAN
          /\ AskedForBox' /\ ListMatchesBox'
      BY <1>s, <3>1, <3>2, Refreshed
    <3> QED BY <1>5, <3>2, <3>3 DEF Pause, PaletteTypeOK
  <2>2. CASE ~(timer = "current" /\ box.open)
    BY <1>5, <2>2 DEF Pause, PaletteTypeOK, AskedForBox, ListMatchesBox, Awaited, For
  <2> QED BY <2>1, <2>2
<1>6. CASE Serve
  <2>1. PICK r \in asked : r.kind = "catalog" /\ r.at = 0 /\ asked' = (asked \ {r}) \cup {[r EXCEPT !.at = rev]}
    BY <1>6 DEF Serve
  <2>2. r \in Requests /\ rev \in Nat
    BY DEF PaletteTypeOK
  <2> DEFINE q == [r EXCEPT !.at = rev]
  <2>3. q \in Requests /\ q.kind = "catalog" /\ q.surface = r.surface /\ q.current = r.current /\ q.for = r.for
    BY <2>1, <2>2 DEF Requests
  <2> HIDE DEF q
  <2>4. asked' = (asked \ {r}) \cup {q}
    BY <2>1 DEF q
  <2>5. PaletteTypeOK'
    BY <1>6, <2>3, <2>4 DEF Serve, PaletteTypeOK
  <2>6. AskedForBox' /\ ListMatchesBox'
    <3>1. UNCHANGED <<box, timer, shown, missed>>
      BY <1>6 DEF Serve
    <3>2. \A x \in asked' : x.kind = "search" => x.surface = "global"
      BY <2>3, <2>4 DEF AskedForBox
    <3>3. q \in Awaited(asked') <=> r \in Awaited(asked)
      BY <2>1, <2>3, <2>4 DEF Awaited
    <3>4. \A x \in Awaited(asked') : \E y \in Awaited(asked) : x.for = y.for
      BY <2>3, <2>4, <3>3 DEF Awaited
    <3>5. Awaited(asked') = {} => Awaited(asked) = {}
      BY <2>4, <3>3 DEF Awaited
    <3> QED BY <3>1, <3>2, <3>4, <3>5, Undisturbed
  <2> QED BY <2>5, <2>6
<1>7. CASE SearchAnswered
  <2>1. PICK r \in asked :
          /\ r.kind = "search" /\ asked' = asked \ {r}
          /\ IF r.current THEN shown' = [for |-> r.for, at |-> 0] /\ missed' = FALSE ELSE UNCHANGED <<shown, missed>>
    BY <1>7 DEF SearchAnswered, Takes
  <2>2. r \in Requests /\ r.for \in Targets /\ r.at \in Nat /\ r.surface = "global"
    BY <2>1 DEF PaletteTypeOK, Requests, AskedForBox
  <2>3. PaletteTypeOK'
    <3>1. asked' \in SUBSET Requests
      BY <2>1 DEF PaletteTypeOK
    <3>2. shown' = shown \/ shown' = [for |-> r.for, at |-> r.at] \/ shown' = [for |-> r.for, at |-> 0]
      BY <2>1
    <3>3. shown' \in [for : Targets, at : Nat]
      BY <1>s, <2>2, <3>2
    <3>4. missed' = missed \/ missed' = FALSE
      BY <2>1
    <3>5. missed' \in BOOLEAN
      BY <1>s, <3>4
    <3> QED BY <1>7, <3>1, <3>3, <3>5 DEF SearchAnswered, PaletteTypeOK
  <2>4. CASE r.current
    <3>1. r \in Awaited(asked) /\ shown'.for = r.for /\ UNCHANGED <<box, timer>>
      BY <1>7, <2>1, <2>2, <2>4 DEF SearchAnswered, Awaited
    <3> QED BY <2>1, <2>3, <3>1, Rendered
  <2>5. CASE ~r.current
    <3>1. UNCHANGED <<box, timer, shown, missed>>
      BY <1>7, <2>1, <2>5 DEF SearchAnswered
    <3>2. Awaited(asked') = Awaited(asked)
      BY <2>1, <2>5 DEF Awaited
    <3>3. \A x \in asked' : x.kind = "search" => x.surface = "global"
      BY <2>1 DEF AskedForBox
    <3> QED BY <2>3, <3>1, <3>2, <3>3, Undisturbed
  <2> QED BY <2>4, <2>5
<1>8. CASE CatalogAnswered
  <2>1. PICK r \in asked :
          /\ r.kind = "catalog" /\ asked' = asked \ {r} /\ cache' = [cache EXCEPT ![r.surface] = r.at]
          /\ \/ r.surface = "slash" /\ slash' = [slash EXCEPT !.at = r.at] /\ UNCHANGED <<shown, missed>>
             \/ /\ r.surface = "global" /\ UNCHANGED slash
                /\ IF r.current THEN shown' = [for |-> r.for, at |-> r.at] /\ missed' = FALSE
                                ELSE UNCHANGED <<shown, missed>>
    BY <1>8 DEF CatalogAnswered, Takes
  <2>2. r.for \in Targets /\ r.at \in Nat /\ r.surface \in Surfaces
    BY <2>1 DEF PaletteTypeOK, Requests
  <2>3. PaletteTypeOK'
    <3>1. asked' \in SUBSET Requests
      BY <2>1 DEF PaletteTypeOK
    <3>2. shown' = shown \/ shown' = [for |-> r.for, at |-> r.at] \/ shown' = [for |-> r.for, at |-> 0]
      BY <2>1
    <3>3. shown' \in [for : Targets, at : Nat]
      BY <1>s, <2>2, <3>2
    <3>4. missed' = missed \/ missed' = FALSE
      BY <2>1
    <3>5. missed' \in BOOLEAN
      BY <1>s, <3>4
    <3>6. slash' \in [hidden : BOOLEAN, at : Nat]
      BY <2>1, <2>2 DEF PaletteTypeOK
    <3>7. cache' \in [Surfaces -> Nat]
      BY <1>s, <2>1, <2>2
    <3> QED BY <1>8, <3>1, <3>6, <3>7, <3>3, <3>5 DEF CatalogAnswered, PaletteTypeOK
  <2>4. CASE r.surface = "global" /\ r.current
    <3>1. r \in Awaited(asked) /\ shown'.for = r.for /\ UNCHANGED <<box, timer>>
      BY <1>8, <2>1, <2>4 DEF CatalogAnswered, Awaited
    <3> QED BY <2>1, <2>3, <3>1, Rendered
  <2>5. CASE ~(r.surface = "global" /\ r.current)
    <3>1. UNCHANGED <<box, timer, shown, missed>>
      BY <1>8, <2>1, <2>5 DEF CatalogAnswered
    <3>2. Awaited(asked') = Awaited(asked)
      BY <2>1, <2>5 DEF Awaited
    <3>3. \A x \in asked' : x.kind = "search" => x.surface = "global"
      BY <2>1 DEF AskedForBox
    <3> QED BY <2>3, <3>1, <3>2, <3>3, Undisturbed
  <2> QED BY <2>4, <2>5
<1>9. CASE CatalogFails
  <2>1. PICK r \in asked :
          /\ r.kind = "catalog" /\ asked' = asked \ {r}
          /\ slash' = IF r.surface = "slash" THEN [slash EXCEPT !.hidden = TRUE] ELSE slash
          /\ missed' = (missed \/ (r.surface = "global" /\ r.current))
    BY <1>9 DEF CatalogFails
  <2>2. PaletteTypeOK'
    BY <1>9, <2>1 DEF CatalogFails, PaletteTypeOK
  <2>3. AskedForBox' /\ ListMatchesBox'
    BY <1>9, <2>1 DEF CatalogFails, AskedForBox, Awaited, ListMatchesBox, For
  <2> QED BY <2>2, <2>3
<1>10. CASE Slash
  <2> DEFINE r == [surface |-> "slash", kind |-> "catalog", for |-> For(box), current |-> TRUE, at |-> 0]
  <2>1. r \in Requests /\ r.surface = "slash"
    BY ForType DEF PaletteTypeOK, Requests, Surfaces
  <2>2. asked' \in {asked, asked \cup {r}}
    BY <1>10 DEF Slash
  <2>3. cache' \in [Surfaces -> Nat] /\ slash' \in [hidden : BOOLEAN, at : Nat]
    BY <1>10 DEF Slash, PaletteTypeOK, Surfaces
  <2> HIDE DEF r
  <2>4. PaletteTypeOK'
    BY <1>10, <2>1, <2>2, <2>3 DEF Slash, PaletteTypeOK
  <2>5. AskedForBox' /\ ListMatchesBox'
    <3>1. \A q \in asked' : q \in asked \/ q = r
      BY <2>2
    <3>2. r.kind = "catalog"
      BY DEF r
    <3> QED BY <1>10, <2>1, <2>2, <3>1, <3>2 DEF Slash, AskedForBox, Awaited, ListMatchesBox, For
  <2> QED BY <2>4, <2>5
<1>11. CASE Run
  <2>1. PICK s \in Surfaces :
          asked' = asked \cup {[surface |-> s, kind |-> "run", for |-> [listed |-> Listed(s)], current |-> TRUE,
                                at |-> Identity(s, Listed(s))]}
    BY <1>11 DEF Run
  <2> DEFINE r == [surface |-> s, kind |-> "run", for |-> [listed |-> Listed(s)], current |-> TRUE,
                   at |-> Identity(s, Listed(s))]
  <2>2. r \in Requests /\ r.kind = "run"
    BY DEF PaletteTypeOK, Requests, Listed, Identity
  <2>3. asked' = asked \cup {r}
    BY <2>1
  <2> HIDE DEF r
  <2>4. PaletteTypeOK'
    BY <1>11, <2>2, <2>3 DEF Run, PaletteTypeOK
  <2>5. AskedForBox' /\ ListMatchesBox'
    BY <1>11, <2>2, <2>3 DEF Run, AskedForBox, Awaited, ListMatchesBox, For
  <2> QED BY <2>4, <2>5
<1>12. CASE Ran
  <2>1. PICK r \in asked :
          /\ r.kind = "run" /\ asked' = asked \ {r}
          /\ rev' \in {rev, rev + 1} /\ (cache' = cache \/ cache' = [s \in Surfaces |-> 0])
    BY <1>12 DEF Ran
  <2>2. PaletteTypeOK'
    BY <1>12, <2>1 DEF Ran, PaletteTypeOK
  <2>3. AskedForBox' /\ ListMatchesBox'
    BY <1>12, <2>1 DEF Ran, AskedForBox, Awaited, ListMatchesBox, For
  <2> QED BY <2>2, <2>3
<1>13. CASE Change \/ HearChange \/ Unslash \/ UNCHANGED vars
  <2>1. /\ rev' \in Nat /\ cache' \in [Surfaces -> Nat] /\ slash' \in [hidden : BOOLEAN, at : Nat]
        /\ UNCHANGED saved
    <3>1. CASE Change \/ UNCHANGED vars
      BY <3>1 DEF Change, vars, PaletteTypeOK
    <3>2. CASE HearChange
      BY <3>2 DEF HearChange, PaletteTypeOK
    <3>3. CASE Unslash
      BY <3>3 DEF Unslash, PaletteTypeOK
    <3> QED BY <1>13, <3>1, <3>2, <3>3
  <2>2. UNCHANGED <<box, timer, asked, shown, missed>>
    BY <1>13 DEF Change, HearChange, Unslash, vars
  <2>3. PaletteTypeOK'
    BY <2>1, <2>2 DEF PaletteTypeOK
  <2> QED BY <2>2, <2>3, Undisturbed DEF AskedForBox
<1>14. CASE OpenResult
  <2>1. box' \in Boxes /\ ~box'.open
    BY <1>14 DEF OpenResult, PaletteTypeOK, Boxes, Texts, FirstFilter
  <2>2. For([text |-> "", filter |-> ""]) \in Targets
    BY DEF For, Targets, Texts
  <2>3. saved' \in Boxes /\ timer' = "none" /\ asked' = {} /\ rev' = rev /\ missed' = FALSE
    BY <1>14 DEF OpenResult, PaletteTypeOK
  <2>4. shown' \in [for : Targets, at : Nat] /\ cache' \in [Surfaces -> Nat] /\ slash' \in [hidden : BOOLEAN, at : Nat]
    BY <1>14, <2>2 DEF OpenResult
  <2> QED BY <2>1, <2>3, <2>4 DEF PaletteTypeOK, AskedForBox, Awaited, ListMatchesBox
<1>15. CASE Return
  <2>1. saved \in Boxes /\ cache' \in [Surfaces -> Nat] /\ slash' \in [hidden : BOOLEAN, at : Nat]
    BY <1>15 DEF Return, PaletteTypeOK
  <2>2. box' \in Boxes /\ box'.open
    BY <1>15, <2>1 DEF Return, PaletteTypeOK, Boxes
  <2>3. {} \in SUBSET Requests /\ Awaited({}) = {}
    BY DEF Awaited
  <2>4. timer' = "none" /\ Refresh(box', cache', {}) /\ rev' = rev /\ saved' = None
    BY <1>15 DEF Return
  <2>5. /\ asked' \in SUBSET Requests /\ shown' \in [for : Targets, at : Nat] /\ missed' \in BOOLEAN
        /\ AskedForBox' /\ ListMatchesBox'
    BY <1>s, <2>1, <2>2, <2>3, <2>4, Refreshed
  <2> QED BY <2>1, <2>2, <2>4, <2>5 DEF PaletteTypeOK
<1> QED
  BY <1>1, <1>2, <1>3, <1>4, <1>5, <1>6, <1>7, <1>8, <1>9, <1>10, <1>11, <1>12, <1>13, <1>14, <1>15 DEF Next, Progress

\* ListMatchesBox: when nothing is awaited any more the dialog lists what its text and filter
\* ask for, in whatever order the answers came (searchGeneration)
THEOREM DialogListsItsBox == Spec => []ListMatchesBox
PROOF
<1>1. DialogInv => ListMatchesBox
  BY DEF DialogInv
<1> QED BY <1>1, InitDialog, StepDialog, PTL DEF Spec

\* A command is sent with the revision its list was made at
RunsSent == \A r \in asked : r.kind = "run" => r.at = r.for.listed

LEMMA StepRuns ==
  ASSUME DialogInv, RunsSent, RunsAsListed, [Next]_vars
  PROVE  (RunsSent /\ RunsAsListed)'
PROOF
<1> DEFINE g(q) == IF q.surface = "global" THEN [q EXCEPT !.current = FALSE] ELSE q
<1>1. ASSUME NEW q \in asked PROVE g(q).kind = q.kind /\ g(q).at = q.at /\ g(q).for = q.for
  <2>1. q \in Requests
    BY DEF DialogInv, PaletteTypeOK
  <2> QED BY <2>1 DEF Requests
<1>2. Overtaken = {g(q) : q \in asked}
  BY DEF Overtaken
<1> HIDE DEF g
<1>3. \A r \in Overtaken : r.kind = "run" => r.at = r.for.listed
  BY <1>1, <1>2 DEF RunsSent
<1>4. ASSUME ran' = ran, \A r \in asked' : r \in asked \/ r \in Overtaken \/ r.kind # "run"
      PROVE  (RunsSent /\ RunsAsListed)'
  BY <1>3, <1>4 DEF RunsSent, RunsAsListed
<1>5. ASSUME NEW c, NEW b, NEW S, Refresh(b, c, S), ran' = ran,
             \A r \in S : r \in asked \/ r \in Overtaken
      PROVE  (RunsSent /\ RunsAsListed)'
  <2>1. \A r \in asked' : r \in S \/ r.kind # "run"
    BY <1>5 DEF Refresh
  <2> QED BY <1>4, <1>5, <2>1
<1>6. CASE Open \/ Narrow
  BY <1>5, <1>6 DEF Open, Narrow
<1>7. CASE Return
  BY <1>5, <1>7 DEF Return
<1>8. CASE Pause
  BY <1>4, <1>5, <1>8 DEF Pause
<1>9. CASE Close \/ Type
  BY <1>4, <1>9 DEF Close, Type
<1>10. CASE Change \/ HearChange \/ Unslash \/ OpenResult \/ UNCHANGED vars
  BY <1>4, <1>10 DEF Change, HearChange, Unslash, OpenResult, vars
<1>11. CASE SearchAnswered \/ CatalogAnswered \/ CatalogFails
  <2>1. asked' \subseteq asked /\ ran' = ran
    BY <1>11 DEF SearchAnswered, CatalogAnswered, CatalogFails
  <2> QED BY <1>4, <2>1
<1>12. CASE Slash
  <2>1. ran' = ran /\ \A r \in asked' : r \in asked \/ r.kind # "run"
    BY <1>12 DEF Slash
  <2> QED BY <1>4, <2>1
<1>13. CASE Serve
  <2>1. PICK r \in asked : r.kind = "catalog" /\ asked' = (asked \ {r}) \cup {[r EXCEPT !.at = rev]}
    BY <1>13 DEF Serve
  <2>2. r \in Requests
    BY DEF DialogInv, PaletteTypeOK
  <2>3. [r EXCEPT !.at = rev].kind = "catalog"
    BY <2>1, <2>2 DEF Requests
  <2>4. \A q \in asked' : q \in asked \/ q.kind # "run"
    BY <2>1, <2>3
  <2> QED BY <1>4, <1>13, <2>4 DEF Serve
<1>14. CASE Run
  <2>1. PICK s \in Surfaces :
          asked' = asked \cup {[surface |-> s, kind |-> "run", for |-> [listed |-> Listed(s)], current |-> TRUE,
                                at |-> Identity(s, Listed(s))]}
    BY <1>14 DEF Run
  <2>2. RunsSent'
    BY <2>1 DEF RunsSent, Identity
  <2> QED BY <1>14, <2>2 DEF Run, RunsAsListed
<1>15. CASE Ran
  <2>1. PICK r \in asked :
          /\ r.kind = "run" /\ asked' = asked \ {r}
          /\ ran' \in {ran, ran \cup {[listed |-> r.for.listed, met |-> rev]}}
          /\ ran' # ran => r.at = rev
    BY <1>15 DEF Ran
  <2>2. RunsSent' /\ r.at = r.for.listed
    BY <2>1 DEF RunsSent
  <2>3. \A c \in ran' : c.listed = c.met
    BY <2>1, <2>2 DEF RunsAsListed
  <2> QED BY <2>2, <2>3 DEF RunsAsListed
<1> QED
  BY <1>6, <1>7, <1>8, <1>9, <1>10, <1>11, <1>12, <1>13, <1>14, <1>15 DEF Next, Progress

\* RunsAsListed: a command that takes effect meets the revision of the conversation that its
\* list was made at (runCommand's identity token)
THEOREM CommandsMeetTheirList == Spec => []RunsAsListed
PROOF
<1>1. Init => DialogInv /\ RunsSent /\ RunsAsListed
  BY InitDialog DEF Init, RunsAsListed, RunsSent
<1>2. DialogInv /\ RunsSent /\ RunsAsListed /\ [Next]_vars => (DialogInv /\ RunsSent /\ RunsAsListed)'
  BY StepDialog, StepRuns
<1> QED BY <1>1, <1>2, PTL DEF Spec

(***************************************************************************)
(* Task pages                                                              *)
(***************************************************************************)
TaskUrls == Tasks!TaskPages \cup {"other"}
TaskEnds == {"running", "over"}
Contents == [kind : TaskUrls, st : TaskEnds \cup {"none"}]

\* What Stimulus may have still to do, and in which order
Swaps ==
  {<<>>, <<"connect">>, <<"leave">>, <<"leave", "connect">>, <<"connect", "leave">>, <<"overtaken">>}

Read == [of : TaskUrls, poll : BOOLEAN, answer : {<<>>} \cup {<<c>> : c \in Contents}]

\* A refresh answers with the page it asked for
AnswersItsPage(r) == r.answer # <<>> => r.answer[1].kind = r.of

TasksTypeOK ==
  /\ task \in TaskEnds /\ url \in TaskUrls /\ content \in Contents
  /\ polling \in BOOLEAN
  /\ swapped \in Swaps
  /\ reads \in Seq(Read) /\ \A i \in DOMAIN reads : AnswersItsPage(reads[i])

\* Where the controllers are between two pages: one that leaves alone leaves the pages with
\* tasks, and one overtaken leaves everything to the controller that overtook it
SwapOnTheWay ==
  /\ content.kind \in Tasks!TaskPages <=> url \in Tasks!TaskPages
  /\ swapped = <<"leave">> => url = "other"
  /\ swapped \notin {<<>>, <<"leave">>} => url \in Tasks!TaskPages
  /\ swapped = <<"overtaken">> => feed # "off" /\ (Tasks!Polls(content) => polling)

FeedInv == TasksTypeOK /\ SwapOnTheWay /\ FeedFollowsPage

LEMMA PageType ==
  ASSUME NEW k \in TaskUrls, NEW s \in TaskEnds
  PROVE  Tasks!Page(k, s) \in Contents /\ Tasks!Page(k, s).kind = k
BY DEF Tasks!Page, Contents, TaskEnds

LEMMA PollsType == ASSUME NEW c \in Contents PROVE Tasks!Polls(c) \in BOOLEAN /\ (Tasks!Polls(c) => c.kind = "detail")
BY DEF Tasks!Polls

LEMMA InitFeed == Tasks!Init => FeedInv
BY PageType, PollsType
   DEF Tasks!Init, FeedInv, TasksTypeOK, SwapOnTheWay, FeedFollowsPage, Tasks!FeedFollowsPage, Swaps, TaskUrls,
       Tasks!TaskPages, TaskEnds, Tasks!Idle

\* What is taken up first, and what is left
LEMMA SwapHeads ==
  /\ Head(<<"connect">>) = "connect" /\ Tail(<<"connect">>) = <<>>
  /\ Head(<<"connect", "leave">>) = "connect" /\ Tail(<<"connect", "leave">>) = <<"leave">>
  /\ Head(<<"leave">>) = "leave" /\ Tail(<<"leave">>) = <<>>
  /\ Head(<<"leave", "connect">>) = "leave" /\ Tail(<<"leave", "connect">>) = <<"connect">>
  /\ Head(<<"overtaken">>) = "overtaken" /\ Tail(<<"overtaken">>) = <<>>
  /\ <<"leave">> # <<>>
OBVIOUS

LEMMA Joined ==
  ASSUME NEW S, NEW a \in Seq(S), NEW b \in Seq(S)
  PROVE  /\ a \o b \in Seq(S) /\ Len(a \o b) = Len(a) + Len(b)
         /\ \A j \in 1..Len(a) : (a \o b)[j] = a[j]
         /\ \A j \in 1..Len(b) : (a \o b)[Len(a) + j] = b[j]
OBVIOUS

\* A refresh taken out of those under way
LEMMA WithoutType ==
  ASSUME TasksTypeOK, NEW i \in DOMAIN reads
  PROVE  /\ Tasks!Without(i) \in Seq(Read)
         /\ \A j \in DOMAIN Tasks!Without(i) : AnswersItsPage(Tasks!Without(i)[j])
PROOF
<1> DEFINE a == SubSeq(reads, 1, i - 1)
           b == SubSeq(reads, i + 1, Len(reads))
<1>1. reads \in Seq(Read) /\ i \in 1 .. Len(reads) /\ Len(reads) \in Nat
  BY DEF TasksTypeOK
<1>2. /\ a \in Seq(Read) /\ Len(a) = i - 1 /\ \A j \in 1 .. Len(a) : a[j] = reads[j]
      /\ b \in Seq(Read) /\ Len(b) = Len(reads) - i /\ \A j \in 1 .. Len(b) : b[j] = reads[i + j]
  BY <1>1
<1>3. /\ a \o b \in Seq(Read) /\ Len(a \o b) = Len(reads) - 1
      /\ \A j \in 1 .. Len(a \o b) : (a \o b)[j] = reads[j] \/ (a \o b)[j] = reads[j + 1]
  <2> HIDE DEF a, b
  <2>0. /\ \A j \in 1..Len(a) : (a \o b)[j] = a[j]
        /\ \A j \in 1..Len(b) : (a \o b)[Len(a) + j] = b[j]
    <3>1. a \in Seq(Read) /\ b \in Seq(Read)
      BY <1>2
    <3> QED BY ONLY <3>1, Joined
  <2>1. a \o b \in Seq(Read) /\ Len(a \o b) = Len(reads) - 1
    <3>1. a \o b \in Seq(Read) /\ Len(a \o b) = Len(a) + Len(b)
      BY <1>2, Joined
    <3> QED BY <1>1, <1>2, <3>1
  <2>2. ASSUME NEW j \in 1 .. Len(a \o b)
        PROVE  (a \o b)[j] = reads[j] \/ (a \o b)[j] = reads[j + 1]
    <3>1. CASE j < i
      <4>1. j \in 1 .. Len(a)
        BY <1>1, <1>2, <2>1, <3>1
      <4> QED BY <1>2, <2>0, <4>1
    <3>2. CASE ~(j < i)
      <4> DEFINE k == j - (i - 1)
      <4>1. k \in 1 .. Len(b) /\ Len(a) + k = j /\ i + k = j + 1
        BY <1>1, <1>2, <2>1, <3>2
      <4>2. (a \o b)[Len(a) + k] = b[k] /\ b[k] = reads[i + k]
        BY <1>2, <2>0, <4>1
      <4> QED BY <4>1, <4>2
    <3> QED BY <3>1, <3>2
  <2> QED BY <2>1, <2>2
<1>4. ASSUME NEW j \in 1 .. Len(a \o b) PROVE AnswersItsPage((a \o b)[j])
  <2>1. j \in DOMAIN reads /\ j + 1 \in DOMAIN reads
    BY <1>1, <1>3
  <2> QED BY <1>3, <2>1 DEF TasksTypeOK
<1>5. DOMAIN (a \o b) = 1 .. Len(a \o b)
  BY <1>3
<1> QED BY <1>3, <1>4, <1>5 DEF Tasks!Without

\* A refresh joins those under way
LEMMA RefreshType ==
  ASSUME TasksTypeOK, NEW p \in BOOLEAN, Tasks!Refresh(p)
  PROVE  reads' \in Seq(Read) /\ \A i \in DOMAIN reads' : AnswersItsPage(reads'[i])
PROOF
<1> DEFINE r == [of |-> url, poll |-> p, answer |-> <<>>]
<1>1. r \in Read /\ AnswersItsPage(r) /\ reads' = Append(reads, r)
  BY DEF Tasks!Refresh, TasksTypeOK, Read, AnswersItsPage
<1> HIDE DEF r
<1>2. reads' \in Seq(Read) /\ DOMAIN reads' = 1 .. Len(reads) + 1 /\ Len(reads) \in Nat
      /\ \A i \in 1 .. Len(reads) : reads'[i] = reads[i] /\ reads'[Len(reads) + 1] = r
  BY <1>1 DEF TasksTypeOK
<1>3. ASSUME NEW i \in DOMAIN reads' PROVE AnswersItsPage(reads'[i])
  <2>1. CASE i \in 1 .. Len(reads)
    BY <1>2, <2>1 DEF TasksTypeOK
  <2>2. CASE i = Len(reads) + 1
    BY <1>1, <2>2
  <2> QED BY <1>2, <2>1, <2>2
<1> QED BY <1>2, <1>3

\* The refresh of a controller that still polls at its end
LEMMA StillPollsType ==
  ASSUME TasksTypeOK, NEW i \in DOMAIN reads, Tasks!Polls(content) => polling
  PROVE  /\ Tasks!StillPolls(reads[i], content) \in BOOLEAN
         /\ Tasks!Polls(content) => Tasks!StillPolls(reads[i], content)
         /\ Tasks!StillPolls(reads[i], content) => polling
BY PollsType DEF TasksTypeOK, Tasks!StillPolls

USE DEF Tasks!TaskPages

\* Every step keeps the stream and the polling with the page
LEMMA StepFeed == FeedInv /\ [Tasks!Next]_(Tasks!vars) => FeedInv'
PROOF
<1> SUFFICES ASSUME FeedInv, [Tasks!Next]_(Tasks!vars) PROVE FeedInv'
  OBVIOUS
<1> USE DEF FeedInv
<1>1. CASE Tasks!Change \/ Tasks!FeedOpens \/ Tasks!FeedBreaks
  BY <1>1 DEF Tasks!Change, Tasks!FeedOpens, Tasks!FeedBreaks, TasksTypeOK, SwapOnTheWay, FeedFollowsPage,
              Tasks!FeedFollowsPage, Tasks!Idle, Tasks!Polls, TaskEnds
<1>2. CASE Tasks!ServeRead
  <2>1. PICK i \in DOMAIN reads : reads' = [reads EXCEPT ![i].answer = <<Tasks!Page(reads[i].of, task)>>]
    BY <1>2 DEF Tasks!ServeRead
  <2> DEFINE r == [reads[i] EXCEPT !.answer = <<Tasks!Page(reads[i].of, task)>>]
  <2>2. r \in Read /\ AnswersItsPage(r)
    <3>1. reads[i] \in Read /\ task \in TaskEnds
      BY DEF TasksTypeOK
    <3>2. Tasks!Page(reads[i].of, task) \in Contents /\ Tasks!Page(reads[i].of, task).kind = reads[i].of
      BY <3>1, PageType DEF Read
    <3> QED BY <3>1, <3>2 DEF Read, AnswersItsPage
  <2>3. reads' = [reads EXCEPT ![i] = r]
    BY <2>1
  <2> HIDE DEF r
  <2>4. reads' \in Seq(Read) /\ \A j \in DOMAIN reads' : AnswersItsPage(reads'[j])
    BY <2>2, <2>3 DEF TasksTypeOK
  <2> QED BY <1>2, <2>4 DEF Tasks!ServeRead, TasksTypeOK, SwapOnTheWay, FeedFollowsPage,
              Tasks!FeedFollowsPage, Tasks!Idle, Tasks!Polls
<1>3. CASE Tasks!HearChange
  <2>1. reads' \in Seq(Read) /\ \A j \in DOMAIN reads' : AnswersItsPage(reads'[j])
    BY <1>3, RefreshType DEF Tasks!HearChange, TasksTypeOK
  <2> QED BY <1>3, <2>1 DEF Tasks!HearChange, TasksTypeOK, SwapOnTheWay, FeedFollowsPage,
              Tasks!FeedFollowsPage, Tasks!Idle, Tasks!Polls
<1>4. CASE Tasks!Poll
  <2>1. reads' \in Seq(Read) /\ \A j \in DOMAIN reads' : AnswersItsPage(reads'[j])
    BY <1>4, RefreshType DEF Tasks!Poll, TasksTypeOK
  <2> QED BY <1>4, <2>1 DEF Tasks!Poll, TasksTypeOK, SwapOnTheWay, FeedFollowsPage,
              Tasks!FeedFollowsPage, Tasks!Idle, Tasks!Polls
<1>5. CASE Tasks!ReadAnswered
  <2>1. PICK i \in DOMAIN reads :
          /\ reads[i].answer # <<>> /\ reads' = Tasks!Without(i)
          /\ IF content.kind \in Tasks!TaskPages /\ reads[i].of \in Tasks!TaskPages
             THEN /\ content' = reads[i].answer[1]
                  /\ swapped' = <<"leave", "connect">>
                  /\ polling' = Tasks!Polls(content')
             ELSE /\ polling' = Tasks!StillPolls(reads[i], content)
                  /\ UNCHANGED <<content, swapped>>
    BY <1>5 DEF Tasks!ReadAnswered
  <2>2. reads' \in Seq(Read) /\ \A j \in DOMAIN reads' : AnswersItsPage(reads'[j])
    BY <2>1, WithoutType
  <2>3. reads[i] \in Read /\ reads[i].answer[1] \in Contents /\ reads[i].answer[1].kind = reads[i].of
    <3>1. reads[i] \in Read /\ AnswersItsPage(reads[i])
      BY DEF TasksTypeOK
    <3>2. PICK c \in Contents : reads[i].answer = <<c>>
      BY <2>1, <3>1 DEF Read
    <3> QED BY <3>1, <3>2, <2>1 DEF AnswersItsPage
  <2>4. CASE content.kind \in Tasks!TaskPages /\ reads[i].of \in Tasks!TaskPages
    BY <1>5, <2>1, <2>2, <2>3, <2>4, PollsType
       DEF Tasks!ReadAnswered, TasksTypeOK, SwapOnTheWay, FeedFollowsPage, Tasks!FeedFollowsPage, Tasks!Idle, Swaps
  <2>5. CASE ~(content.kind \in Tasks!TaskPages /\ reads[i].of \in Tasks!TaskPages)
    <3>1. Tasks!Polls(content) => polling
      BY <1>5 DEF Tasks!ReadAnswered, FeedFollowsPage, Tasks!FeedFollowsPage
    <3>2. /\ Tasks!StillPolls(reads[i], content) \in BOOLEAN
          /\ Tasks!Polls(content) => Tasks!StillPolls(reads[i], content)
          /\ Tasks!StillPolls(reads[i], content) => polling
      BY <3>1, StillPollsType
    <3> QED BY <1>5, <2>1, <2>2, <2>5, <3>2
       DEF Tasks!ReadAnswered, TasksTypeOK, SwapOnTheWay, FeedFollowsPage, Tasks!FeedFollowsPage, Tasks!Idle, Tasks!Polls
  <2> QED BY <2>4, <2>5
<1>6. CASE Tasks!ReadFails
  <2>1. PICK i \in DOMAIN reads : reads' = Tasks!Without(i) /\ polling' = Tasks!StillPolls(reads[i], content)
    BY <1>6 DEF Tasks!ReadFails
  <2>2. reads' \in Seq(Read) /\ \A j \in DOMAIN reads' : AnswersItsPage(reads'[j])
    BY <2>1, WithoutType
  <2>3. Tasks!Polls(content) => polling
    BY <1>6 DEF Tasks!ReadFails, FeedFollowsPage, Tasks!FeedFollowsPage
  <2>4. /\ Tasks!StillPolls(reads[i], content) \in BOOLEAN
        /\ Tasks!Polls(content) => Tasks!StillPolls(reads[i], content)
        /\ Tasks!StillPolls(reads[i], content) => polling
    BY <2>3, StillPollsType
  <2> QED BY <1>6, <2>1, <2>2, <2>4 
       DEF Tasks!ReadFails, TasksTypeOK, SwapOnTheWay, FeedFollowsPage, Tasks!FeedFollowsPage, Tasks!Idle, Tasks!Polls
<1>7. CASE Tasks!Navigate
  <2>1. PICK to \in TaskUrls :
          /\ to # url /\ url' = to /\ content' = Tasks!Page(to, task)
          /\ swapped' \in CASE url = "other" -> {<<"connect">>}
                            [] to = "other" -> {<<"leave">>}
                            [] OTHER -> {<<"leave", "connect">>, <<"connect", "leave">>}
    BY <1>7 DEF Tasks!Navigate, TaskUrls
  <2>2. content' \in Contents /\ content'.kind = to
    BY <2>1, PageType DEF TasksTypeOK
  <2>3. /\ swapped' \in {<<"connect">>, <<"leave">>, <<"leave", "connect">>, <<"connect", "leave">>}
        /\ swapped' = <<"leave">> => to = "other"
        /\ swapped' # <<"leave">> => to # "other"
    BY <2>1
  <2> QED BY <1>7, <2>1, <2>2, <2>3
      DEF Tasks!Navigate, TasksTypeOK, SwapOnTheWay, FeedFollowsPage, Tasks!FeedFollowsPage, Tasks!Idle, Swaps, TaskUrls
<1>8. CASE Tasks!Connect
  <2>1. swapped \in {<<"connect">>, <<"connect", "leave">>}
    BY <1>8 DEF Tasks!Connect, TasksTypeOK, Swaps
  <2>2. /\ swapped = <<"connect">> => swapped' = <<>>
        /\ swapped = <<"connect", "leave">> => swapped' = <<"overtaken">>
    <3>1. CASE swapped = <<"connect">>
      BY <1>8, <3>1, SwapHeads DEF Tasks!Connect
    <3>2. CASE swapped = <<"connect", "leave">>
      <4>1. Tail(swapped) # <<>>
        BY <3>2, SwapHeads
      <4> QED BY <1>8, <3>2, <4>1 DEF Tasks!Connect
    <3> QED BY <2>1, <3>1, <3>2
  <2>3. url \in Tasks!TaskPages
    BY <2>1 DEF SwapOnTheWay
  <2> QED BY <1>8, <2>1, <2>2, <2>3, PollsType
      DEF Tasks!Connect, TasksTypeOK, SwapOnTheWay, FeedFollowsPage, Tasks!FeedFollowsPage, Tasks!Idle, Swaps
<1>9. CASE Tasks!Leave
  <2>1. swapped \in {<<"leave">>, <<"leave", "connect">>, <<"overtaken">>}
    BY <1>9 DEF Tasks!Leave, TasksTypeOK, Swaps
  <2>2. /\ swapped = <<"leave">> => swapped' = <<>> /\ Head(swapped) = "leave"
        /\ swapped = <<"leave", "connect">> => swapped' = <<"connect">> /\ Head(swapped) = "leave"
        /\ swapped = <<"overtaken">> => swapped' = <<>> /\ Head(swapped) = "overtaken"
    BY <1>9, SwapHeads DEF Tasks!Leave
  <2>3. CASE swapped = <<"overtaken">>
    <3>1. UNCHANGED <<feed, changed, polling>>
      BY <1>9, <2>2, <2>3 DEF Tasks!Leave, Tasks!Cleans
    <3>2. url \in Tasks!TaskPages
      BY <2>3 DEF SwapOnTheWay
    <3> QED BY <1>9, <2>2, <2>3, <3>1, <3>2
      DEF Tasks!Leave, TasksTypeOK, SwapOnTheWay, FeedFollowsPage, Tasks!FeedFollowsPage, Tasks!Idle, Swaps, Tasks!Polls
  <2>4. CASE swapped # <<"overtaken">>
    <3>1. feed' = "off" /\ polling' = FALSE /\ UNCHANGED <<task, url, content, reads>>
      BY <1>9, <2>1, <2>2, <2>4 DEF Tasks!Leave, Tasks!Cleans
    <3>2. CASE swapped = <<"leave">>
      <4>1. url = "other" /\ content.kind # "detail" /\ swapped' = <<>>
        BY <2>2, <3>2, PollsType DEF SwapOnTheWay, TasksTypeOK
      <4>2. TasksTypeOK' /\ SwapOnTheWay'
        BY <3>1, <4>1 DEF TasksTypeOK, SwapOnTheWay, Swaps, Tasks!Polls
      <4>3. FeedFollowsPage'
        BY <3>1, <4>1 DEF FeedFollowsPage, Tasks!FeedFollowsPage, Tasks!Polls
      <4> QED BY <4>2, <4>3
    <3>3. CASE swapped = <<"leave", "connect">>
      <4>1. url \in Tasks!TaskPages /\ swapped' = <<"connect">>
        BY <2>2, <3>3 DEF SwapOnTheWay
      <4>2. TasksTypeOK' /\ SwapOnTheWay'
        BY <3>1, <4>1 DEF TasksTypeOK, SwapOnTheWay, Swaps, Tasks!Polls
      <4>3. FeedFollowsPage'
        BY <4>1 DEF FeedFollowsPage, Tasks!FeedFollowsPage, Tasks!Idle
      <4> QED BY <4>2, <4>3
    <3> QED BY <2>1, <2>4, <3>2, <3>3
  <2> QED BY <2>3, <2>4
<1>10. CASE UNCHANGED Tasks!vars
  BY <1>10 DEF Tasks!vars, TasksTypeOK, SwapOnTheWay, FeedFollowsPage, Tasks!FeedFollowsPage, Tasks!Idle, Tasks!Polls
<1> QED
  BY <1>1, <1>2, <1>3, <1>4, <1>5, <1>6, <1>7, <1>8, <1>9, <1>10 DEF Tasks!Next, Tasks!Progress

(***************************************************************************)
(* The shell's actions on chats                                            *)
(***************************************************************************)
Kinds == {"rename", "send", "delete", "reset", "resume"}

Sent ==
  [kind : Kinds, chat : Chats, view : Nat, at : {"sent", "settled"}, ok : BOOLEAN, heard : BOOLEAN, n : Nat]

Shown == [chat : Chats \cup {NoChat}, view : Nat, pending : Nat, draft : BOOLEAN, clean : BOOLEAN]

ShellTypeOK ==
  /\ kept \in SUBSET Chats /\ blank \in SUBSET Chats
  /\ page \in Shown /\ requests \in SUBSET Sent /\ sacts \in Nat
  /\ nav \in {Shell!None} \cup [chat : Chats \cup {NoChat}, draft : BOOLEAN]
  /\ create \in [at : {"idle", "waiting", "asked"}] \cup [at : {"answered"}, chat : Chats]
  /\ dialog \in {Shell!None} \cup [kind : {"delete", "reset"}, chat : Chats]

\* The mutations among S whose answers this page's scripts will hear, and their numbers
HeardOf(S) == {r \in S : r.kind \in {"rename", "send"} /\ r.heard}
Ns(S) == {r.n : r \in HeardOf(S)}

\* Requests are told apart by the act that made them, and one that no script hears any more is
\* of an earlier page
Stamped(p, S, k) ==
  /\ \A r, q \in S : r.n = q.n => r = q
  /\ \A r \in S : r.n <= k /\ r.view <= p.view /\ (~r.heard => r.view < p.view)

\* A page begun with none of an earlier page's mutations under way counts its own and no other
Counted(p, S) ==
  p.clean => /\ \A r \in HeardOf(S) : r.view = p.view /\ r.chat = p.chat
             /\ p.pending = Cardinality(Ns(S))

ShellInv == ShellTypeOK /\ Stamped(page, requests, sacts) /\ Counted(page, requests)

LEMMA NsFinite ==
  ASSUME NEW k \in Nat, NEW p, NEW S \in SUBSET Sent, Stamped(p, S, k)
  PROVE  IsFiniteSet(Ns(S)) /\ \A n \in Ns(S) : n \in Nat /\ n <= k
PROOF
<1>1. \A n \in Ns(S) : n \in 0 .. k
  BY DEF Ns, HeardOf, Stamped, Sent
<1>2. IsFiniteSet(0 .. k)
  BY FS_Interval
<1> QED BY <1>1, <1>2, FS_Subset

\* With nothing counted, none of the page's mutations is under way
LEMMA NothingLeft ==
  ASSUME NEW k \in Nat, NEW p \in Shown, NEW S \in SUBSET Sent, Stamped(p, S, k), Counted(p, S),
         p.clean, p.pending = 0 \/ p.chat = NoChat
  PROVE  ~\E r \in S : r.kind \in {"rename", "send"} /\ r.view = p.view
PROOF
<1> SUFFICES ASSUME NEW r \in S, r.kind \in {"rename", "send"}, r.view = p.view PROVE FALSE
  OBVIOUS
<1>1. r.heard
  BY DEF Stamped, Sent, Shown
<1>2. r \in HeardOf(S) /\ r.n \in Ns(S)
  BY <1>1 DEF HeardOf, Ns
<1>3. CASE p.chat = NoChat
  BY <1>2, <1>3, ChatsAssumption DEF Counted, Sent
<1>4. CASE p.pending = 0
  <2>1. Cardinality(Ns(S)) = 0 /\ IsFiniteSet(Ns(S))
    BY <1>4, NsFinite DEF Counted
  <2> QED BY <1>2, <2>1, FS_EmptySet
<1> QED BY <1>3, <1>4

\* A request answered, or failed, is the same request
LEMMA Answered ==
  ASSUME NEW k \in Nat, NEW p \in Shown, NEW S \in SUBSET Sent, Stamped(p, S, k), Counted(p, S),
         NEW r \in S, NEW q \in Sent,
         q.kind = r.kind, q.chat = r.chat, q.view = r.view, q.heard = r.heard, q.n = r.n
  PROVE  /\ (S \ {r}) \cup {q} \in SUBSET Sent
         /\ Stamped(p, (S \ {r}) \cup {q}, k) /\ Counted(p, (S \ {r}) \cup {q})
PROOF
<1> DEFINE T == (S \ {r}) \cup {q}
<1>1. Stamped(p, T, k)
  <2>1. ASSUME NEW x \in T PROVE \E y \in S : /\ y.n = x.n /\ y.view = x.view /\ y.heard = x.heard
                                             /\ ((x = q /\ y = r) \/ (x = y /\ y # r))
    OBVIOUS
  <2>2. \A x, y \in T : x.n = y.n => x = y
    BY <2>1 DEF Stamped
  <2>3. \A x \in T : x.n <= k /\ x.view <= p.view /\ (~x.heard => x.view < p.view)
    <3>1. q.n <= k /\ q.view <= p.view /\ (~q.heard => q.view < p.view)
      <4>1. r.n <= k /\ r.view <= p.view /\ (~r.heard => r.view < p.view)
        BY DEF Stamped
      <4>2. q.heard \in BOOLEAN /\ r.heard \in BOOLEAN /\ q.heard = r.heard
        BY DEF Sent
      <4> QED BY <4>1, <4>2
    <3> QED BY <3>1 DEF Stamped
  <2> HIDE DEF T
  <2> QED BY <2>2, <2>3 DEF Stamped
<1>2. \A x \in HeardOf(T) : \E y \in HeardOf(S) : y.view = x.view /\ y.chat = x.chat /\ y.n = x.n
  BY DEF HeardOf
<1>3. \A y \in HeardOf(S) : \E x \in HeardOf(T) : y.n = x.n
  BY DEF HeardOf
<1>4. Ns(T) = Ns(S)
  <2> HIDE DEF T
  <2>1. \A n \in Ns(T) : n \in Ns(S)
    BY <1>2 DEF Ns
  <2>2. \A n \in Ns(S) : n \in Ns(T)
    BY <1>3 DEF Ns
  <2> QED BY <2>1, <2>2
<1>5. Counted(p, T)
  BY <1>2, <1>4 DEF Counted
<1> QED BY <1>1, <1>5

\* One that nobody hears, or that is no mutation, leaves uncounted
LEMMA Uncounted ==
  ASSUME NEW k \in Nat, NEW p \in Shown, NEW S \in SUBSET Sent, Stamped(p, S, k), Counted(p, S),
         NEW r \in S, r \notin HeardOf(S)
  PROVE  Stamped(p, S \ {r}, k) /\ Counted(p, S \ {r})
PROOF
<1>1. HeardOf(S \ {r}) = HeardOf(S)
  BY DEF HeardOf
<1> QED BY <1>1 DEF Stamped, Counted, Ns

\* A new request
LEMMA Asked ==
  ASSUME NEW k \in Nat, NEW p \in Shown, NEW S \in SUBSET Sent, Stamped(p, S, k), Counted(p, S),
         NEW q \in Sent, q.n = k + 1, q.view = p.view, q.heard = TRUE
  PROVE  /\ S \cup {q} \in SUBSET Sent /\ Stamped(p, S \cup {q}, k + 1)
         /\ q.kind \notin {"rename", "send"} => Counted(p, S \cup {q})
         /\ q.kind \in {"rename", "send"} /\ q.chat = p.chat =>
              \A u \in Shown : /\ u.chat = p.chat /\ u.view = p.view /\ u.clean = p.clean
                               /\ u.pending = p.pending + 1
                               => Counted(u, S \cup {q})
PROOF
<1>1. Stamped(p, S \cup {q}, k + 1)
  <2>1. \A r \in S : r.n \in Nat /\ r.n < k + 1
    BY DEF Stamped, Sent
  <2> QED BY <2>1 DEF Stamped, Shown, Sent
<1>2. ASSUME q.kind \notin {"rename", "send"} PROVE Counted(p, S \cup {q})
  <2>1. HeardOf(S \cup {q}) = HeardOf(S)
    BY <1>2 DEF HeardOf
  <2> QED BY <2>1 DEF Counted, Ns
<1>3. ASSUME q.kind \in {"rename", "send"}, q.chat = p.chat, NEW u \in Shown,
             u.chat = p.chat, u.view = p.view, u.clean = p.clean, u.pending = p.pending + 1
      PROVE  Counted(u, S \cup {q})
  <2>1. HeardOf(S \cup {q}) = HeardOf(S) \cup {q}
    BY <1>3 DEF HeardOf
  <2>2. Ns(S \cup {q}) = Ns(S) \cup {k + 1}
    BY <2>1 DEF Ns
  <2>3. IsFiniteSet(Ns(S)) /\ k + 1 \notin Ns(S)
    BY NsFinite
  <2>4. Cardinality(Ns(S \cup {q})) = Cardinality(Ns(S)) + 1
    BY <2>2, <2>3, FS_AddElement
  <2> QED BY <1>3, <2>1, <2>4 DEF Counted
<1> QED BY <1>1, <1>2, <1>3

\* The answer to a mutation is heard
LEMMA Settled ==
  ASSUME NEW k \in Nat, NEW p \in Shown, NEW S \in SUBSET Sent, Stamped(p, S, k), Counted(p, S),
         NEW r \in HeardOf(S)
  PROVE  /\ Stamped(p, S \ {r}, k)
         /\ p.clean => /\ r.view = p.view /\ r.chat = p.chat
                       /\ \A q \in HeardOf(S \ {r}) : q.view = p.view /\ q.chat = p.chat
                       /\ p.pending > 0 /\ Cardinality(Ns(S \ {r})) = p.pending - 1
PROOF
<1>1. Stamped(p, S \ {r}, k)
  BY DEF Stamped
<1>2. ASSUME p.clean
      PROVE  /\ r.view = p.view /\ r.chat = p.chat
             /\ \A q \in HeardOf(S \ {r}) : q.view = p.view /\ q.chat = p.chat
             /\ p.pending > 0 /\ Cardinality(Ns(S \ {r})) = p.pending - 1
  <2>1. HeardOf(S \ {r}) = HeardOf(S) \ {r}
    BY DEF HeardOf
  <2>2. Ns(S \ {r}) = Ns(S) \ {r.n}
    <3>1. \A q \in HeardOf(S) : q.n = r.n => q = r
      BY DEF HeardOf, Stamped
    <3> QED BY <2>1, <3>1 DEF Ns
  <2>3. IsFiniteSet(Ns(S)) /\ r.n \in Ns(S)
    BY NsFinite DEF Ns
  <2>4. Cardinality(Ns(S) \ {r.n}) = Cardinality(Ns(S)) - 1
    BY <2>3, FS_RemoveElement
  <2>5. Cardinality(Ns(S)) \in Nat /\ Cardinality(Ns(S)) # 0
    BY <2>3, FS_CardinalityType, FS_EmptySet
  <2>6. p.pending = Cardinality(Ns(S)) /\ r.view = p.view /\ r.chat = p.chat
    BY <1>2 DEF Counted
  <2>7. \A q \in HeardOf(S \ {r}) : q.view = p.view /\ q.chat = p.chat
    BY <1>2, <2>1 DEF Counted
  <2>8. p.pending > 0
    BY <2>5, <2>6
  <2>9. Cardinality(Ns(S \ {r})) = p.pending - 1
    BY <2>2, <2>4, <2>6
  <2> QED BY <2>6, <2>7, <2>8, <2>9
<1> QED BY <1>1, <1>2

LEMMA InitShell == Shell!Init => ShellInv
PROOF
<1> SUFFICES ASSUME Shell!Init PROVE ShellInv
  OBVIOUS
<1>1. ShellTypeOK
  BY ChatsAssumption DEF Shell!Init, ShellTypeOK, Shell!None, Shell!Idle, Shown
<1>2. requests = {} /\ Ns(requests) = {} /\ HeardOf(requests) = {} /\ page.pending = 0
  BY DEF Shell!Init, Ns, HeardOf
<1>3. Cardinality(Ns(requests)) = 0
  BY <1>2, FS_EmptySet
<1> QED BY <1>1, <1>2, <1>3 DEF ShellInv, Stamped, Counted

\* A page rendered for the swap of another: it counts from nothing
LEMMA RenderedShell ==
  ASSUME ShellInv, NEW c \in Chats \cup {NoChat}, NEW d \in BOOLEAN
  PROVE  LET p == Shell!Rendering(c, d) IN p \in Shown /\ Stamped(p, requests, sacts) /\ Counted(p, requests)
PROOF
<1> DEFINE p == Shell!Rendering(c, d)
<1>1. p \in Shown /\ p.view = page.view + 1 /\ p.pending = 0 /\ p.clean = (HeardOf(requests) = {})
  <2>1. page.view + 1 \in Nat
    BY DEF ShellInv, ShellTypeOK, Shown
  <2>2. (~\E r \in Shell!Mutations : r.heard) <=> HeardOf(requests) = {}
    BY DEF Shell!Mutations, HeardOf
  <2> QED BY <2>1, <2>2 DEF Shell!Rendering, Shown
<1> HIDE DEF p
<1>2. Stamped(p, requests, sacts)
  <2>1. page.view \in Nat /\ \A r \in requests : r.view \in Nat
    BY DEF ShellInv, ShellTypeOK, Shown, Sent
  <2> QED BY <1>1, <2>1 DEF ShellInv, Stamped
<1>3. Counted(p, requests)
  BY <1>1, FS_EmptySet DEF Counted, Ns
<1> QED BY <1>1, <1>2, <1>3 DEF p

\* Loading a page: the requests still to be answered are heard by nobody
LEMMA LoadedShell ==
  ASSUME ShellInv, NEW c \in Chats \cup {NoChat}, Shell!Load(c), UNCHANGED <<kept, blank, sacts>>
  PROVE  ShellInv' /\ create' = Shell!Idle
PROOF
<1> DEFINE f(r) == [r EXCEPT !.heard = FALSE]
           Q == {r \in requests : r.at = "sent"}
<1>1. /\ requests' = {f(r) : r \in Q}
      /\ nav' = Shell!None /\ create' = Shell!Idle /\ dialog' = Shell!None
      /\ page' = [Shell!Rendering(c, c \in blank) EXCEPT !.clean = TRUE]
  BY DEF Shell!Load
<1>2. \A r \in requests : f(r) \in Sent /\ f(r).n = r.n /\ f(r).view = r.view /\ f(r).heard = FALSE
  BY DEF ShellInv, ShellTypeOK, Sent
<1>3. page' \in Shown /\ page'.view = page.view + 1 /\ page'.pending = 0
  <2>1. page.view + 1 \in Nat
    BY DEF ShellInv, ShellTypeOK, Shown
  <2>2. page' = [chat |-> c, view |-> page.view + 1, pending |-> 0, draft |-> c \in blank, clean |-> TRUE]
    BY <1>1 DEF Shell!Rendering
  <2> QED BY <2>1, <2>2 DEF Shown
<1>4. ShellTypeOK'
  BY <1>1, <1>2, <1>3 DEF ShellTypeOK, ShellInv, Shell!Idle
<1>5. Stamped(page', requests', sacts')
  <2>1. ASSUME NEW r \in requests', NEW q \in requests', r.n = q.n PROVE r = q
    <3>1. PICK a \in requests, b \in requests : r = f(a) /\ q = f(b)
      BY <1>1
    <3>2. a.n = b.n
      BY <1>2, <2>1, <3>1
    <3> QED BY <3>1, <3>2 DEF ShellInv, Stamped
  <2>2. ASSUME NEW r \in requests' PROVE r.n <= sacts /\ r.view < page'.view
    <3>1. PICK a \in requests : r = f(a)
      BY <1>1
    <3>2. a.n <= sacts /\ a.view <= page.view /\ a.view \in Nat /\ page.view \in Nat
      BY DEF ShellInv, Stamped, ShellTypeOK, Sent, Shown
    <3> QED BY <1>2, <1>3, <3>1, <3>2
  <2>3. \A r \in requests' : r.view \in Nat
    BY <1>4 DEF ShellTypeOK, Sent
  <2>4. page'.view \in Nat
    BY <1>3 DEF Shown
  <2> QED BY <2>1, <2>2, <2>3, <2>4 DEF Stamped
<1>6. HeardOf(requests') = {}
  <2>1. \A r \in requests' : ~r.heard
    BY <1>1, <1>2
  <2> QED BY <2>1 DEF HeardOf
<1>7. Counted(page', requests')
  BY <1>3, <1>6, FS_EmptySet DEF Counted, Ns
<1> QED BY <1>1, <1>4, <1>5, <1>7 DEF ShellInv

\* The server's and the network's part
LEMMA AnswerShell ==
  ASSUME ShellInv, NEW r \in requests, NEW ok \in BOOLEAN,
         \/ requests' = (requests \ {r}) \cup {[r EXCEPT !.at = "settled", !.ok = ok]}
         \/ ~r.heard /\ requests' = requests \ {r},
         page' = page, sacts' \in Nat, sacts <= sacts'
  PROVE  requests' \in SUBSET Sent /\ Stamped(page', requests', sacts') /\ Counted(page', requests')
PROOF
<1> DEFINE q == [r EXCEPT !.at = "settled", !.ok = ok]
<1>1. /\ sacts \in Nat /\ page \in Shown /\ requests \in SUBSET Sent
      /\ Stamped(page, requests, sacts) /\ Counted(page, requests)
  BY DEF ShellInv, ShellTypeOK
<1>2. /\ q \in Sent /\ q.kind = r.kind /\ q.chat = r.chat /\ q.view = r.view /\ q.heard = r.heard /\ q.n = r.n
  BY <1>1 DEF Sent
<1>3. /\ requests' \in SUBSET Sent /\ Stamped(page, requests', sacts) /\ Counted(page, requests')
  <2>1. CASE requests' = (requests \ {r}) \cup {q}
    <3> HIDE DEF q
    <3> QED BY <1>1, <1>2, <2>1, Answered
  <2>2. CASE ~r.heard /\ requests' = requests \ {r}
    BY <1>1, <2>2, Uncounted DEF HeardOf
  <2> QED BY <2>1, <2>2
<1>4. Stamped(page, requests', sacts')
  <2>1. \A x \in requests' : x.n \in Nat
    BY <1>3 DEF Sent
  <2> QED BY <1>1, <1>3, <2>1 DEF Stamped
<1> QED BY <1>3, <1>4

\* A new request of this page
LEMMA RequestShell ==
  ASSUME ShellInv, NEW kind \in Kinds, NEW c \in Chats, Shell!Act,
         requests' = requests \cup {Shell!Request(kind, c)},
         \/ kind \notin {"rename", "send"} /\ page' = page
         \/ /\ kind \in {"rename", "send"} /\ c = page.chat
            /\ page' = [page EXCEPT !.pending = @ + 1, !.draft = FALSE]
  PROVE  /\ sacts' \in Nat /\ page' \in Shown /\ requests' \in SUBSET Sent
         /\ Stamped(page', requests', sacts') /\ Counted(page', requests')
PROOF
<1> DEFINE q == Shell!Request(kind, c)
<1>1. /\ sacts \in Nat /\ page \in Shown /\ requests \in SUBSET Sent
      /\ Stamped(page, requests, sacts) /\ Counted(page, requests) /\ sacts' = sacts + 1
  BY DEF ShellInv, ShellTypeOK, Shell!Act
<1>2. /\ q \in Sent /\ q.n = sacts + 1 /\ q.view = page.view /\ q.heard = TRUE /\ q.kind = kind /\ q.chat = c
  BY <1>1 DEF Shell!Request, Sent, Shown
<1> HIDE DEF q
<1>3. /\ requests \cup {q} \in SUBSET Sent /\ Stamped(page, requests \cup {q}, sacts + 1)
      /\ kind \notin {"rename", "send"} => Counted(page, requests \cup {q})
      /\ kind \in {"rename", "send"} /\ c = page.chat =>
           \A u \in Shown : /\ u.chat = page.chat /\ u.view = page.view /\ u.clean = page.clean
                            /\ u.pending = page.pending + 1
                            => Counted(u, requests \cup {q})
  BY <1>1, <1>2, Asked
<1>4. requests' = requests \cup {q}
  BY DEF q
<1>5. CASE kind \notin {"rename", "send"} /\ page' = page
  <2>1. page' = page /\ requests' = requests \cup {q} /\ sacts' = sacts + 1 /\ sacts + 1 \in Nat
    BY <1>1, <1>4, <1>5
  <2>2. Stamped(page, requests \cup {q}, sacts + 1) /\ Counted(page, requests \cup {q})
    BY <1>3, <1>5
  <2> QED BY <1>1, <1>3, <2>1, <2>2
<1>6. CASE /\ kind \in {"rename", "send"} /\ c = page.chat
           /\ page' = [page EXCEPT !.pending = @ + 1, !.draft = FALSE]
  <2>1. page.pending + 1 \in Nat
    BY <1>1 DEF Shown
  <2>2. /\ page' \in Shown /\ page'.chat = page.chat /\ page'.view = page.view /\ page'.clean = page.clean
        /\ page'.pending = page.pending + 1
    BY <1>1, <1>6, <2>1 DEF Shown
  <2>3. Stamped(page', requests', sacts')
    BY <1>1, <1>3, <1>4, <2>2 DEF Stamped
  <2>4. Counted(page', requests')
    BY <1>3, <1>4, <1>6, <2>2
  <2> QED BY <1>1, <1>3, <1>4, <2>2, <2>3, <2>4
<1> QED BY <1>5, <1>6

\* The answer to a mutation: what the page counts then, and where a chat that waited was asked for
LEMMA SettleShell ==
  ASSUME ShellInv, Shell!MutationSettles
  PROVE  /\ ShellInv'
         /\ create'.at = "asked" /\ create.at # "asked" /\ page.clean => page'.clean /\ page'.pending = 0
PROOF
<1>1. /\ sacts \in Nat /\ page \in Shown /\ requests \in SUBSET Sent
      /\ Stamped(page, requests, sacts) /\ Counted(page, requests)
  BY DEF ShellInv, ShellTypeOK
<1>2. PICK r \in Shell!Mutations :
    /\ r.heard /\ requests' = requests \ {r}
    /\ LET ends == r.kind = "rename" \/ r.view = page.view
           p == IF r.kind = "rename" /\ r.ok THEN [page EXCEPT !.draft = FALSE] ELSE page
       IN /\ page' = IF ends THEN Shell!Ended(p, r.chat) ELSE p
          /\ IF ends /\ create.at = "waiting" /\ Shell!Completes(p, r.chat)
             THEN Shell!Proceed(page') ELSE create' = create
    /\ UNCHANGED <<kept, blank, nav, dialog, sacts>>
  BY DEF Shell!MutationSettles
<1> DEFINE ends == r.kind = "rename" \/ r.view = page.view
           p == IF r.kind = "rename" /\ r.ok THEN [page EXCEPT !.draft = FALSE] ELSE page
<1>3. /\ page' = IF ends THEN Shell!Ended(p, r.chat) ELSE p
      /\ IF ends /\ create.at = "waiting" /\ Shell!Completes(p, r.chat)
         THEN Shell!Proceed(page') ELSE create' = create
  BY <1>2
<1>4. /\ p \in Shown /\ p.chat = page.chat /\ p.view = page.view /\ p.pending = page.pending /\ p.clean = page.clean
  BY <1>1 DEF Shown
<1> HIDE DEF p
<1>5. /\ page' \in Shown /\ page'.chat = page.chat /\ page'.view = page.view /\ page'.clean = page.clean
      /\ ends /\ page.chat = r.chat => page'.pending = IF page.pending > 1 THEN page.pending - 1 ELSE 0
  BY <1>3, <1>4 DEF Shell!Ended, Shown
<1>6. r \in HeardOf(requests)
  BY <1>2 DEF HeardOf, Shell!Mutations
<1>7. /\ Stamped(page, requests', sacts)
      /\ page.clean => /\ r.view = page.view /\ r.chat = page.chat
                       /\ \A q \in HeardOf(requests') : q.view = page.view /\ q.chat = page.chat
                       /\ page.pending > 0 /\ Cardinality(Ns(requests')) = page.pending - 1
  <2>1. requests' = requests \ {r}
    BY <1>2
  <2>2. /\ Stamped(page, requests \ {r}, sacts)
        /\ page.clean => /\ r.view = page.view /\ r.chat = page.chat
                         /\ \A q \in HeardOf(requests \ {r}) : q.view = page.view /\ q.chat = page.chat
                         /\ page.pending > 0 /\ Cardinality(Ns(requests \ {r})) = page.pending - 1
    BY <1>1, <1>6, Settled
  <2> QED BY <2>1, <2>2
<1>8. Counted(page', requests')
  <2> SUFFICES ASSUME page'.clean
               PROVE  /\ \A q \in HeardOf(requests') : q.view = page'.view /\ q.chat = page'.chat
                      /\ page'.pending = Cardinality(Ns(requests'))
    BY DEF Counted
  <2>1. page.pending \in Nat
    BY <1>1 DEF Shown
  <2> QED BY <1>5, <1>7, <2>1
<1>9. Stamped(page', requests', sacts')
  BY <1>2, <1>5, <1>7 DEF Stamped
<1>10. ShellTypeOK'
  <2>1. create' \in [at : {"idle", "waiting", "asked"}] \cup [at : {"answered"}, chat : Chats]
    BY <1>3 DEF Shell!Proceed, Shell!Idle, ShellInv, ShellTypeOK
  <2> QED BY <1>2, <1>5, <2>1 DEF ShellInv, ShellTypeOK
<1>11. ASSUME create'.at = "asked", create.at # "asked", page.clean PROVE page'.clean /\ page'.pending = 0
  <2>1. ends /\ Shell!Completes(p, r.chat)
    BY <1>3, <1>11
  <2>2. page.pending <= 1 /\ page.chat = r.chat /\ page.pending \in Nat
    BY <1>1, <1>4, <2>1 DEF Shell!Completes, Shown
  <2> QED BY <1>5, <1>11, <2>1, <2>2
<1> QED BY <1>8, <1>9, <1>10, <1>11 DEF ShellInv

LEMMA StepShell == ShellInv /\ [Shell!Next]_(Shell!vars) => ShellInv'
PROOF
<1> SUFFICES ASSUME ShellInv, [Shell!Next]_(Shell!vars) PROVE ShellInv'
  OBVIOUS
<1>0. ShellTypeOK /\ sacts \in Nat
  BY DEF ShellInv, ShellTypeOK
<1>1. CASE Shell!Mutate
  <2>1. PICK kind \in {"rename", "send"} : requests' = requests \cup {Shell!Request(kind, page.chat)}
    BY <1>1 DEF Shell!Mutate
  <2>2. page.chat \in Chats /\ kind \in Kinds
    BY <1>0, <1>1 DEF Shell!Mutate, ShellTypeOK, Shown, Kinds
  <2>3. /\ sacts' \in Nat /\ page' \in Shown /\ requests' \in SUBSET Sent
        /\ Stamped(page', requests', sacts') /\ Counted(page', requests')
    BY <1>1, <2>1, <2>2, RequestShell DEF Shell!Mutate, Shell!UserActs
  <2> QED BY <1>0, <1>1, <2>3 DEF Shell!Mutate, ShellInv, ShellTypeOK
<1>2. CASE Shell!MutationSettles
  BY <1>2, SettleShell
<1>3. CASE Shell!Create \/ Shell!ServeOpen \/ Shell!OpenFails \/ Shell!Ask \/ Shell!Cancel \/ Shell!Navigate
  <2>1. UNCHANGED <<page, requests>> /\ (sacts' = sacts \/ sacts' = sacts + 1)
    BY <1>3 DEF Shell!Create, Shell!ServeOpen, Shell!OpenFails, Shell!Ask, Shell!Cancel, Shell!Navigate, Shell!UserActs,
                Shell!Act
  <2>2. /\ kept' \in SUBSET Chats /\ blank' \in SUBSET Chats
        /\ create' \in [at : {"idle", "waiting", "asked"}] \cup [at : {"answered"}, chat : Chats]
    <3>1. CASE Shell!ServeOpen
      <4>1. PICK c \in Chats : /\ kept' = kept \cup {c} /\ blank' = blank \cup {c}
                               /\ create' = [at |-> "answered", chat |-> c]
        BY <1>0, <3>1 DEF Shell!ServeOpen, ShellTypeOK
      <4> QED BY <1>0, <4>1 DEF ShellTypeOK
    <3>2. CASE ~Shell!ServeOpen
      BY <1>0, <1>3, <3>2 DEF Shell!Create, Shell!OpenFails, Shell!Ask, Shell!Cancel, Shell!Navigate,
                ShellTypeOK, Shell!Proceed, Shell!Idle
    <3> QED BY <3>1, <3>2
  <2>3. nav' \in {Shell!None} \cup [chat : Chats \cup {NoChat}, draft : BOOLEAN]
    <3>1. CASE Shell!Navigate
      <4>1. PICK c \in Chats \cup {NoChat} : nav' = [chat |-> c, draft |-> c \in blank]
        BY <1>0, <3>1 DEF Shell!Navigate, ShellTypeOK
      <4> QED BY <4>1
    <3>2. CASE ~Shell!Navigate
      BY <1>0, <1>3, <3>2 DEF Shell!Create, Shell!ServeOpen, Shell!OpenFails, Shell!Ask, Shell!Cancel, ShellTypeOK
    <3> QED BY <3>1, <3>2
  <2>4. dialog' \in {Shell!None} \cup [kind : {"delete", "reset"}, chat : Chats]
    BY <1>0, <1>3 DEF Shell!Create, Shell!ServeOpen, Shell!OpenFails, Shell!Ask, Shell!Cancel, Shell!Navigate,
                ShellTypeOK
  <2>5. sacts' \in Nat /\ \A r \in requests : r.n \in Nat /\ r.n <= sacts /\ r.n <= sacts'
    BY <1>0, <2>1 DEF ShellInv, Stamped, ShellTypeOK, Sent
  <2>6. Stamped(page', requests', sacts') /\ Counted(page', requests')
    BY <2>1, <2>5 DEF ShellInv, Stamped
  <2> QED BY <1>0, <2>1, <2>2, <2>3, <2>4, <2>5, <2>6 DEF ShellInv, ShellTypeOK
<1>4. CASE Shell!OpenAnswered
  <2>1. CASE UNCHANGED <<page, nav, requests, dialog>> /\ create' = Shell!Idle
    BY <1>0, <1>4, <2>1 DEF Shell!OpenAnswered, ShellInv, ShellTypeOK, Shell!Idle
  <2>2. CASE Shell!Load(create.chat)
    <3>1. create.chat \in Chats
      BY <1>0, <1>4 DEF Shell!OpenAnswered, ShellTypeOK
    <3> QED BY <1>4, <2>2, <3>1, LoadedShell DEF Shell!OpenAnswered
  <2> QED BY <1>4, <2>1, <2>2 DEF Shell!OpenAnswered
<1>5. CASE Shell!Confirm \/ Shell!Resume
  <2>1. PICK kind \in Kinds, c \in Chats :
          kind \notin {"rename", "send"} /\ requests' = requests \cup {Shell!Request(kind, c)}
    <3>1. CASE Shell!Confirm
      <4>1. dialog.kind \in {"delete", "reset"} /\ dialog.chat \in Chats
        BY <1>0, <3>1 DEF Shell!Confirm, ShellTypeOK
      <4> QED BY <3>1, <4>1 DEF Shell!Confirm, Kinds
    <3>2. CASE Shell!Resume
      <4>1. page.chat \in Chats
        BY <1>0, <3>2 DEF Shell!Resume, ShellTypeOK, Shown
      <4> QED BY <3>2, <4>1 DEF Shell!Resume, Kinds
    <3> QED BY <1>5, <3>1, <3>2
  <2>2. Shell!Act /\ page' = page
    BY <1>5 DEF Shell!Confirm, Shell!Resume, Shell!UserActs
  <2>3. /\ sacts' \in Nat /\ page' \in Shown /\ requests' \in SUBSET Sent
        /\ Stamped(page', requests', sacts') /\ Counted(page', requests')
    BY <2>1, <2>2, RequestShell
  <2> QED BY <1>0, <1>5, <2>3 DEF Shell!Confirm, Shell!Resume, ShellInv, ShellTypeOK
<1>6. CASE Shell!RemovalSettles
  <2>1. PICK r \in requests \ Shell!Mutations :
          IF ~r.ok
          THEN requests' = requests \ {r} /\ UNCHANGED <<page, nav, create, dialog>>
          ELSE \E c \in IF r.kind = "delete" THEN kept \cup {NoChat} ELSE {page.chat} : Shell!Load(c)
    BY <1>6 DEF Shell!RemovalSettles
  <2>2. UNCHANGED <<kept, blank, sacts>>
    BY <1>6 DEF Shell!RemovalSettles
  <2>3. CASE ~r.ok
    <3>1. /\ page \in Shown /\ requests \in SUBSET Sent /\ Stamped(page, requests, sacts) /\ Counted(page, requests)
      BY DEF ShellInv, ShellTypeOK
    <3>2. r \notin HeardOf(requests)
      BY DEF HeardOf, Shell!Mutations
    <3>3. Stamped(page, requests \ {r}, sacts) /\ Counted(page, requests \ {r})
      BY <1>0, <3>1, <3>2, Uncounted
    <3>4. requests' = requests \ {r} /\ UNCHANGED <<page, nav, create, dialog>>
      BY <2>1, <2>3
    <3> QED BY <1>0, <2>2, <3>1, <3>3, <3>4 DEF ShellInv, ShellTypeOK
  <2>4. CASE r.ok
    <3>1. PICK c \in Chats \cup {NoChat} : Shell!Load(c)
      BY <1>0, <2>1, <2>4 DEF ShellTypeOK, Shown
    <3> QED BY <2>2, <3>1, LoadedShell
  <2> QED BY <2>3, <2>4
<1>7. CASE Shell!ServeRequest \/ Shell!RequestFails
  <2>1. PICK r \in requests, ok \in BOOLEAN :
          requests' = (requests \ {r}) \cup (IF r.heard THEN {[r EXCEPT !.at = "settled", !.ok = ok]} ELSE {})
    <3>1. CASE Shell!ServeRequest
      <4>1. PICK r \in requests :
              requests' = (requests \ {r})
                            \cup (IF r.heard THEN {[r EXCEPT !.at = "settled", !.ok = (r.chat \in kept)]} ELSE {})
        BY <3>1 DEF Shell!ServeRequest
      <4> DEFINE ok == r.chat \in kept
      <4>2. ok \in BOOLEAN
        OBVIOUS
      <4>3. requests' = (requests \ {r}) \cup (IF r.heard THEN {[r EXCEPT !.at = "settled", !.ok = ok]} ELSE {})
        BY <4>1
      <4> HIDE DEF ok
      <4> QED BY <4>2, <4>3
    <3>2. CASE Shell!RequestFails
      <4>1. PICK r \in requests :
              requests' = (requests \ {r}) \cup (IF r.heard THEN {[r EXCEPT !.at = "settled"]} ELSE {})
        BY <3>2 DEF Shell!RequestFails
      <4>2. r.ok \in BOOLEAN /\ r \in Sent
        BY <1>0 DEF ShellTypeOK, Sent
      <4>3. [r EXCEPT !.at = "settled"] = [r EXCEPT !.at = "settled", !.ok = r.ok]
        BY <4>2 DEF Sent
      <4> QED BY <4>1, <4>2, <4>3
    <3> QED BY <1>7, <3>1, <3>2
  <2>2. \/ requests' = (requests \ {r}) \cup {[r EXCEPT !.at = "settled", !.ok = ok]}
        \/ ~r.heard /\ requests' = requests \ {r}
    <3>1. CASE r.heard
      BY <2>1, <3>1
    <3>2. CASE ~r.heard
      BY <2>1, <3>2
    <3> QED BY <3>1, <3>2
  <2>3. page' = page /\ sacts' \in Nat /\ sacts <= sacts'
    <3>1. page' = page /\ (sacts' = sacts \/ sacts' = sacts + 1)
      BY <1>7 DEF Shell!ServeRequest, Shell!RequestFails, Shell!Act
    <3> QED BY <1>0, <3>1
  <2>4. requests' \in SUBSET Sent /\ Stamped(page', requests', sacts') /\ Counted(page', requests')
    BY <2>2, <2>3, AnswerShell
  <2>5. kept' \in SUBSET kept /\ blank' \in SUBSET blank /\ UNCHANGED <<nav, create, dialog>>
    BY <1>7 DEF Shell!ServeRequest, Shell!RequestFails
  <2> QED BY <1>0, <2>3, <2>4, <2>5 DEF ShellInv, ShellTypeOK
<1>8. CASE Shell!Swap
  <2>1. nav.chat \in Chats \cup {NoChat} /\ nav.draft \in BOOLEAN
    BY <1>0, <1>8 DEF Shell!Swap, ShellTypeOK
  <2>2. page' \in Shown /\ Stamped(page', requests, sacts) /\ Counted(page', requests)
    BY <1>8, <2>1, RenderedShell DEF Shell!Swap
  <2> QED BY <1>0, <1>8, <2>2 DEF Shell!Swap, ShellInv, ShellTypeOK
<1>9. CASE UNCHANGED Shell!vars
  BY <1>9 DEF Shell!vars, ShellInv, ShellTypeOK
<1> QED
  BY <1>1, <1>2, <1>3, <1>4, <1>5, <1>6, <1>7, <1>8, <1>9 DEF Shell!Next, Shell!Progress

\* A chat is asked for at once, or as the last mutation's answer is heard
LEMMA StepAsked ==
  ASSUME ShellInv, [Shell!Next]_(Shell!vars), create'.at = "asked", create.at # "asked", page.clean
  PROVE  Shell!NoMutationOf(page)'
PROOF
<1>1. ShellInv'
  BY StepShell
<1>2. page'.clean /\ (page'.pending = 0 \/ page'.chat = NoChat)
  <2>1. CASE Shell!MutationSettles
    BY <2>1, SettleShell
  <2>2. CASE Shell!Create
    <3>1. ~Shell!MutationPending /\ page' = page
      BY <2>2 DEF Shell!Create, Shell!Idle
    <3>2. page.pending \in Nat
      BY DEF ShellInv, ShellTypeOK, Shown
    <3> QED BY <3>1, <3>2 DEF Shell!MutationPending
  <2>3. CASE Shell!OpenAnswered \/ Shell!OpenFails \/ Shell!ServeOpen
    BY <2>3 DEF Shell!OpenAnswered, Shell!OpenFails, Shell!ServeOpen, Shell!Load, Shell!Idle
  <2>4. CASE Shell!RemovalSettles
    BY <2>4 DEF Shell!RemovalSettles, Shell!Load, Shell!Idle
  <2>5. CASE \/ Shell!Mutate \/ Shell!Ask \/ Shell!Confirm \/ Shell!Cancel \/ Shell!Resume \/ Shell!RequestFails
             \/ Shell!Navigate \/ Shell!ServeRequest \/ Shell!Swap \/ UNCHANGED Shell!vars
    BY <2>5 DEF Shell!Mutate, Shell!Ask, Shell!Confirm, Shell!Cancel, Shell!Resume, Shell!RequestFails,
                Shell!Navigate, Shell!ServeRequest, Shell!Swap, Shell!vars
  <2> QED BY <2>1, <2>2, <2>3, <2>4, <2>5 DEF Shell!Next, Shell!Progress
<1>3. /\ sacts' \in Nat /\ page' \in Shown /\ requests' \in SUBSET Sent
      /\ Stamped(page', requests', sacts') /\ Counted(page', requests')
  BY <1>1 DEF ShellInv, ShellTypeOK
<1>4. ~\E r \in requests' : r.kind \in {"rename", "send"} /\ r.view = page'.view
  BY <1>2, <1>3, NothingLeft
<1> QED BY <1>4 DEF Shell!NoMutationOf, Shell!Mutations

(***************************************************************************)
(* The parts together                                                      *)
(***************************************************************************)
\* A step of one part is a step or a stutter of each
LEMMA PartsStep ==
  /\ PagesInit => Tasks!Init /\ Shell!Init
  /\ [PagesNext]_pagesVars => [Tasks!Next]_(Tasks!vars) /\ [Shell!Next]_(Shell!vars)
PROOF
<1>1. PagesInit => Tasks!Init /\ Shell!Init
  BY DEF PagesInit
<1>2. ASSUME [PagesNext]_pagesVars PROVE [Tasks!Next]_(Tasks!vars) /\ [Shell!Next]_(Shell!vars)
  <2>1. CASE NextTasks
    BY <2>1 DEF NextTasks, InTasks, shellVars, Shell!vars
  <2>2. CASE NextShell
    BY <2>2 DEF NextShell, InShell, taskVars, Tasks!vars
  <2>3. CASE NextCommands \/ NextRuns \/ UNCHANGED pagesVars
    BY <2>3 DEF NextCommands, NextRuns, InCommands, InRuns, pagesVars, taskVars, shellVars, Tasks!vars, Shell!vars
  <2> QED BY <1>2, <2>1, <2>2, <2>3 DEF PagesNext
<1> QED BY <1>1, <1>2

\* FeedFollowsPage: the task event stream is open on the pages that have tasks and closed on the
\* others, and what is polled is a task shown under way, whatever refreshes and navigations
\* replaced the content and in whichever order their controllers came and went
THEOREM StreamFollowsThePage == PagesSpec => []FeedFollowsPage
PROOF
<1>1. PagesInit => FeedInv
  BY PartsStep, InitFeed
<1>2. FeedInv /\ [PagesNext]_pagesVars => FeedInv'
  BY PartsStep, StepFeed
<1>3. FeedInv => FeedFollowsPage
  BY DEF FeedInv
<1> QED BY <1>1, <1>2, <1>3, PTL DEF PagesSpec

\* NewChatWaits: the server is asked for a new chat only when every mutation of the chat shown
\* has been answered, on a page that no earlier page's mutation outlived
THEOREM NewChatAwaitsMutations == PagesSpec => NewChatWaits
PROOF
<1> DEFINE Waits == create'.at = "asked" /\ create.at # "asked" /\ page.clean => Shell!NoMutationOf(page)'
<1>1. PagesInit => ShellInv
  BY PartsStep, InitShell
<1>2. ShellInv /\ [PagesNext]_pagesVars => ShellInv'
  BY PartsStep, StepShell
<1>3. ShellInv /\ [PagesNext]_pagesVars => Waits
  BY PartsStep, StepAsked
<1>4. ShellInv /\ [PagesNext]_pagesVars => [Waits]_pagesVars
  BY <1>3
<1> HIDE DEF Waits
<1>5. PagesSpec => [][Waits]_pagesVars
  BY <1>1, <1>2, <1>4, PTL DEF PagesSpec
<1> QED BY <1>5 DEF NewChatWaits, Waits
=============================================================================
