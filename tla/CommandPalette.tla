----------------------------- MODULE CommandPalette -----------------------------
(***************************************************************************)
(* The command dialog and the slash palette of a conversation              *)
(* (dc_conversation_command_controller.js): debounced searches that may be *)
(* answered in any order, a cached catalog of commands, the commands run   *)
(* from it and the search that is taken up again on return from a result.  *)
(* Focus, scrolling and the wording of entries are left out.               *)
(***************************************************************************)
EXTENDS Naturals, FiniteSets

CONSTANTS Words,    \* texts that are searched for; "" and "/" list commands
          Filters,  \* lifecycle chips and projects a search is narrowed to
          MaxCmd    \* bound: user actions, changes of the conversation and failures

ASSUME WordsAssumption == {"", "/"} \cap Words = {}

VARIABLES
  rev,      \* the revision of the conversation, which a catalog's identity token names
  heardRev, \* a conversation_changed event has not been heard
  box,      \* the dialog: open, text, filter
  timer,    \* the debounce: none, current, or overtaken by a later generation
  asked,    \* requests of the dialog, the slash palette, and for search targets
  shown,    \* the dialog's list: what it was rendered for, and the revision of its commands
  status,   \* the status line: searching, or something else
  cache,    \* catalogs: by surface, the revision fetched, or 0
  slash,    \* the slash palette: hidden, and the revision of its commands
  ran,      \* ghost: commands that took effect: the revision listed and the one they met
  missed,   \* ghost: the catalog the dialog asked for last could not be fetched
  saved,    \* dartclaw-search-return: the text and filter that led to the result opened, or none
  cmds

vars == <<rev, heardRev, box, timer, asked, shown, status, cache, slash, ran, missed, saved, cmds>>

None == [for |-> "none"]
Surfaces == {"global", "slash"}

Act == cmds < MaxCmd /\ cmds' = cmds + 1

IsSearch(text) == text \in Words

\* What a list is rendered for: commands do not depend on the filter
For(b) == [text |-> b.text, filter |-> IF IsSearch(b.text) THEN b.filter ELSE ""]

\* ++searchGeneration: what was asked before, and the timer, belong to an earlier generation
Overtaken == {IF r.surface = "global" THEN [r EXCEPT !.current = FALSE] ELSE r : r \in asked}

TimerOvertaken == IF timer = "none" THEN "none" ELSE "overtaken"

\* refreshDialog: a search is sent; commands come from the cache, or are fetched
Refresh(b, c, before) ==
  LET r == [surface |-> "global", kind |-> IF IsSearch(b.text) THEN "search" ELSE "catalog",
            for |-> For(b), current |-> TRUE, at |-> 0]
  IN IF IsSearch(b.text) \/ c["global"] = 0
     THEN /\ asked' = before \cup {r}
          /\ status' = IF IsSearch(b.text) THEN "searching" ELSE status
          /\ UNCHANGED <<shown, missed>>
     ELSE /\ shown' = [for |-> For(b), at |-> c["global"]]
          /\ status' = "shown" /\ missed' = FALSE
          /\ asked' = before

(***************************************************************************)
(* The dialog                                                              *)
(***************************************************************************)
\* openDialog: the catalog is fetched anew
Open ==
  /\ Act
  /\ ~box.open
  /\ box' = [box EXCEPT !.open = TRUE]
  /\ cache' = [cache EXCEPT !["global"] = 0]
  /\ timer' = TimerOvertaken
  /\ Refresh(box', cache', Overtaken)
  /\ UNCHANGED <<rev, heardRev, slash, ran, saved>>

Close ==
  /\ box.open
  /\ box' = [box EXCEPT !.open = FALSE]
  /\ asked' = Overtaken /\ timer' = TimerOvertaken
  /\ UNCHANGED <<rev, heardRev, shown, status, cache, slash, ran, missed, saved, cmds>>

\* handleInput: the refresh waits for a pause in the typing
Type ==
  /\ Act
  /\ box.open
  /\ \E t \in Words \cup {"", "/"} : t # box.text /\ box' = [box EXCEPT !.text = t]
  /\ asked' = Overtaken /\ timer' = "current"
  /\ UNCHANGED <<rev, heardRev, shown, status, cache, slash, ran, missed, saved>>

\* handleClick on a chip, handleInput on the project: refreshed at once
Narrow ==
  /\ Act
  /\ box.open
  /\ \E f \in Filters : f # box.filter /\ box' = [box EXCEPT !.filter = f]
  /\ timer' = TimerOvertaken
  /\ Refresh(box', cache, Overtaken)
  /\ UNCHANGED <<rev, heardRev, cache, slash, ran, saved>>

Pause ==
  /\ timer # "none" /\ timer' = "none"
  /\ IF timer = "current" /\ box.open
     THEN Refresh(box, cache, asked)
     ELSE UNCHANGED <<asked, shown, status, missed>>
  /\ UNCHANGED <<rev, heardRev, box, cache, slash, ran, saved, cmds>>

(***************************************************************************)
(* Answers                                                                 *)
(***************************************************************************)
\* A catalog names the revision it was made at
Serve ==
  /\ \E r \in asked :
       /\ r.kind = "catalog" /\ r.at = 0
       /\ asked' = (asked \ {r}) \cup {[r EXCEPT !.at = rev]}
  /\ UNCHANGED <<rev, heardRev, box, timer, shown, status, cache, slash, ran, missed, saved, cmds>>

\* Mutant: an answer is rendered whatever was asked after it
TakesAny(r) == TRUE

\* search, refreshDialog: an answer is rendered only for the generation that asked
Takes(r) == r.current

\* renderSearch, or the status of a search that failed and its emptied list
SearchAnswered ==
  /\ \E r \in asked :
       /\ r.kind = "search"
       /\ asked' = asked \ {r}
       /\ IF Takes(r)
          THEN shown' = [for |-> r.for, at |-> 0] /\ status' = "shown" /\ missed' = FALSE
          ELSE UNCHANGED <<shown, status, missed>>
  /\ UNCHANGED <<rev, heardRev, box, timer, cache, slash, ran, saved, cmds>>

\* catalog, renderCatalog: kept for later, and rendered; the slash palette renders whatever answers
CatalogAnswered ==
  /\ \E r \in asked :
       /\ r.kind = "catalog" /\ r.at # 0
       /\ asked' = asked \ {r}
       /\ cache' = [cache EXCEPT ![r.surface] = r.at]
       /\ \/ r.surface = "slash" /\ slash' = [slash EXCEPT !.at = r.at] /\ UNCHANGED <<shown, status, missed>>
          \/ /\ r.surface = "global" /\ UNCHANGED slash
             /\ IF Takes(r)
                THEN shown' = [for |-> r.for, at |-> r.at] /\ status' = "shown" /\ missed' = FALSE
                ELSE UNCHANGED <<shown, status, missed>>
  /\ UNCHANGED <<rev, heardRev, box, timer, ran, saved, cmds>>

\* No catalog: the dialog keeps the list and the status it has, the slash palette closes
CatalogFails ==
  /\ Act
  /\ \E r \in asked :
       /\ r.kind = "catalog"
       /\ asked' = asked \ {r}
       /\ slash' = IF r.surface = "slash" THEN [slash EXCEPT !.hidden = TRUE] ELSE slash
       /\ missed' = (missed \/ (r.surface = "global" /\ r.current))
  /\ UNCHANGED <<rev, heardRev, box, timer, shown, status, cache, ran, saved>>

(***************************************************************************)
(* The slash palette                                                       *)
(***************************************************************************)
\* handleInput, renderSlash: a palette that opens fetches its catalog anew
Slash ==
  /\ Act
  /\ ~box.open
  /\ LET c == IF slash.hidden THEN 0 ELSE cache["slash"]
     IN /\ cache' = [cache EXCEPT !["slash"] = c]
        /\ slash' = [slash EXCEPT !.hidden = FALSE, !.at = IF c = 0 THEN @ ELSE c]
        /\ asked' = IF c # 0 THEN asked
                    ELSE asked \cup {[surface |-> "slash", kind |-> "catalog", for |-> For(box), current |-> TRUE, at |-> 0]}
  /\ UNCHANGED <<rev, heardRev, box, timer, shown, status, ran, missed, saved>>

\* handlePointerDown, handleSlashPaletteClose, and text that is no longer a command
Unslash ==
  /\ ~slash.hidden /\ slash' = [slash EXCEPT !.hidden = TRUE]
  /\ UNCHANGED <<rev, heardRev, box, timer, asked, shown, status, cache, ran, missed, saved, cmds>>

(***************************************************************************)
(* What is chosen                                                          *)
(***************************************************************************)
\* Mutant: a command is sent with the token of the latest catalog, not of the list it is on
LatestIdentity(surface, at) == IF cache[surface] = 0 THEN at ELSE cache[surface]

\* runCommand: the token of the catalog the option was rendered from
Identity(surface, at) == at

Commands(surface) ==
  \/ surface = "global" /\ box.open /\ shown.at # 0
  \/ surface = "slash" /\ ~slash.hidden /\ slash.at # 0

Listed(surface) == IF surface = "global" THEN shown.at ELSE slash.at

\* Sent with the revision the list was made at; `for` remembers that revision
Run ==
  /\ Act
  /\ \E s \in Surfaces :
       /\ Commands(s)
       /\ asked' = asked \cup {[surface |-> s, kind |-> "run", for |-> [listed |-> Listed(s)], current |-> TRUE,
                                at |-> Identity(s, Listed(s))]}
  /\ UNCHANGED <<rev, heardRev, box, timer, shown, status, cache, slash, ran, missed, saved>>

\* POST command-actions, runCommand: a command takes effect while its catalog's identity is still
\* that of the conversation, which it may change; a stale or disabled one is refused with a
\* conflict, which clears the catalogs, and any other failure leaves them
Ran ==
  /\ \E r \in asked :
       /\ r.kind = "run"
       /\ asked' = asked \ {r}
       /\ \/ /\ r.at = rev
             /\ ran' = ran \cup {[listed |-> r.for.listed, met |-> rev]}
             /\ rev' = rev + 1 /\ heardRev' = FALSE
             /\ UNCHANGED cache
          \/ /\ cache' \in {cache, [s \in Surfaces |-> 0]}
             /\ UNCHANGED <<ran, rev, heardRev>>
  /\ UNCHANGED <<box, timer, shown, status, slash, missed, saved, cmds>>

Change ==
  /\ Act
  /\ rev' = rev + 1 /\ heardRev' = FALSE
  /\ UNCHANGED <<box, timer, asked, shown, status, cache, slash, ran, missed, saved>>

\* handleConversationChanged
HearChange ==
  /\ ~heardRev /\ heardRev' = TRUE
  /\ cache' = [s \in Surfaces |-> 0]
  /\ UNCHANGED <<rev, box, timer, asked, shown, status, slash, ran, missed, saved, cmds>>

\* openSearchTarget, restoreSearchReturn: a result is opened, which leaves the page, and the
\* search that led there is taken up again on return, by a page that has fetched nothing
OpenResult ==
  /\ Act
  /\ box.open /\ shown.at = 0 /\ shown.for # For([text |-> "", filter |-> ""])
  /\ saved' = box
  /\ box' = [box EXCEPT !.open = FALSE, !.text = "", !.filter = CHOOSE f \in Filters : TRUE]
  /\ asked' = {} /\ timer' = "none" /\ status' = "shown" /\ missed' = FALSE
  /\ shown' = [for |-> For([text |-> "", filter |-> ""]), at |-> 0]
  /\ cache' = [s \in Surfaces |-> 0]
  /\ slash' = [hidden |-> TRUE, at |-> 0]
  /\ UNCHANGED <<rev, heardRev, ran>>

Return ==
  /\ saved # None /\ ~box.open
  /\ saved' = None
  /\ box' = [box EXCEPT !.open = TRUE, !.text = saved.text]
  /\ cache' = [s \in Surfaces |-> 0]
  /\ slash' = [hidden |-> TRUE, at |-> 0]
  /\ timer' = "none"
  /\ Refresh(box', cache', {})
  /\ UNCHANGED <<rev, heardRev, ran, cmds>>

Init ==
  /\ rev = 1 /\ heardRev = TRUE
  /\ box = [open |-> FALSE, text |-> "", filter |-> CHOOSE f \in Filters : TRUE]
  /\ timer = "none" /\ asked = {} /\ status = "shown"
  /\ shown = [for |-> For([text |-> "", filter |-> ""]), at |-> 0]
  /\ cache = [s \in Surfaces |-> 0]
  /\ slash = [hidden |-> TRUE, at |-> 0]
  /\ ran = {} /\ missed = FALSE /\ saved = None /\ cmds = 0

Progress == Pause \/ Serve \/ SearchAnswered \/ CatalogAnswered \/ Ran \/ HearChange

Next ==
  \/ Progress \/ Open \/ Close \/ Type \/ Narrow \/ CatalogFails
  \/ Slash \/ Unslash \/ Run \/ Change \/ OpenResult \/ Return

Spec == Init /\ [][Next]_vars /\ WF_vars(Progress)

(***************************************************************************)
(* Properties                                                              *)
(***************************************************************************)
\* Once the typing has paused and the generation's request has been answered, the open dialog
\* lists what its text and filter ask for, in whatever order the answers came
ListMatchesBox ==
  /\ box.open /\ timer # "current" /\ ~missed
  /\ ~\E r \in asked : r.surface = "global" /\ r.kind # "run" /\ r.current
  => shown.for = For(box)

\* A command takes effect only on the conversation as its list showed it
RunsAsListed == \A c \in ran : c.listed = c.met
=============================================================================
