------------------------------- MODULE ShellFeeds -------------------------------
(***************************************************************************)
(* The rail of conversations and the attention feed of the web shell       *)
(* (dc_shell_controller.js), which follow the server by events and         *)
(* single-flight reads, the actions taken on what they show, and the       *)
(* drawer the rail sits in.  Which rows a filter or a group shows, and     *)
(* what a row looks like, is left out.                                     *)
(***************************************************************************)
EXTENDS Naturals, FiniteSets

CONSTANTS Convs,      \* conversations
          Newcomers,  \* those that do not exist yet when the page is loaded
          MaxActs     \* bound: changes, user actions, navigations and faults

ASSUME ConvsAssumption == Newcomers \subseteq Convs

VARIABLES
  srv,      \* the server: rev[c], st[c], and v, the number of changes
  told,     \* the change of the latest event not heard yet, or 0
  heard,    \* ghost: the change of the latest event heard
  conn,     \* the event stream: live, lost, or closed for good
  rows,     \* conversations that have a row in the rail
  inbox,    \* the page the rail was painted from: inboxEntries
  flight,   \* inboxFlight: none, asked, answered, or waiting for the markup
  queued,   \* inboxRefreshQueued
  markup,   \* inboxMarkupRefresh: none, asked, or waiting for a flight it joined or owns
  paged,    \* a read of the next settled page
  feed,     \* attentionPage
  attn,     \* attentionFlight
  requeued, \* attentionRefreshQueued
  more,     \* a read of the next page of the feed
  posts,    \* actions on their way
  acted,    \* ghost: what the server accepted, at the revision shown and the one it had
  notices,  \* the persistent notices: inbox, attention
  late,     \* ghost: feeds painted last by a paged read older than the latest event
  drawer,   \* open, inert (the page behind it), narrow (the window), and ghost replaced: taken
            \* out of the page while it was open
  acts

inboxVars == <<rows, inbox, flight, queued, markup, paged>>
attnVars  == <<feed, attn, requeued, more>>
vars == <<srv, told, heard, conn, inboxVars, attnVars, posts, acted, notices, late, drawer, acts>>

Act == acts < MaxActs /\ acts' = acts + 1

None == [st |-> "none"]
Asked == [st |-> "asked"]
Answer(s) == [st |-> "answered", page |-> s]

Active(s) == {c \in Convs : s.st[c] = "active"}

(***************************************************************************)
(* The server                                                              *)
(***************************************************************************)
\* A change of conversation c is announced to every stream that is open
Changed(s, c, st) == [v |-> s.v + 1, rev |-> [s.rev EXCEPT ![c] = @ + 1], st |-> [s.st EXCEPT ![c] = st]]

Announce == told' = IF conn = "live" THEN srv'.v ELSE told

Change ==
  /\ Act
  /\ \E c \in Convs, st \in {"active", "settled"} : srv' = Changed(srv, c, st)
  /\ Announce
  /\ UNCHANGED <<heard, conn, inboxVars, attnVars, posts, acted, notices, late, drawer>>

\* Mutant: the revision an action was taken at is not compared
HoldsFor(m) == srv.st[m.conv] = "active"

\* An action on a conversation holds for the revision it was shown at
Holds(m) == srv.st[m.conv] = "active" /\ m.rev = srv.rev[m.conv]

ServePost(p) ==
  /\ p.ok = "asked"
  /\ \/ \E m \in p.members :
          /\ Holds(m)
          /\ srv' = Changed(srv, m.conv, IF p.kind = "settle" THEN "settled" ELSE "active")
          /\ acted' = acted \cup {[shown |-> m.rev, had |-> srv.rev[m.conv]]}
          /\ posts' = (posts \ {p}) \cup {[p EXCEPT !.members = @ \ {m}]}
          /\ Announce
     \/ /\ \A m \in p.members : ~Holds(m)
        /\ posts' = (posts \ {p}) \cup {[p EXCEPT !.ok = "answered"]}
        /\ UNCHANGED <<srv, told, acted>>
  /\ UNCHANGED <<heard, conn, inboxVars, attnVars, notices, late, drawer, acts>>

(***************************************************************************)
(* Events                                                                  *)
(***************************************************************************)
StreamBreaks ==
  /\ Act
  /\ conn = "live"
  /\ conn' = "lost" /\ told' = 0
  /\ UNCHANGED <<srv, heard, inboxVars, attnVars, posts, acted, notices, late, drawer>>

StreamOpens ==
  /\ conn = "lost"
  /\ conn' = "live"
  /\ UNCHANGED <<srv, told, heard, inboxVars, attnVars, posts, acted, notices, late, drawer, acts>>

\* handleAuthorizationRevoked: the stream is closed and nothing opens it again
Revoked ==
  /\ Act
  /\ conn' = "closed" /\ told' = 0
  /\ UNCHANGED <<srv, heard, inboxVars, attnVars, posts, acted, notices, late, drawer>>

\* Mutant: a refresh during another is taken to be served by it
JoinInboxFlight == UNCHANGED queued

JoinInbox == queued' = TRUE

\* refreshInboxUi, refreshAttentionUi: one flight each, and one more after it when asked meanwhile
RefreshInbox ==
  \/ flight = None /\ flight' = Asked /\ UNCHANGED queued
  \/ flight # None /\ JoinInbox /\ UNCHANGED flight

RefreshAttention ==
  \/ attn = None /\ attn' = Asked /\ UNCHANGED requeued
  \/ attn # None /\ requeued' = TRUE /\ UNCHANGED attn

HearChange ==
  /\ told # 0
  /\ heard' = told /\ told' = 0
  /\ RefreshInbox /\ RefreshAttention
  /\ UNCHANGED <<srv, conn, rows, inbox, markup, paged, feed, more, posts, acted, notices, late, drawer, acts>>

(***************************************************************************)
(* The rail: loadInboxPage, refreshInboxMarkup                             *)
(***************************************************************************)
Read ==
  /\ \/ flight = Asked /\ flight' = Answer(srv) /\ UNCHANGED <<paged, attn, more>>
     \/ paged = Asked /\ paged' = Answer(srv) /\ UNCHANGED <<flight, attn, more>>
     \/ attn = Asked /\ attn' = Answer(srv) /\ UNCHANGED <<flight, paged, more>>
     \/ more = Asked /\ more' = Answer(srv) /\ UNCHANGED <<flight, paged, attn>>
  /\ UNCHANGED <<srv, told, heard, conn, rows, inbox, queued, markup, feed, requeued,
                 posts, acted, notices, late, drawer, acts>>

\* The flight is over: what was asked meanwhile is read now, and a markup refresh that joined
\* it, or started it and has nothing more to wait for, is over too
FlightEnds ==
  /\ flight' = IF queued THEN Asked ELSE None
  /\ queued' = FALSE
  /\ markup' = IF markup = "joined" \/ (markup = "owns" /\ ~queued) THEN "none" ELSE markup
  /\ paged' = IF paged.st = "markup" /\ markup' = "none" THEN None ELSE paged

\* The paged read is over
PagedEnds == paged' = None /\ UNCHANGED <<flight, queued, markup>>

Missing(page) == Active(page) \ rows # {}

\* A paged read, a request of its own, may be painted after what announced its page is old
Lateness(which, page, asPaged) ==
  late' = IF asPaged /\ page.v < heard THEN late \cup {which} ELSE late \ {which}

Paint(page, asPaged) ==
  /\ inbox' = page
  /\ Lateness("inbox", page, asPaged)
  /\ notices' = notices \ {"inbox"}

Elsewhere == UNCHANGED <<srv, told, heard, conn, attnVars, posts, acted, drawer>>

\* A page whose rows are all in the rail is painted; the others' wait for new markup
FlightAnswered ==
  /\ flight.st = "answered"
  /\ \/ /\ ~Missing(flight.page)
        /\ Paint(flight.page, FALSE) /\ FlightEnds
     \/ /\ Missing(flight.page)
        /\ flight' = [st |-> "markup"]
        /\ markup' = IF markup = "none" THEN "asked" ELSE markup
        /\ UNCHANGED <<inbox, queued, paged, notices, late>>
  /\ Elsewhere /\ UNCHANGED <<rows, acts>>

PagedAnswered ==
  /\ paged.st = "answered"
  /\ \/ /\ ~Missing(paged.page)
        /\ Paint(paged.page, TRUE) /\ PagedEnds
     \/ /\ Missing(paged.page)
        /\ paged' = [st |-> "markup"]
        /\ markup' = IF markup = "none" THEN "asked" ELSE markup
        /\ UNCHANGED <<inbox, queued, flight, notices, late>>
  /\ Elsewhere /\ UNCHANGED <<rows, acts>>

ReadFails ==
  /\ Act
  /\ notices' = notices \cup {"inbox"}
  /\ \/ flight.st \in {"asked", "answered"} /\ FlightEnds
     \/ paged.st \in {"asked", "answered"} /\ PagedEnds
  /\ Elsewhere /\ UNCHANGED <<rows, inbox, late>>

\* The rail is replaced by what the server renders now, which is closed, and painted from the
\* page held so far; the refresh that follows joins the flight there is, even one that waits
\* for this very markup
MarkupArrives ==
  /\ markup = "asked"
  /\ rows' = Active(srv)
  /\ drawer' = [drawer EXCEPT !.open = FALSE, !.replaced = @ \/ drawer.open]
  /\ \/ flight = None /\ markup' = "owns" /\ flight' = Asked /\ UNCHANGED queued
     \/ flight # None /\ markup' = "joined" /\ JoinInbox /\ UNCHANGED flight
  /\ UNCHANGED <<srv, told, heard, conn, inbox, paged, attnVars, posts, acted, notices, late, acts>>

MarkupFails ==
  /\ Act
  /\ markup = "asked" /\ markup' = "none"
  /\ notices' = notices \cup {"inbox"}
  /\ paged' = IF paged.st = "markup" THEN None ELSE paged
  /\ \/ flight.st = "markup" /\ flight' = (IF queued THEN Asked ELSE None) /\ queued' = FALSE
     \/ flight.st # "markup" /\ UNCHANGED <<flight, queued>>
  /\ Elsewhere /\ UNCHANGED <<rows, inbox, late>>

\* Paging the settled tail is a request of its own
NextSettled ==
  /\ Act
  /\ paged = None /\ paged' = Asked
  /\ Elsewhere /\ UNCHANGED <<rows, inbox, flight, queued, markup, notices, late>>

(***************************************************************************)
(* The attention feed                                                      *)
(***************************************************************************)
Here == UNCHANGED <<srv, told, heard, conn, inboxVars, posts, acted, drawer>>

AttnEnds ==
  /\ attn' = IF requeued THEN Asked ELSE None
  /\ requeued' = FALSE

PaintFeed(page, asPaged) ==
  /\ feed' = page
  /\ Lateness("attention", page, asPaged)
  /\ notices' = notices \ {"attention"}

AttnAnswered ==
  /\ \/ attn.st = "answered" /\ PaintFeed(attn.page, FALSE) /\ AttnEnds /\ UNCHANGED more
     \/ more.st = "answered" /\ PaintFeed(more.page, TRUE) /\ more' = None /\ UNCHANGED <<attn, requeued>>
  /\ Here /\ UNCHANGED acts

AttnFails ==
  /\ Act
  /\ notices' = notices \cup {"attention"}
  /\ \/ attn # None /\ AttnEnds /\ UNCHANGED more
     \/ more # None /\ more' = None /\ UNCHANGED <<attn, requeued>>
  /\ Here /\ UNCHANGED <<feed, late>>

NextAttention ==
  /\ Act
  /\ more = None /\ more' = Asked
  /\ Here /\ UNCHANGED <<feed, attn, requeued, notices, late>>

(***************************************************************************)
(* Actions on what is shown                                                *)
(***************************************************************************)
\* What a painted row, and an item of the feed, say of their conversation: the revision an
\* action on them names
PaintedRow(c) == [conv |-> c, rev |-> inbox.rev[c]]

Item(c) == [conv |-> c, rev |-> feed.rev[c]]

Post(kind, members) ==
  /\ members # {}
  /\ posts' = posts \cup {[kind |-> kind, ok |-> "asked", members |-> members]}
  /\ UNCHANGED <<srv, told, heard, conn, inboxVars, attnVars, acted, notices, late, drawer>>

\* settleInboxRows: one row, or the rows selected
Settle == Act /\ \E S \in SUBSET (rows \cap Active(inbox)) : Post("settle", {PaintedRow(c) : c \in S})

\* resolveAttention, updateAttentionMarker
Resolve == Act /\ \E c \in Active(feed) : Post("resolve", {Item(c)})

\* toggleShellPopover, markVisibleAttentionRead: the newest item of every conversation
OpenAttention == Act /\ Post("read", {Item(c) : c \in Active(feed)})

PostAnswered(p) ==
  /\ p.ok = "answered"
  /\ posts' = posts \ {p}
  /\ \/ p.kind = "settle" /\ RefreshInbox /\ UNCHANGED <<attn, requeued>>
     \/ p.kind # "settle" /\ RefreshAttention /\ UNCHANGED <<flight, queued>>
  /\ UNCHANGED <<srv, told, heard, conn, rows, inbox, markup, paged, feed, more, acted, notices, late, drawer, acts>>

\* An action that is refused or lost is reported and refreshes nothing
PostFails ==
  /\ Act
  /\ \E p \in posts : posts' = posts \ {p}
  /\ UNCHANGED <<srv, told, heard, conn, inboxVars, attnVars, acted, notices, late, drawer>>

(***************************************************************************)
(* Navigation and the drawer                                               *)
(***************************************************************************)
\* setSidebarOpen
SetDrawer(open) == drawer' = [drawer EXCEPT !.open = open, !.inert = open, !.replaced = FALSE]

\* The rail is a drawer in a narrow window only; its toggle lies behind it, its close button on it
Toggle ==
  /\ Act
  /\ drawer.narrow
  /\ \/ ~drawer.inert /\ SetDrawer(TRUE)
     \/ drawer.open /\ SetDrawer(FALSE)
  /\ UNCHANGED <<srv, told, heard, conn, inboxVars, attnVars, posts, acted, notices, late>>

\* handleDrawerViewportChange
Resize ==
  /\ Act
  /\ drawer' = IF drawer.narrow
                THEN [open |-> FALSE, inert |-> FALSE, replaced |-> FALSE, narrow |-> FALSE]
                ELSE [drawer EXCEPT !.narrow = TRUE]
  /\ UNCHANGED <<srv, told, heard, conn, inboxVars, attnVars, posts, acted, notices, late>>

\* Mutant: the new rail is closed and the page behind it left as it was
SwapOnly == drawer' = [drawer EXCEPT !.open = FALSE]

\* A swap puts a closed rail in place; reconcileDrawerState follows it
Reconcile == SetDrawer(FALSE)

\* handleAfterSwap: the new rail and panel are painted from the pages held
Navigate ==
  /\ Act
  /\ rows' = Active(srv)
  /\ Reconcile
  /\ UNCHANGED <<srv, told, heard, conn, inbox, flight, queued, markup, paged, attnVars, posts, acted, notices, late>>

Init ==
  /\ srv = [v |-> 1, rev |-> [c \in Convs |-> IF c \in Newcomers THEN 0 ELSE 1],
            st |-> [c \in Convs |-> IF c \in Newcomers THEN "none" ELSE "active"]]
  /\ told = 0 /\ heard = 1 /\ conn = "live"
  /\ rows = Active(srv) /\ inbox = srv /\ feed = srv
  /\ flight = None /\ queued = FALSE /\ markup = "none" /\ paged = None
  /\ attn = None /\ requeued = FALSE /\ more = None
  /\ posts = {} /\ acted = {} /\ notices = {} /\ late = {}
  /\ drawer = [open |-> FALSE, inert |-> FALSE, replaced |-> FALSE, narrow |-> TRUE]
  /\ acts = 0

Progress ==
  \/ StreamOpens \/ HearChange \/ Read
  \/ FlightAnswered \/ PagedAnswered \/ MarkupArrives \/ AttnAnswered
  \/ \E p \in posts : ServePost(p) \/ PostAnswered(p)

Next ==
  \/ Progress
  \/ Change \/ StreamBreaks \/ Revoked \/ ReadFails \/ MarkupFails \/ AttnFails \/ PostFails
  \/ NextSettled \/ NextAttention \/ Settle \/ Resolve \/ OpenAttention \/ Toggle \/ Resize \/ Navigate

Spec == Init /\ [][Next]_vars /\ WF_vars(Progress)

(***************************************************************************)
(* Properties                                                              *)
(***************************************************************************)
\* With no read under way and no notice shown, both feeds show at least what the latest event
\* announced; unless a paged read, which is a flight of its own, was overtaken and painted late
FeedsCurrentAtRest ==
  /\ flight = None /\ "inbox" \notin notices \cup late => inbox.v >= heard
  /\ attn = None /\ "attention" \notin notices \cup late => feed.v >= heard

\* The server does what was asked of a conversation only as it was shown, whichever of its
\* changes the feeds had heard of and whatever was painted meanwhile
ActsOnWhatWasShown == \A a \in acted : a.shown = a.had

\* The page behind the drawer is inert only while a drawer is there to close, whatever
\* navigation, resizing or markup refresh meets it open; unless a markup
\* refresh took the open drawer away
DrawerNeverTraps == drawer.inert => (drawer.open /\ drawer.narrow) \/ drawer.replaced

\* refreshInboxUi: a flight of the inbox lands.  Refuted: a page that names a conversation
\* without a row waits for new markup, which refreshes the inbox, which waits for that page
InboxFlightLands == flight # None ~> flight = None
=============================================================================
