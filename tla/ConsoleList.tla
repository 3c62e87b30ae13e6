----------------------------- MODULE ConsoleList -----------------------------
(* A list page of the web console: what its controls choose, the requests the
   choice starts, the query cache most pages share, the server's two reads
   behind each list, the changes the user makes from the list and the changes
   others make meanwhile.

   The pages differ in few things, which one record per concern and page names:
   its controls, its query, its table and the changes made from it.  A key is
   what a request asks for.  Pages that query keep one entry for each key and
   one request for each key in flight; pages that fetch by hand show whatever
   was answered last.

   React runs the effects of a change before the next event, so every other
   step waits while one is due.  The query library is external: an answer makes
   its entry fresh; an invalidation makes every entry stale and asks again for
   the key on show, replacing its request in flight if the key has an entry,
   and leaving it alone if that is the key's first request.                    *)
EXTENDS Integers, Sequences, FiniteSets

CONSTANTS
    Page,          \* the list pages
    Row,           \* identities of rows, in the order the lists sort them
    PageSize,
    None,
    MaxChoices,    \* bound: what the user does
    MaxLoads,      \* bound: requests in flight when the user goes on
    MaxEvents      \* bound: changes by others, failures, and entries that age

ASSUME ConsoleListAssumption ==
    /\ Page \subseteq {"devices", "alerts", "patches", "users", "policies",
                       "tokens", "groups", "software", "audit", "activity"}
    /\ Row \subseteq Nat /\ Row # {} /\ IsFiniteSet(Row)
    /\ PageSize \in Nat \ {0}

VARIABLES
    view,          \* the page that is open
    rows,          \* the server's rows
    controls,      \* what the page's controls hold
    due,           \* the effect that takes the list back to page 1 has to run
    ticks,         \* per row: the status filter it was ticked under
    cache,         \* the entry of each key
    shown,         \* pages that fetch by hand: the last answer; devices: the rows
                   \* shown before the controls changed
    failed,        \* keys whose last request failed
    loads,         \* requests in flight, in the order they were sent
    change,        \* the user's change in flight
    missed,        \* history: keys whose request a change did not replace
    muddled,       \* history: requests of a page that fetches by hand overlapped
    moved,         \* history: a link has moved the filter under the ticks
    choices, events

fetchVars == <<cache, shown, failed, loads, missed, muddled>>
pageVars == <<controls, due, ticks, moved>>
listVars == <<view, rows, pageVars, fetchVars, change, choices, events>>

-----------------------------------------------------------------------------
(* The pages.  `default` is the filter a page opens with and `links` those that
   links of the console name; `page` says when a choice takes the list back to
   page 1: with the choice, with the delayed search, or in an effect after it. *)

PlainControls == [filter |-> TRUE, default |-> "ALL", links |-> {}, search |-> "at once",
                  page |-> "only one"]

DevicesControls == [PlainControls EXCEPT !.links = {"open"}, !.search = "late", !.page = "with choice"]
AlertsControls == [PlainControls EXCEPT !.default = "open", !.links = {"open"}, !.page = "with choice"]
PatchesControls == [PlainControls EXCEPT !.search = "late", !.page = "after"]
UsersControls == [PlainControls EXCEPT !.search = "late", !.page = "with search"]
PoliciesControls == PlainControls
TokensControls == [PlainControls EXCEPT !.filter = FALSE, !.search = "none"]
GroupsControls == [PlainControls EXCEPT !.filter = FALSE]
SoftwareControls == [PlainControls EXCEPT !.filter = FALSE]
AuditControls == [PlainControls EXCEPT !.search = "late", !.page = "after"]
ActivityControls == [PlainControls EXCEPT !.search = "none", !.page = "with choice"]

\* `pager`: when pages can be turned; `clamps`: the page leaves a page past the
\* last one; `keeps`: the rows stay on show until the next ones are answered;
\* `ticks`: rows can be ticked; `covers`: changes are made in dialogs, which
\* cover the controls until the change is answered; `hides`: a list without
\* rows has no controls.
PlainTable == [pager |-> "none", clamps |-> FALSE, keeps |-> FALSE, ticks |-> FALSE,
               covers |-> FALSE, hides |-> FALSE]

DevicesTable == [PlainTable EXCEPT !.pager = "rows", !.keeps = TRUE, !.covers = TRUE]
AlertsTable == [PlainTable EXCEPT !.pager = "always", !.ticks = TRUE]
PatchesTable == [PlainTable EXCEPT !.pager = "always"]
UsersTable == [PlainTable EXCEPT !.pager = "settled rows", !.clamps = TRUE, !.covers = TRUE]
PoliciesTable == PlainTable
TokensTable == PlainTable
GroupsTable == [PlainTable EXCEPT !.covers = TRUE]
SoftwareTable == PlainTable
AuditTable == [PlainTable EXCEPT !.pager = "always"]
ActivityTable == [PlainTable EXCEPT !.pager = "rows", !.hides = TRUE]

\* What narrows each list at the server.
DevicesList == {"filter", "search"}
AlertsList == {"filter", "search"}
PatchesList == {"filter", "search"}
UsersList == {"filter", "search"}
PoliciesList == {"filter", "search"}
TokensList == {}
GroupsList == {"search"}
SoftwareList == {"search"}
AuditList == {"filter", "search"}
ActivityList == {"filter"}

\* What can be done to a row of the list.
DevicesChanges == {"gone"}
AlertsChanges == {"done"}
PatchesChanges == {"done", "gone"}
UsersChanges == {"open", "done", "gone"}
PoliciesChanges == {"open", "done", "gone"}
TokensChanges == {"done"}
GroupsChanges == {"open", "gone"}

Controls == CASE view = "devices" -> DevicesControls
              [] view = "alerts" -> AlertsControls
              [] view = "patches" -> PatchesControls
              [] view = "users" -> UsersControls
              [] view = "policies" -> PoliciesControls
              [] view = "tokens" -> TokensControls
              [] view = "groups" -> GroupsControls
              [] view = "software" -> SoftwareControls
              [] view = "audit" -> AuditControls
              [] view = "activity" -> ActivityControls
Table == CASE view = "devices" -> DevicesTable
           [] view = "alerts" -> AlertsTable
           [] view = "patches" -> PatchesTable
           [] view = "users" -> UsersTable
           [] view = "policies" -> PoliciesTable
           [] view = "tokens" -> TokensTable
           [] view = "groups" -> GroupsTable
           [] view = "software" -> SoftwareTable
           [] view = "audit" -> AuditTable
           [] view = "activity" -> ActivityTable
Narrows == CASE view = "devices" -> DevicesList
             [] view = "alerts" -> AlertsList
             [] view = "patches" -> PatchesList
             [] view = "users" -> UsersList
             [] view = "policies" -> PoliciesList
             [] view = "tokens" -> TokensList
             [] view = "groups" -> GroupsList
             [] view = "software" -> SoftwareList
             [] view = "audit" -> AuditList
             [] view = "activity" -> ActivityList
Changes == CASE view = "devices" -> DevicesChanges
             [] view = "alerts" -> AlertsChanges
             [] view = "patches" -> PatchesChanges
             [] view = "users" -> UsersChanges
             [] view = "policies" -> PoliciesChanges
             [] view = "tokens" -> TokensChanges
             [] view = "groups" -> GroupsChanges
             [] OTHER -> {}

ByHand == view \in {"groups", "software", "audit"}
Paged == Controls.page # "only one"

-----------------------------------------------------------------------------
(* Keys, entries and requests *)

RowState == {"open", "done", "gone"}
RowCount == Cardinality(Row)
Filter == {"ALL", "open"}
Term == {"", "first"}
Key == [filter: Filter, search: Term, page: 1 .. RowCount]

Control == [filter: Filter, search: Term, sent: Term, typing: BOOLEAN, page: 1 .. RowCount,
            link: Filter \cup {None}]
Entry == [key: Key, total: 0 .. RowCount, rows: SUBSET Row, stale: BOOLEAN, old: BOOLEAN]
Load == [key: Key, total: 0 .. RowCount \cup {None}, rows: (SUBSET Row) \cup {None}, old: BOOLEAN]
Change == [rows: SUBSET Row, to: RowState, from: Key, written: BOOLEAN]

ASSUME NoneAssumption ==
    None \notin Nat \cup Filter \cup Entry \cup Change /\ \A S \in SUBSET Row : S # None

KeyOf(c) == [filter |-> c.filter, search |-> c.sent, page |-> c.page]
Asked == KeyOf(controls)

New(k) == [key |-> k, total |-> None, rows |-> None, old |-> FALSE]
InFlight(k) == \E i \in DOMAIN loads : loads[i].key = k
Without(i) == [j \in 1 .. Len(loads) - 1 |-> IF j < i THEN loads[j] ELSE loads[j + 1]]
\* The others: pages that query have one request for a key at most.
Others(k) == IF InFlight(k) THEN Without(CHOOSE i \in DOMAIN loads : loads[i].key = k) ELSE loads

LastPage(total) == IF total = 0 THEN 1 ELSE (total + PageSize - 1) \div PageSize

OnShow == IF ByHand \/ (cache[Asked] = None /\ Table.keeps) THEN shown ELSE cache[Asked]
RowsOnShow == IF OnShow = None THEN {} ELSE OnShow.rows

\* What a page asks for when its controls have become c.
Ask(c) ==
    LET k == KeyOf(c) IN
    \/ /\ k = Asked
       /\ UNCHANGED fetchVars
    \/ /\ k # Asked /\ ByHand
       /\ loads' = Append(loads, New(k))
       /\ muddled' = (loads # <<>> \/ change # None)
       /\ UNCHANGED <<cache, shown, failed, missed>>
    \/ /\ k # Asked /\ ~ByHand
       /\ loads' = IF InFlight(k) \/ (cache[k] # None /\ ~cache[k].stale)
                   THEN loads ELSE Append(loads, New(k))
       /\ shown' = IF Table.keeps THEN OnShow ELSE shown
       /\ UNCHANGED <<cache, failed, missed, muddled>>

-----------------------------------------------------------------------------
(* Effects *)

\* Faulty variant: the link is read when the page is opened only.
FaultyLinkDue == FALSE

LinkDue == controls.link \notin {None, controls.filter}
ClampDue ==
    /\ Table.clamps
    /\ OnShow # None
    /\ OnShow.total > 0 /\ OnShow.rows = {}
    /\ controls.page > LastPage(OnShow.total)
Quiet == ~LinkDue /\ ~due /\ ~ClampDue

\* The page follows its link; a choice the user made against it is undone.
FollowLink ==
    LET c == [controls EXCEPT !.filter = controls.link, !.page = 1] IN
    /\ LinkDue
    /\ Ask(c)
    /\ controls' = c
    /\ moved' = (moved \/ ticks # [r \in Row |-> None])
    /\ UNCHANGED <<view, rows, due, ticks, change, choices, events>>

ResetPage ==
    LET c == [controls EXCEPT !.page = 1] IN
    /\ due
    /\ Ask(c)
    /\ controls' = c
    /\ due' = FALSE
    /\ UNCHANGED <<view, rows, ticks, moved, change, choices, events>>

ClampPage ==
    LET c == [controls EXCEPT !.page = LastPage(OnShow.total)] IN
    /\ ClampDue
    /\ Ask(c)
    /\ controls' = c
    /\ UNCHANGED <<view, rows, due, ticks, moved, change, choices, events>>

-----------------------------------------------------------------------------
(* What the user does *)

Acts ==
    /\ Quiet
    /\ choices < MaxChoices /\ Len(loads) <= MaxLoads
    /\ Table.covers => change = None
    /\ choices' = choices + 1

\* Faulty variant: a choice leaves the ticks.
FaultyChoose(f) ==
    LET c == [controls EXCEPT !.filter = f,
                              !.page = IF Controls.page = "with choice" THEN 1 ELSE @] IN
    /\ Acts
    /\ Controls.filter /\ f # controls.filter
    /\ Table.hides => RowsOnShow # {}
    /\ Ask(c)
    /\ controls' = c
    /\ due' = (Controls.page \in {"after", "with search"})
    /\ UNCHANGED <<view, rows, ticks, moved, change, events>>

Choose(f) ==
    LET c == [controls EXCEPT !.filter = f,
                              !.page = IF Controls.page = "with choice" THEN 1 ELSE @] IN
    /\ Acts
    /\ Controls.filter /\ f # controls.filter
    /\ Table.hides => RowsOnShow # {}
    /\ Ask(c)
    /\ controls' = c
    /\ due' = (Controls.page \in {"after", "with search"})
    /\ ticks' = [r \in Row |-> None]
    /\ moved' = FALSE
    /\ UNCHANGED <<view, rows, change, events>>

Type(s) ==
    LET c == [controls EXCEPT !.search = s,
                              !.sent = IF Controls.search = "at once" THEN s ELSE @,
                              !.typing = (Controls.search = "late"),
                              !.page = IF Controls.page = "with choice" THEN 1 ELSE @] IN
    /\ Acts
    /\ Controls.search # "none" /\ s # controls.search
    /\ Ask(c)
    /\ controls' = c
    /\ UNCHANGED <<view, rows, due, ticks, moved, change, events>>

\* The delay of a search has passed since the last keystroke.
Debounce ==
    LET c == [controls EXCEPT !.sent = controls.search, !.typing = FALSE,
                              !.page = IF Controls.page = "with search" THEN 1 ELSE @] IN
    /\ Quiet /\ controls.typing
    /\ Ask(c)
    /\ controls' = c
    /\ due' = (Controls.page = "after" /\ controls.sent # controls.search)
    /\ UNCHANGED <<view, rows, ticks, moved, change, choices, events>>

TurnPage(p) ==
    LET c == [controls EXCEPT !.page = p] IN
    /\ Acts
    /\ Paged /\ p # controls.page
    /\ OnShow # None /\ p <= LastPage(OnShow.total)
    /\ Table.pager # "always" => RowsOnShow # {}
    /\ Table.pager = "settled rows" => ~InFlight(Asked)
    /\ Ask(c)
    /\ controls' = c
    /\ UNCHANGED <<view, rows, due, ticks, moved, change, events>>

\* The refresh or retry button, which waits for the answer.
Refresh ==
    /\ Acts
    /\ ~InFlight(Asked)
    /\ loads' = Append(loads, New(Asked))
    /\ muddled' = (ByHand /\ (loads # <<>> \/ change # None))
    /\ UNCHANGED <<view, rows, pageVars, cache, shown, failed, missed, change, events>>

\* A link of the console leads to the page that is open.
Visit(l) ==
    /\ Acts
    /\ Controls.links # {} /\ l \in Controls.links \cup {None} /\ l # controls.link
    /\ controls' = [controls EXCEPT !.link = l]
    /\ UNCHANGED <<view, rows, due, ticks, moved, fetchVars, change, events>>

Opened(l) == [filter |-> IF l = None THEN Controls.default ELSE l, search |-> "", sent |-> "",
              typing |-> FALSE, page |-> 1, link |-> l]

\* The user leaves the page and comes back, maybe by a link.  Requests by hand
\* have nowhere to go; the entries and requests of the cache are kept.
Reopen(l) ==
    LET k == KeyOf(Opened(l)) IN
    /\ Acts
    /\ change = None
    /\ l \in Controls.links \cup {None}
    /\ controls' = Opened(l)
    /\ ticks' = [r \in Row |-> None]
    /\ moved' = FALSE
    /\ loads' = CASE ByHand -> <<New(k)>>
                  [] ~ByHand /\ ~InFlight(k) /\ (cache[k] = None \/ cache[k].stale) ->
                         Append(loads, New(k))
                  [] OTHER -> loads
    /\ shown' = None
    /\ muddled' = FALSE
    /\ UNCHANGED <<view, rows, due, cache, failed, missed, change, events>>

Tick(S) ==
    /\ Acts
    /\ Table.ticks /\ S \subseteq RowsOnShow /\ S # {}
    /\ ticks' = [r \in Row |-> IF r \notin S THEN ticks[r]
                               ELSE IF ticks[r] = None THEN controls.filter ELSE None]
    /\ UNCHANGED <<view, rows, controls, due, moved, fetchVars, change, events>>

-----------------------------------------------------------------------------
(* The user's changes *)

\* A change of a row on show, or a row made anew; one at a time.
Send(r, to) ==
    /\ Acts
    /\ change = None
    /\ to \in Changes
    /\ r \in RowsOnShow \/ (rows[r] = "gone" /\ to = "open")
    /\ change' = [rows |-> {r}, to |-> to, from |-> Asked, written |-> FALSE]
    /\ UNCHANGED <<view, rows, pageVars, fetchVars, events>>

\* The ticked alerts are resolved together, on show or not.
SendTicked ==
    /\ Acts
    /\ change = None
    /\ \E r \in Row : ticks[r] # None
    /\ change' = [rows |-> {r \in Row : ticks[r] # None}, to |-> "done",
                  from |-> Asked, written |-> FALSE]
    /\ UNCHANGED <<view, rows, pageVars, fetchVars, events>>

\* The rows change at the server: `own` when the user changed them.
Rewrite(next, own) ==
    /\ rows' = next
    /\ loads' = [i \in DOMAIN loads |->
                    [loads[i] EXCEPT !.old = @ \/ (own /\ loads[i].rows # None)]]
    /\ cache' = IF own
                THEN [k \in Key |-> IF cache[k] = None THEN None
                                    ELSE [cache[k] EXCEPT !.old = TRUE]]
                ELSE cache
    /\ shown' = IF own /\ ByHand /\ shown # None THEN [shown EXCEPT !.old = TRUE] ELSE shown

Write ==
    /\ Quiet
    /\ change # None /\ ~change.written
    /\ \E r \in change.rows : rows[r] # "gone" \/ change.to = "open"
    /\ Rewrite([r \in Row |-> IF r \in change.rows /\ (rows[r] # "gone" \/ change.to = "open")
                             THEN change.to ELSE rows[r]], TRUE)
    /\ change' = [change EXCEPT !.written = TRUE]
    /\ UNCHANGED <<view, pageVars, failed, missed, muddled, choices, events>>

\* Faulty variant: only the list on show is invalidated.
FaultyInvalidate ==
    /\ cache' = IF cache[Asked] = None THEN cache ELSE [cache EXCEPT ![Asked].stale = TRUE]
    /\ loads' = IF InFlight(Asked) /\ cache[Asked] = None
                THEN loads ELSE Append(Others(Asked), New(Asked))
    /\ missed' = missed \cup {loads'[i].key : i \in {j \in DOMAIN loads' : loads'[j].old}}
    /\ UNCHANGED <<shown, muddled>>

\* Every list of the page's kind is out of date, and the one on show is asked for.
Invalidate ==
    /\ cache' = [k \in Key |-> IF cache[k] = None THEN None ELSE [cache[k] EXCEPT !.stale = TRUE]]
    /\ loads' = IF InFlight(Asked) /\ cache[Asked] = None
                THEN loads ELSE Append(Others(Asked), New(Asked))
    /\ missed' = missed \cup {loads'[i].key : i \in {j \in DOMAIN loads' : loads'[j].old}}
    /\ UNCHANGED <<shown, muddled>>

\* The page fetches what it asked for when the change was sent.
FetchAgain ==
    /\ loads' = Append(loads, New(change.from))
    /\ muddled' = (loads # <<>> \/ change.from # Asked)
    /\ UNCHANGED <<cache, shown, missed>>

Acknowledge ==
    /\ Quiet
    /\ change # None /\ change.written
    /\ IF ByHand THEN FetchAgain ELSE Invalidate
    /\ ticks' = IF \E r \in change.rows : ticks[r] = None THEN ticks
                ELSE [r \in Row |-> None]
    /\ change' = None
    /\ UNCHANGED <<view, rows, controls, due, moved, failed, choices, events>>

\* The change is refused, or its answer is lost: the page says it failed and
\* fetches nothing.
ChangeFails ==
    /\ Quiet
    /\ change # None
    /\ \/ events < MaxEvents /\ events' = events + 1
       \/ (\A r \in change.rows : rows[r] = "gone") /\ ~change.written /\ events' = events
    /\ missed' = IF change.written THEN Key ELSE missed
    /\ muddled' = (muddled \/ (ByHand /\ change.written))
    /\ change' = None
    /\ UNCHANGED <<view, rows, pageVars, cache, shown, failed, loads, choices>>

-----------------------------------------------------------------------------
(* The server's reads, and their answers *)

Matching(k) ==
    {r \in Row : /\ rows[r] # "gone"
                 /\ "filter" \in Narrows /\ k.filter = "open" => rows[r] = "open"
                 /\ "search" \in Narrows /\ k.search = "first" => \A q \in Row : r <= q}

\* A list without pages asks for more rows than there are.
RowsOf(k) ==
    {r \in Matching(k) :
        Paged => Cardinality({q \in Matching(k) : q < r}) \div PageSize = k.page - 1}

\* The count and the rows, two reads of the server, are one step here: a change
\* between them would show in the number of pages only.
Read(i) ==
    /\ Quiet
    /\ loads[i].rows = None
    /\ loads' = [loads EXCEPT ![i].total = Cardinality(Matching(loads[i].key)),
                             ![i].rows = RowsOf(loads[i].key)]
    /\ UNCHANGED <<view, rows, pageVars, cache, shown, failed, missed, muddled,
                   change, choices, events>>

Answered(i) == loads' = Without(i)

Data(l) == [key |-> l.key, total |-> l.total, rows |-> l.rows, stale |-> FALSE,
            old |-> l.old]

Answer(i) ==
    LET l == loads[i] IN
    /\ Quiet
    /\ l.rows # None
    /\ Answered(i)
    /\ IF ByHand THEN shown' = Data(l) /\ cache' = cache
                 ELSE cache' = [cache EXCEPT ![l.key] = Data(l)] /\ shown' = shown
    /\ failed' = failed \ {l.key}
    /\ missed' = IF l.old THEN missed ELSE missed \ {l.key}
    /\ UNCHANGED <<view, rows, pageVars, muddled, change, choices, events>>

\* A failed request leaves what was on show; the pages that query try once more.
Fail(i) ==
    /\ Quiet
    /\ events < MaxEvents
    /\ Answered(i)
    /\ failed' = failed \cup {loads[i].key}
    /\ events' = events + 1
    /\ UNCHANGED <<view, rows, pageVars, cache, shown, missed, muddled, change, choices>>

Age ==
    /\ Quiet
    /\ events < MaxEvents
    /\ \E k \in Key : cache[k] # None /\ ~cache[k].stale
    /\ cache' = [k \in Key |-> IF cache[k] = None THEN None ELSE [cache[k] EXCEPT !.stale = TRUE]]
    /\ events' = events + 1
    /\ UNCHANGED <<view, rows, pageVars, shown, failed, loads, missed, muddled, change, choices>>

OthersChange(r, to) ==
    /\ Quiet
    /\ events < MaxEvents
    /\ to # rows[r]
    /\ Rewrite([rows EXCEPT ![r] = to], FALSE)
    /\ events' = events + 1
    /\ UNCHANGED <<view, pageVars, failed, missed, muddled, change, choices>>

-----------------------------------------------------------------------------
ListInit ==
    /\ view \in Page
    /\ rows \in [Row -> {"open", "done"}]
    /\ \E r \in Row : rows[r] = "open" /\ \A q \in Row : r <= q
    /\ \E l \in Controls.links \cup {None} : controls = Opened(l)
    /\ due = FALSE
    /\ ticks = [r \in Row |-> None]
    /\ cache = [k \in Key |-> None]
    /\ shown = None
    /\ failed = {}
    /\ loads = <<New(Asked)>>
    /\ change = None
    /\ missed = {} /\ muddled = FALSE /\ moved = FALSE
    /\ choices = 0 /\ events = 0

Effects == FollowLink \/ ResetPage \/ ClampPage

UserActs ==
    \/ \E f \in Filter : Choose(f)
    \/ \E s \in Term : Type(s)
    \/ \E p \in 1 .. RowCount : TurnPage(p)
    \/ \E l \in Filter \cup {None} : Visit(l) \/ Reopen(l)
    \/ Refresh
    \/ \E S \in SUBSET Row : Tick(S)
    \/ \E r \in Row, to \in RowState : Send(r, to)
    \/ SendTicked

ListNext ==
    \/ Effects
    \/ UserActs
    \/ Debounce
    \/ Write \/ Acknowledge \/ ChangeFails
    \/ \E i \in DOMAIN loads : Read(i) \/ Answer(i) \/ Fail(i)
    \/ Age
    \/ \E r \in Row, to \in RowState : OthersChange(r, to)

ListSpec == ListInit /\ [][ListNext]_listVars

-----------------------------------------------------------------------------
Settled == Quiet /\ ~controls.typing /\ change = None /\ ~InFlight(Asked) /\ Asked \notin failed

\* The variables hold what the steps write; a request that was read has its total.
ListTypeOK ==
    /\ view \in Page /\ rows \in [Row -> RowState]
    /\ controls \in Control /\ controls.link \in Controls.links \cup {None}
    /\ due \in BOOLEAN
    /\ ticks \in [Row -> Filter \cup {None}]
    /\ cache \in [Key -> Entry \cup {None}] /\ shown \in Entry \cup {None}
    /\ failed \subseteq Key
    /\ loads \in Seq(Load)
    /\ \A i \in DOMAIN loads : loads[i].rows # None => loads[i].total # None
    /\ change \in Change \cup {None}
    /\ muddled \in BOOLEAN /\ moved \in BOOLEAN

\* When nothing is under way, the list on show is that of the controls, the
\* search as typed and the filter the link names -- on a page that fetches by
\* hand, unless its requests overlapped.
ShownIsChosen ==
    Settled /\ OnShow # None /\ ~(ByHand /\ (muddled \/ loads # <<>> \/ failed # {})) =>
        /\ OnShow.key = [filter |-> controls.filter, search |-> controls.search,
                         page |-> controls.page]
        /\ controls.link \in {None, controls.filter}

\* When nothing is under way, the list on show was read after every change of
\* the user's that was acknowledged, unless the request then in flight was the
\* key's first or one of a list not on show, or requests by hand overlapped.
OwnChangesShown ==
    Settled /\ OnShow # None /\ OnShow.old =>
        IF ByHand THEN muddled \/ loads # <<>> \/ failed # {} ELSE Asked \in missed

\* A ticked alert was ticked under the status filter that is chosen now, unless
\* a link has moved the filter since.
TicksFit ==
    \A r \in Row : ticks[r] # None => ticks[r] = controls.filter \/ moved \/ LinkDue
=============================================================================
