--------------------------- MODULE ConsoleDialogs ---------------------------
(* Two pages of the web console whose dialogs send something other than what
   they were filled from: the dialogs of a device group, which are filled from
   the group whose detail is on show and sent for the group on show when they
   are submitted, and the deployment of software, whose target is set by the
   user and by every answer to the page's request for the possible targets.

   Answers are applied in the order they come, and none of the requests is
   given up when another is sent.                                             *)
EXTENDS Naturals, FiniteSets

CONSTANTS
    Target,        \* groups, or the targets of a deployment; numbered in list order
    NoTarget,
    MaxActs,       \* bound: what the user does
    MaxOut         \* bound: requests of the page in flight when the user goes on

ASSUME ConsoleDialogsAssumption ==
    /\ Target \subseteq Nat /\ Target # {} /\ IsFiniteSet(Target)
    /\ NoTarget \notin Nat

VARIABLES
    dialogPage,    \* "groups" or "software"
    existing,      \* the server's groups
    selected,      \* selectedGroup, or targetId
    detailLoading,
    fetches,       \* requests in flight, per target: for its detail, or for all targets
    form,          \* the dialog: its kind, and what it stands for in the user's eyes
    handlers,      \* per kind of request: what its handler waits for, and with what
    crossed,       \* history: requests of the groups page have overlapped; the
                   \* deployment's dialog was opened while the targets were awaited
    acts

dialogVars == <<dialogPage, existing, selected, detailLoading, fetches, form,
                handlers, crossed, acts>>

-----------------------------------------------------------------------------
GroupDialog == {"rename", "add", "delete"}
Kind == GroupDialog \cup {"remove", "deploy"}

NoForm == [kind |-> "none", for |-> NoTarget]
Idle == [step |-> "idle", to |-> NoTarget, meant |-> NoTarget, over |-> NoTarget]

\* A handler keeps what was selected when it was started.
Sent(kind, to, meant) ==
    handlers' = [handlers EXCEPT ![kind] = [step |-> "request", to |-> to, meant |-> meant,
                                            over |-> selected]]
Asking(t) == fetches' = [fetches EXCEPT ![t] = @ + 1]

Awaited == \E t \in Target : fetches[t] > 0
\* Something of the page is under way, apart from the handler of this kind.
Busy(kind) == Awaited \/ \E k \in Kind \ {kind} : handlers[k] # Idle

DialogActs ==
    /\ acts < MaxActs
    /\ Cardinality({t \in Target : fetches[t] > 0}) <= MaxOut
    /\ acts' = acts + 1

-----------------------------------------------------------------------------
(* DeviceGroupsPage *)

\* A group is clicked in the list, which neither a dialog covers nor a request
\* for the list hides.
OpenDetail(t) ==
    /\ dialogPage = "groups" /\ DialogActs
    /\ form = NoForm /\ t \in existing
    /\ \A k \in Kind : handlers[k].step # "list"
    /\ detailLoading' = TRUE
    /\ Asking(t)
    /\ crossed' = Busy("none")
    /\ UNCHANGED <<dialogPage, existing, selected, form, handlers>>

\* Faulty variant: the dialogs can be opened while a detail is loading.
FaultyOpenDialog(kind) ==
    /\ dialogPage = "groups" /\ DialogActs
    /\ form = NoForm /\ selected # NoTarget
    /\ form' = [kind |-> kind, for |-> selected]
    /\ UNCHANGED <<dialogPage, existing, selected, detailLoading, fetches, handlers, crossed>>

OpenDialog(kind) ==
    /\ dialogPage = "groups" /\ DialogActs
    /\ form = NoForm /\ selected # NoTarget /\ ~detailLoading
    /\ kind = "delete" => handlers[kind] = Idle
    /\ form' = [kind |-> kind, for |-> selected]
    /\ UNCHANGED <<dialogPage, existing, selected, detailLoading, fetches, handlers, crossed>>

\* The group to delete was noted when the dialog was opened; the other dialogs
\* send for the group on show.
Submit ==
    /\ dialogPage = "groups" /\ DialogActs
    /\ form # NoForm /\ handlers[form.kind] = Idle
    /\ form.kind # "delete" => selected # NoTarget
    /\ Sent(form.kind, IF form.kind = "delete" THEN form.for ELSE selected, form.for)
    /\ UNCHANGED <<dialogPage, existing, selected, detailLoading, fetches, form, crossed>>

\* The button of a member, which needs no dialog.
RemoveMember ==
    /\ dialogPage = "groups" /\ DialogActs
    /\ form = NoForm /\ selected # NoTarget /\ ~detailLoading /\ handlers["remove"] = Idle
    /\ Sent("remove", selected, selected)
    /\ UNCHANGED <<dialogPage, existing, selected, detailLoading, fetches, form, crossed>>

\* A dialog is closed, by its buttons or by the page: its own request in flight
\* prevents it on the groups page.
CloseDialog ==
    /\ form # NoForm /\ DialogActs
    /\ dialogPage = "groups" => handlers[form.kind] = Idle
    /\ form' = NoForm
    /\ UNCHANGED <<dialogPage, existing, selected, detailLoading, fetches, handlers, crossed>>

\* The handler of this kind fetches the detail of its group.
FetchDetail(kind) ==
    /\ handlers' = [handlers EXCEPT ![kind].step = "detail"]
    /\ detailLoading' = TRUE
    /\ Asking(handlers[kind].to)
    /\ crossed' = (crossed \/ Busy(kind))

\* The server has done what a handler asked for: a change of members fetches the
\* detail and then the list, the others the list first.
Done(kind) ==
    LET h == handlers[kind] IN
    /\ kind \in Kind \ {"deploy"} /\ h.step = "request"
    /\ h.to \in existing
    /\ form' = IF form.kind = kind THEN NoForm ELSE form
    /\ existing' = IF kind = "delete" THEN existing \ {h.to} ELSE existing
    /\ selected' = IF kind = "delete" /\ h.over = h.to THEN NoTarget ELSE selected
    /\ IF kind \in {"add", "remove"}
       THEN FetchDetail(kind)
       ELSE /\ handlers' = [handlers EXCEPT ![kind].step = "list"]
            /\ UNCHANGED <<detailLoading, fetches, crossed>>
    /\ UNCHANGED <<dialogPage, acts>>

\* A request that failed leaves its dialog open, except that of a deletion.
Refused(kind) ==
    /\ kind \in Kind \ {"deploy"} /\ handlers[kind].step = "request"
    /\ handlers' = [handlers EXCEPT ![kind] = Idle]
    /\ form' = IF kind = "delete" THEN NoForm ELSE form
    /\ UNCHANGED <<dialogPage, existing, selected, detailLoading, fetches, crossed, acts>>

\* The list is answered: a renamed group's detail comes after it.
Listed(kind) ==
    /\ handlers[kind].step = "list"
    /\ IF kind = "rename"
       THEN FetchDetail(kind)
       ELSE /\ handlers' = [handlers EXCEPT ![kind] = Idle]
            /\ UNCHANGED <<detailLoading, fetches, crossed>>
    /\ UNCHANGED <<dialogPage, existing, selected, form, acts>>

\* A detail is answered, whichever was asked for last; the group may be gone.
DetailAnswered(t, ok) ==
    /\ dialogPage = "groups" /\ fetches[t] > 0
    /\ ok => t \in existing
    /\ fetches' = [fetches EXCEPT ![t] = @ - 1]
    /\ selected' = IF ok THEN t ELSE selected
    /\ detailLoading' = FALSE
    /\ LET waiting == {k \in Kind : handlers[k].step = "detail" /\ handlers[k].to = t} IN
       \/ fetches[t] > Cardinality(waiting) /\ handlers' = handlers
       \/ \E k \in waiting :
             handlers' = IF k = "rename" THEN [handlers EXCEPT ![k] = Idle]
                                         ELSE [handlers EXCEPT ![k].step = "list"]
    /\ UNCHANGED <<dialogPage, existing, form, crossed, acts>>

-----------------------------------------------------------------------------
(* SoftwarePage *)

First == CHOOSE t \in existing : \A u \in existing : t <= u

\* Every change of the search asks for the targets again.
Search ==
    /\ dialogPage = "software" /\ DialogActs
    /\ form = NoForm
    /\ Asking(CHOOSE t \in Target : TRUE)
    /\ UNCHANGED <<dialogPage, existing, selected, detailLoading, form, handlers, crossed>>

\* The answer selects the first group, whatever was selected before.
TargetsAnswered(ok) ==
    /\ dialogPage = "software"
    /\ \E t \in Target :
          /\ fetches[t] > 0
          /\ fetches' = [fetches EXCEPT ![t] = @ - 1]
    /\ selected' = IF ok /\ existing # {} THEN First ELSE selected
    /\ UNCHANGED <<dialogPage, existing, detailLoading, form, handlers, crossed, acts>>

OpenDeploy ==
    /\ dialogPage = "software" /\ DialogActs
    /\ form = NoForm
    /\ form' = [kind |-> "deploy", for |-> selected]
    /\ crossed' = Awaited
    /\ UNCHANGED <<dialogPage, existing, selected, detailLoading, fetches, handlers>>

\* The user chooses a target, or a kind of target, whose first is selected.
ChooseTarget(t) ==
    /\ dialogPage = "software" /\ DialogActs
    /\ form # NoForm /\ selected # NoTarget /\ t # selected
    /\ selected' = t
    /\ form' = [form EXCEPT !.for = t]
    /\ UNCHANGED <<dialogPage, existing, detailLoading, fetches, handlers, crossed>>

Deploy ==
    /\ dialogPage = "software" /\ DialogActs
    /\ form # NoForm /\ handlers["deploy"] = Idle /\ selected # NoTarget
    /\ Sent("deploy", selected, form.for)
    /\ UNCHANGED <<dialogPage, existing, selected, detailLoading, fetches, form, crossed>>

\* Success closes the dialog that is open, be it another one.
DeployAnswered(ok) ==
    /\ handlers["deploy"] # Idle
    /\ handlers' = [handlers EXCEPT !["deploy"] = Idle]
    /\ form' = IF ok THEN NoForm ELSE form
    /\ UNCHANGED <<dialogPage, existing, selected, detailLoading, fetches, crossed, acts>>

-----------------------------------------------------------------------------
DialogInit ==
    /\ dialogPage \in {"groups", "software"}
    /\ existing = Target
    /\ selected = NoTarget
    /\ detailLoading = FALSE
    /\ fetches = [t \in Target |-> IF dialogPage = "software" /\ t = CHOOSE u \in Target : TRUE
                                   THEN 1 ELSE 0]
    /\ form = NoForm
    /\ handlers = [k \in Kind |-> Idle]
    /\ crossed = FALSE
    /\ acts = 0

\* Another administrator deletes a group.
Vanish(t) ==
    /\ DialogActs
    /\ t \in existing
    /\ existing' = existing \ {t}
    /\ UNCHANGED <<dialogPage, selected, detailLoading, fetches, form, handlers, crossed>>

GroupsNext ==
    \/ \E t \in Target : OpenDetail(t)
    \/ \E kind \in GroupDialog : OpenDialog(kind)
    \/ Submit
    \/ RemoveMember
    \/ \E kind \in Kind : Done(kind) \/ Refused(kind) \/ Listed(kind)
    \/ \E t \in Target, ok \in BOOLEAN : DetailAnswered(t, ok)

SoftwareNext ==
    \/ Search
    \/ \E ok \in BOOLEAN : TargetsAnswered(ok) \/ DeployAnswered(ok)
    \/ OpenDeploy
    \/ \E t \in Target : ChooseTarget(t)
    \/ Deploy

DialogNext == GroupsNext \/ SoftwareNext \/ CloseDialog \/ \E t \in Target : Vanish(t)

DialogSpec == DialogInit /\ [][DialogNext]_dialogVars

-----------------------------------------------------------------------------
DialogTypeOK ==
    /\ dialogPage \in {"groups", "software"}
    /\ existing \subseteq Target
    /\ selected \in Target \cup {NoTarget}
    /\ detailLoading \in BOOLEAN
    /\ fetches \in [Target -> Nat]
    /\ form = NoForm \/ form \in [kind: Kind, for: Target \cup {NoTarget}]
    /\ handlers \in [Kind -> {Idle} \cup [step: {"request", "list", "detail"}, to: Target,
                                         meant: Target \cup {NoTarget},
                                         over: Target \cup {NoTarget}]]
    /\ crossed \in BOOLEAN

\* What a dialog sends is for the group or target the user opened it for, or
\* chose in it, unless requests of the page had overlapped: two details of the
\* groups page, or a detail and what a handler was doing, or the targets of the
\* deployment that were still awaited when its dialog was opened.
RequestHits ==
    [][\A k \in Kind : handlers[k] = Idle /\ handlers'[k] # Idle =>
            handlers'[k].to = handlers'[k].meant \/ crossed]_dialogVars
=============================================================================
