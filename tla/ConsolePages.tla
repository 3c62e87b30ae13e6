---------------------------- MODULE ConsolePages ----------------------------
(* The pages of the web console, one at a time: either a list page with its
   controls and changes, or a page whose dialogs are filled from one answer and
   sent after another.  The list of a page and its dialogs share no state but
   the request for the list, which ConsoleDialogs keeps as a step of its
   handlers; the part that is not open stays as it was.                       *)
EXTENDS ConsoleList, ConsoleDialogs

VARIABLE open      \* "list" or "dialogs"

pagesVars == <<open, listVars, dialogVars>>

PagesInit ==
    /\ ListInit
    /\ DialogInit
    /\ open \in {"list", "dialogs"}
    /\ open = "list" => dialogPage = "groups"
    /\ open = "dialogs" => /\ view = "groups"
                           /\ rows = [r \in Row |-> "open"]

PagesNext ==
    \/ open = "list" /\ ListNext /\ UNCHANGED <<open, dialogVars>>
    \/ open = "dialogs" /\ DialogNext /\ UNCHANGED <<open, listVars>>

PagesSpec == PagesInit /\ [][PagesNext]_pagesVars
=============================================================================
