------------------------------- MODULE Alerts --------------------------------
(***************************************************************************)
(* The alert table: the writers that raise an alert unless an unresolved   *)
(* one covers it, one by one or in a batch, the unique index they race     *)
(* for, the automatic resolution of recovered conditions, and the triage   *)
(* by admins.                                                              *)
(*                                                                         *)
(* As in Commands a Slot is a request in flight and an action is one       *)
(* statement of its handler with the code that follows it.                 *)
(***************************************************************************)
EXTENDS Naturals, FiniteSets, Functions

CONSTANTS
    MaxAlerts,     \* bound: rows the alert table ever holds
    Scope,         \* what writers raise: [device, type, key], the first and
                   \* the last of them None when left out
    Slot,          \* requests in flight at once
    None

ASSUME AlertsAssumption ==
    /\ MaxAlerts \in Nat
    /\ Scope # {}
    /\ None \notin Scope

VARIABLES
    alert,      \* the Alert rows
    writer      \* the requests in flight

alertVars == <<alert, writer>>

Alert == 1 .. MaxAlerts

NoAlert == [status |-> "ABSENT", scope |-> None]

Row == [status: {"OPEN", "ACKNOWLEDGED", "RESOLVED", "PURGED"}, scope: Scope]
         \cup {NoAlert}

\* todo: the conditions not answered for, cur: the one being written,
\* rows: the alerts an admin is triaging.
Quiet == [op |-> "quiet", cur |-> None, todo |-> {}, rows |-> {}]

Op == {"quiet", "find", "insert", "again", "batchFind", "batchInsert",
       "resolve", "acknowledge"}

Request == [op: Op, cur: Scope \cup {None}, todo: SUBSET Scope, rows: SUBSET Alert]

AlertInit == /\ alert = [a \in Alert |-> NoAlert]
             /\ writer = [s \in Slot |-> Quiet]

-----------------------------------------------------------------------------
\* UNRESOLVED
Unresolved(a) == alert[a].status \in {"OPEN", "ACKNOWLEDGED"}

\* A scope without device or key matches rows with any.
Matches(scope, input) ==
    /\ scope.type = input.type
    /\ input.device # None => scope.device = input.device
    /\ input.key # None => scope.key = input.key

Covered(input) == \E a \in Alert : Unresolved(a) /\ Matches(alert[a].scope, input)

\* Faulty variant: the index leaves acknowledged alerts out.
FaultyIndexFree(S) ==
    \A a \in Alert : alert[a].status = "OPEN" => alert[a].scope \notin S

\* The partial unique index alerts_dedup_open_uniq has room for alerts of S.
IndexFree(S) == \A a \in Alert : Unresolved(a) => alert[a].scope \notin S

\* The rows the next alerts take, one for each of S.
Fresh == {a \in Alert : alert[a] = NoAlert}
NewRows(S) ==
    UNION {Bijection(ids, S) :
             ids \in {I \in SUBSET Fresh : \A a \in I, b \in Fresh \ I : a < b}}

Done(s) == writer' = [writer EXCEPT ![s] = Quiet]

\* Faulty variant: the next input counts as answered for at once.
FaultyAnswered(s) ==
    LET left == writer[s].todo \ {writer[s].cur} IN
    IF left = {}
    THEN Done(s)
    ELSE \E next \in left :
           writer' = [writer EXCEPT ![s] = [Quiet EXCEPT !.op = "find", !.cur = next,
                                                         !.todo = left \ {next}]]

\* The input is answered for: on to the next of the batch, in any order.
Answered(s) ==
    LET left == writer[s].todo \ {writer[s].cur} IN
    IF left = {}
    THEN Done(s)
    ELSE \E next \in left :
           writer' = [writer EXCEPT ![s] = [Quiet EXCEPT !.op = "find", !.cur = next,
                                                         !.todo = left]]

-----------------------------------------------------------------------------
(* createAlertDedup *)

Raise(s, input) ==
    /\ writer[s] = Quiet
    /\ writer' = [writer EXCEPT ![s] = [Quiet EXCEPT !.op = "find", !.cur = input,
                                                     !.todo = {input}]]
    /\ UNCHANGED alert

Find(s) ==
    /\ writer[s].op = "find"
    /\ IF Covered(writer[s].cur)
       THEN Answered(s)
       ELSE writer' = [writer EXCEPT ![s].op = "insert"]
    /\ UNCHANGED alert

\* The index refuses the row when another writer was faster.
Insert(s) ==
    LET input == writer[s].cur IN
    /\ writer[s].op = "insert"
    /\ \/ /\ IndexFree({input})
          /\ \E rows \in NewRows({input}) :
               alert' = [a \in Alert |-> IF a \in DOMAIN rows
                                         THEN [status |-> "OPEN", scope |-> rows[a]]
                                         ELSE alert[a]]
          /\ Answered(s)
       \/ /\ ~IndexFree({input})
          /\ writer' = [writer EXCEPT ![s].op = "again"]
          /\ UNCHANGED alert

\* Faulty variant: a refused row is taken for one that is there.
FaultyFindAgain(s) ==
    /\ writer[s].op = "again"
    /\ Answered(s)
    /\ UNCHANGED alert

\* ... and the winner is returned, or the conflict when it is gone already,
\* which gives up the rest of a batch as well.
FindAgain(s) ==
    /\ writer[s].op = "again"
    /\ IF Covered(writer[s].cur) THEN Answered(s) ELSE Done(s)
    /\ UNCHANGED alert

-----------------------------------------------------------------------------
(* createAlertsDedupBatch *)

RaiseBatch(s, S) ==
    /\ writer[s] = Quiet
    /\ S # {}
    /\ writer' = [writer EXCEPT ![s] = [Quiet EXCEPT !.op = "batchFind", !.todo = S]]
    /\ UNCHANGED alert

BatchFind(s) ==
    LET toCreate == {sc \in writer[s].todo : ~Covered(sc)} IN
    /\ writer[s].op = "batchFind"
    /\ IF toCreate = {}
       THEN Done(s)
       ELSE writer' = [writer EXCEPT ![s].op = "batchInsert", ![s].todo = toCreate]
    /\ UNCHANGED alert

\* One createMany: all of the rows, or none and then one by one.
BatchInsert(s) ==
    /\ writer[s].op = "batchInsert"
    /\ \/ /\ IndexFree(writer[s].todo)
          /\ \E rows \in NewRows(writer[s].todo) :
               alert' = [a \in Alert |-> IF a \in DOMAIN rows
                                         THEN [status |-> "OPEN", scope |-> rows[a]]
                                         ELSE alert[a]]
          /\ Done(s)
       \/ /\ ~IndexFree(writer[s].todo)
          /\ \E next \in writer[s].todo :
               writer' = [writer EXCEPT ![s].op = "find", ![s].cur = next]
          /\ UNCHANGED alert

-----------------------------------------------------------------------------
(* Resolution and triage *)

Resolving(rows) ==
    alert' = [a \in Alert |-> IF a \in rows
                              THEN [alert[a] EXCEPT !.status = "RESOLVED"]
                              ELSE alert[a]]

\* resolveAlertsMatching: one guarded updateMany.
AutoResolve(scope) ==
    Resolving({a \in Alert : Unresolved(a) /\ Matches(alert[a].scope, scope)})

\* The condition of a handler has recovered.
Recover(s, scope) ==
    /\ writer[s] = Quiet
    /\ AutoResolve(scope)
    /\ UNCHANGED writer

\* POST /alerts/:id/resolve and /batch-resolve read the alerts ...
ResolveRead(s, rows) ==
    LET unresolved == {a \in rows : Unresolved(a)} IN
    /\ writer[s] = Quiet
    /\ unresolved # {}
    /\ writer' = [writer EXCEPT ![s] = [Quiet EXCEPT !.op = "resolve", !.rows = unresolved]]
    /\ UNCHANGED alert

\* ... and update those that are still there by id.
ResolveWrite(s) ==
    /\ writer[s].op = "resolve"
    /\ Resolving({a \in writer[s].rows : alert[a].status # "PURGED"})
    /\ Done(s)

\* POST /alerts/:id/acknowledge: 409 unless the alert is OPEN.
AcknowledgeRead(s, a) ==
    /\ writer[s] = Quiet
    /\ alert[a].status = "OPEN"
    /\ writer' = [writer EXCEPT ![s] = [Quiet EXCEPT !.op = "acknowledge", !.rows = {a}]]
    /\ UNCHANGED alert

\* The update is by id; it fails when the row is gone, and when the row enters
\* the index again and its place is taken.
AcknowledgeWrite(s) ==
    /\ writer[s].op = "acknowledge"
    /\ \E a \in writer[s].rows :
         IF \/ alert[a].status = "PURGED"
            \/ ~Unresolved(a) /\ ~IndexFree({alert[a].scope})
         THEN UNCHANGED alert
         ELSE alert' = [alert EXCEPT ![a].status = "ACKNOWLEDGED"]
    /\ Done(s)

\* purgeResolvedAlerts, for the alerts beyond the retention.
Purging(rows) ==
    /\ \A a \in rows : alert[a].status = "RESOLVED"
    /\ alert' = [a \in Alert |-> IF a \in rows
                                 THEN [alert[a] EXCEPT !.status = "PURGED"]
                                 ELSE alert[a]]

Purge(s, rows) ==
    /\ writer[s] = Quiet
    /\ Purging(rows)
    /\ UNCHANGED writer

\* A failing statement, or a crash of the process.
Fail(s) ==
    /\ writer[s] # Quiet
    /\ Done(s)
    /\ UNCHANGED alert

-----------------------------------------------------------------------------
RaiseSteps(s) == Find(s) \/ Insert(s) \/ FindAgain(s) \/ BatchFind(s) \/ BatchInsert(s)

Triage(s) ==
    \/ \E rows \in SUBSET Alert : ResolveRead(s, rows)
    \/ ResolveWrite(s)
    \/ \E a \in Alert : AcknowledgeRead(s, a)
    \/ AcknowledgeWrite(s)

Next ==
    \E s \in Slot :
      \/ \E input \in Scope : Raise(s, input) \/ Recover(s, input)
      \/ \E S \in SUBSET Scope : RaiseBatch(s, S)
      \/ \E rows \in SUBSET Alert : Purge(s, rows)
      \/ RaiseSteps(s)
      \/ Triage(s)
      \/ Fail(s)

Spec == AlertInit /\ [][Next]_alertVars

-----------------------------------------------------------------------------
(* Properties *)

\* The rows and the requests hold what the schema and the handlers allow; the
\* input being written is one that is still to be answered for.
AlertsTypeOK ==
    /\ alert \in [Alert -> Row]
    /\ writer \in [Slot -> Request]
    /\ \A s \in Slot :
         /\ writer[s].op \in {"find", "insert", "again"} => writer[s].cur \in writer[s].todo
         /\ \A a \in writer[s].rows : alert[a] # NoAlert

\* Repeated violations collapse into one unresolved alert for each scope,
\* whatever writers, resolutions and acknowledgements race.
OneUnresolved ==
    \A a, b \in Alert : /\ Unresolved(a) /\ Unresolved(b)
                        /\ alert[a].scope = alert[b].scope
                        => a = b

\* The table implements the promise of AlertBook to its writers; in the strict
\* form as long as requests do not overlap.
Book == INSTANCE AlertBook
    WITH Id <- Alert, Writer <- Slot, Covers <- Matches,
         Strict <- \A s, t \in Slot : s = t,
         open <- {[id |-> a, scope |-> alert[a].scope] : a \in {b \in Alert : Unresolved(b)}},
         waiting <- [s \in Slot |-> writer[s].todo]

BookSpec == Book!Spec
=============================================================================
