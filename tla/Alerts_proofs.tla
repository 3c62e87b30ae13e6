---------------------------- MODULE Alerts_proofs ----------------------------
(***************************************************************************)
(* Proofs about Alerts, for any number of alerts, scopes and requests in   *)
(* flight: one unresolved alert for each scope, and the promise of         *)
(* AlertBook to the writers.  DeviceStatus, whose heartbeats and sweeps    *)
(* write the same tables, keeps both.                                      *)
(***************************************************************************)
EXTENDS DeviceStatus, TLAPS

\* The row an alert that is written takes.
NewRow(scope) == [status |-> "OPEN", scope |-> scope]

\* A handler of Alerts or of DeviceStatus.
Handler == [op: Op \cup {"online", "sweep", "mark"}, cur: Scope \cup {None},
            todo: SUBSET Scope, rows: SUBSET Alert]

\* Only a writer that raises has conditions to answer for.
WriterOK(r) ==
    /\ r \in Handler
    /\ r.op \in {"find", "insert", "again"} => r.cur \in r.todo
    /\ r.op \in {"quiet", "resolve", "acknowledge", "online", "sweep"} => r.todo = {}

TypeInv ==
    /\ alert \in [Alert -> Row]
    /\ writer \in [Slot -> Handler]
    /\ \A s \in Slot : WriterOK(writer[s]) /\ \A a \in writer[s].rows : alert[a] # NoAlert

Inv == TypeInv /\ OneUnresolved

-----------------------------------------------------------------------------
\* A row is absent or has a scope; its status is never "ABSENT" otherwise.
LEMMA RowFacts ==
    ASSUME AlertsAssumption
    PROVE  /\ NoAlert \in Row
           /\ \A r \in Row : r.status = "ABSENT" <=> r = NoAlert
           /\ \A r \in Row \ {NoAlert} : r.scope \in Scope
           /\ \A r \in Row \ {NoAlert}, st \in {"OPEN", "ACKNOWLEDGED", "RESOLVED", "PURGED"} :
                /\ [r EXCEPT !.status = st] \in Row \ {NoAlert}
                /\ [r EXCEPT !.status = st].status = st
                /\ [r EXCEPT !.status = st].scope = r.scope
           /\ \A sc \in Scope : /\ NewRow(sc) \in Row \ {NoAlert}
                                /\ NewRow(sc).status = "OPEN" /\ NewRow(sc).scope = sc
  BY DEF Row, NoAlert, NewRow, AlertsAssumption

\* The row a statement makes of another by writing its status.
LEMMA StatusRow ==
    ASSUME AlertsAssumption, NEW r \in Row \ {NoAlert},
           NEW st \in {"OPEN", "ACKNOWLEDGED", "RESOLVED", "PURGED"}, NEW q,
           q = [r EXCEPT !.status = st]
    PROVE  q \in Row \ {NoAlert} /\ q.status = st /\ q.scope = r.scope
  BY DEF Row, NoAlert, AlertsAssumption

\* Alerts are written to rows that are absent, one for each scope.
LEMMA NewRowsFacts ==
    ASSUME NEW S, NEW rows \in NewRows(S)
    PROVE  /\ \A a \in DOMAIN rows : a \in Alert /\ alert[a] = NoAlert /\ rows[a] \in S
           /\ \A a, b \in DOMAIN rows : rows[a] = rows[b] => a = b
           /\ \A sc \in S : \E a \in DOMAIN rows : rows[a] = sc
  BY DEF NewRows, Fresh, Bijection, Injection, Surjection, IsInjective

\* What a step does to the table: rows keep their scope and are never absent
\* again, and two unresolved rows have different scopes.
Advance ==
    /\ alert' \in [Alert -> Row]
    /\ \A a \in Alert : alert[a] # NoAlert => alert'[a] # NoAlert /\ alert'[a].scope = alert[a].scope
    /\ OneUnresolved'

\* A step that moves no unresolved row in advances the table.
LEMMA Lowering ==
    ASSUME Inv, alert' \in [Alert -> Row],
           \A a \in Alert : alert[a] # NoAlert => alert'[a] # NoAlert /\ alert'[a].scope = alert[a].scope,
           \A a \in Alert : Unresolved(a)' => Unresolved(a) /\ alert[a] # NoAlert
    PROVE  Advance
  BY DEF Inv, OneUnresolved, Unresolved, Advance

\* Writing the rows of scopes the index has room for advances the table.
LEMMA Writing ==
    ASSUME AlertsAssumption, Inv, NEW S \in SUBSET Scope, IndexFree(S), NEW rows \in NewRows(S),
           alert' = [a \in Alert |-> IF a \in DOMAIN rows
                                     THEN [status |-> "OPEN", scope |-> rows[a]]
                                     ELSE alert[a]]
    PROVE  /\ Advance
           /\ \A a \in Alert : Unresolved(a)' =>
                \/ a \notin DOMAIN rows /\ Unresolved(a) /\ alert'[a] = alert[a]
                \/ a \in DOMAIN rows /\ alert'[a] = NewRow(rows[a])
           /\ \A a \in Alert : Unresolved(a) => Unresolved(a)' /\ alert'[a] = alert[a]
           /\ \A a \in DOMAIN rows : a \in Alert /\ Unresolved(a)' /\ alert'[a] = NewRow(rows[a])
<1>1. \A a \in Alert : \/ a \notin DOMAIN rows /\ alert'[a] = alert[a]
                       \/ a \in DOMAIN rows /\ alert'[a] = NewRow(rows[a])
  BY DEF NewRow
<1>2. \A a \in DOMAIN rows : a \in Alert /\ alert[a] = NoAlert /\ rows[a] \in S
  BY NewRowsFacts
<1>3. \A a \in DOMAIN rows : /\ alert'[a].status = "OPEN" /\ alert'[a].scope = rows[a]
                             /\ alert'[a] \in Row \ {NoAlert}
  BY <1>1, <1>2, RowFacts
<1>4. \A a \in Alert : Unresolved(a) => alert[a] # NoAlert
  BY DEF Unresolved, NoAlert
<1>5. alert' \in [Alert -> Row]
  BY <1>1, <1>3 DEF Inv, TypeInv
<1>6. OneUnresolved'
  <2> SUFFICES ASSUME NEW a \in Alert, NEW b \in Alert, Unresolved(a)', Unresolved(b)',
                      alert'[a].scope = alert'[b].scope
               PROVE  a = b
    BY DEF OneUnresolved
  <2>1. CASE a \in DOMAIN rows /\ b \in DOMAIN rows
    BY <2>1, <1>3, NewRowsFacts
  <2>2. CASE a \notin DOMAIN rows /\ b \notin DOMAIN rows
    BY <2>2, <1>1 DEF Inv, OneUnresolved, Unresolved
  <2>3. CASE a \in DOMAIN rows /\ b \notin DOMAIN rows
    BY <2>3, <1>1, <1>2, <1>3 DEF IndexFree, Unresolved
  <2>4. CASE a \notin DOMAIN rows /\ b \in DOMAIN rows
    BY <2>4, <1>1, <1>2, <1>3 DEF IndexFree, Unresolved
  <2>5. QED  BY <2>1, <2>2, <2>3, <2>4
<1>7. QED
  BY <1>1, <1>2, <1>3, <1>4, <1>5, <1>6 DEF Advance, Unresolved

\* A handler that moves to a well-formed state keeps the invariant.
LEMMA WriterStep ==
    ASSUME AlertsAssumption, Inv, Advance \/ UNCHANGED alert,
           NEW s \in Slot, NEW r, WriterOK(r), \A a \in r.rows : alert[a] # NoAlert,
           writer' = [writer EXCEPT ![s] = r]
    PROVE  Inv'
<1>1. CASE Advance
  BY <1>1 DEF Advance, Inv, TypeInv, WriterOK, Handler
<1>2. CASE UNCHANGED alert
  BY <1>2 DEF Inv, TypeInv, WriterOK, OneUnresolved, Unresolved
<1>3. QED  BY <1>1, <1>2

\* A slot without a handler is well formed.
LEMMA QuietFacts == WriterOK(Quiet) /\ Quiet.rows = {} /\ Quiet.todo = {}
  BY DEF WriterOK, Quiet, Handler, Op

\* A handler that ends keeps the invariant.
LEMMA DoneStep ==
    ASSUME AlertsAssumption, Inv, Advance \/ UNCHANGED alert, NEW s \in Slot, Done(s)
    PROVE  Inv'
  BY QuietFacts, WriterStep DEF Done

\* So does one that goes on to the next input; either way one input less is
\* waiting.
LEMMA AnsweredStep ==
    ASSUME AlertsAssumption, Inv, Advance \/ UNCHANGED alert, NEW s \in Slot,
           writer[s].op \in {"find", "insert", "again"}, Answered(s)
    PROVE  /\ Inv'
           /\ \A t \in Slot : writer'[t].todo = IF t = s THEN writer[s].todo \ {writer[s].cur}
                                                         ELSE writer[t].todo
<1>1. WriterOK(writer[s]) /\ writer \in [Slot -> Handler]
  BY DEF Inv, TypeInv
<1> DEFINE left == writer[s].todo \ {writer[s].cur}
<1>2. CASE left = {}
  <2>1. Done(s)
    BY <1>2 DEF Answered
  <2>2. QED  BY <1>1, <1>2, <2>1, DoneStep, QuietFacts DEF Done
<1>3. CASE left # {}
  <2>1. PICK next \in left :
          writer' = [writer EXCEPT ![s] = [Quiet EXCEPT !.op = "find", !.cur = next, !.todo = left]]
    BY <1>3 DEF Answered
  <2>2. PICK r : r = [Quiet EXCEPT !.op = "find", !.cur = next, !.todo = left]
    OBVIOUS
  <2>3. left \subseteq Scope
    BY <1>1 DEF WriterOK, Handler
  <2>4. WriterOK(r) /\ r.rows = {} /\ r.todo = left
    BY <2>1, <2>2, <2>3 DEF WriterOK, Quiet, Handler, Op
  <2>5. writer' = [writer EXCEPT ![s] = r]
    BY <2>1, <2>2
  <2>6. QED  BY <1>1, <2>4, <2>5, WriterStep
<1>4. QED  BY <1>2, <1>3

-----------------------------------------------------------------------------
\* The table is empty at first, and no handler runs.
LEMMA InvInit == AlertsAssumption /\ AlertInit => Inv
<1> SUFFICES ASSUME AlertsAssumption, AlertInit PROVE Inv
  OBVIOUS
<1>1. \A a \in Alert : alert[a] = NoAlert /\ ~Unresolved(a)
  BY DEF AlertInit, Unresolved, NoAlert
<1>2. TypeInv
  BY <1>1, RowFacts, QuietFacts DEF AlertInit, TypeInv, WriterOK
<1>3. QED  BY <1>1, <1>2 DEF Inv, OneUnresolved

\* A write of a status other than an unresolved one only lowers rows.
LEMMA LoweringTo ==
    ASSUME AlertsAssumption, Inv, NEW rows \in SUBSET Alert, \A a \in rows : alert[a] # NoAlert,
           NEW st \in {"RESOLVED", "PURGED"},
           alert' = [a \in Alert |-> IF a \in rows THEN [alert[a] EXCEPT !.status = st]
                                     ELSE alert[a]]
    PROVE  /\ Advance
           /\ \A a \in Alert : Unresolved(a)' <=> Unresolved(a) /\ a \notin rows
<1>1. \A a \in Alert : /\ alert[a] \in Row
                       /\ a \in rows => /\ alert'[a] \in Row \ {NoAlert}
                                        /\ alert'[a].status = st
                                        /\ alert'[a].scope = alert[a].scope
                       /\ a \notin rows => alert'[a] = alert[a]
  <2> TAKE a \in Alert
  <2>1. alert[a] \in Row
    BY DEF Inv, TypeInv
  <2>2. CASE a \in rows
    <3>1. PICK r \in Row \ {NoAlert} : r = alert[a]
      BY <2>1, <2>2
    <3>2. PICK q : q = [r EXCEPT !.status = st]
      OBVIOUS
    <3>3. q \in Row \ {NoAlert} /\ q.status = st /\ q.scope = r.scope
      BY <3>2, StatusRow
    <3>4. alert'[a] = q
      BY <2>2, <3>1, <3>2
    <3>5. QED  BY <2>1, <2>2, <3>1, <3>3, <3>4
  <2>3. QED  BY <2>1, <2>2
<1>2. \A a \in Alert : Unresolved(a)' <=> Unresolved(a) /\ a \notin rows
  BY <1>1 DEF Unresolved
<1>3. alert' \in [Alert -> Row]
  BY <1>1 DEF Inv, TypeInv
<1>4. \A a \in Alert : Unresolved(a) => alert[a] # NoAlert
  BY DEF Unresolved, NoAlert
<1>5. Advance
  BY <1>1, <1>2, <1>3, <1>4, Lowering
<1>6. QED  BY <1>2, <1>5

\* An acknowledgement raises a row only where the index has room for it.
LEMMA AcknowledgeAdvance ==
    ASSUME AlertsAssumption, Inv, NEW a \in Alert, alert[a] # NoAlert,
           Unresolved(a) \/ IndexFree({alert[a].scope}),
           alert' = [alert EXCEPT ![a].status = "ACKNOWLEDGED"]
    PROVE  /\ Advance
           /\ Unresolved(a)' /\ alert'[a].scope = alert[a].scope
           /\ \A b \in Alert : b # a => alert'[b] = alert[b]
<1>1. /\ alert'[a] \in Row \ {NoAlert}
      /\ alert'[a].status = "ACKNOWLEDGED"
      /\ alert'[a].scope = alert[a].scope
      /\ \A b \in Alert : b # a => alert'[b] = alert[b]
  <2>1. PICK r \in Row \ {NoAlert} : r = alert[a]
    BY DEF Inv, TypeInv
  <2>2. PICK q : q = [r EXCEPT !.status = "ACKNOWLEDGED"]
    OBVIOUS
  <2>3. q \in Row \ {NoAlert} /\ q.status = "ACKNOWLEDGED" /\ q.scope = r.scope
    BY <2>2, StatusRow
  <2>4. alert' = [alert EXCEPT ![a] = q] /\ alert \in [Alert -> Row]
    BY <2>1, <2>2 DEF Inv, TypeInv
  <2>5. QED  BY <2>1, <2>3, <2>4
<1>2. alert' \in [Alert -> Row]
  BY <1>1 DEF Inv, TypeInv
<1>3. \A b \in Alert : b # a /\ Unresolved(b)' => Unresolved(b) /\ alert[b].scope # alert[a].scope
  BY <1>1 DEF Unresolved, IndexFree, Inv, OneUnresolved
<1>4. OneUnresolved'
  BY <1>1, <1>3 DEF Inv, OneUnresolved, Unresolved
<1>5. QED  BY <1>1, <1>2, <1>4 DEF Advance, Unresolved

\* Every step keeps the rows and the handlers well formed and the unresolved
\* alerts apart.
LEMMA InvStep ==
    ASSUME AlertsAssumption, Inv, [Next]_alertVars
    PROVE  Inv'
<1>0. \A s \in Slot : /\ WriterOK(writer[s])
                      /\ \A a \in writer[s].rows : a \in Alert /\ alert[a] # NoAlert
  BY DEF Inv, TypeInv, WriterOK, Handler
<1>1. ASSUME NEW s \in Slot, NEW input \in Scope, Raise(s, input) PROVE Inv'
  <2>1. PICK r : r = [Quiet EXCEPT !.op = "find", !.cur = input, !.todo = {input}]
    OBVIOUS
  <2>2. WriterOK(r) /\ r.rows = {}
    BY <2>1 DEF WriterOK, Quiet, Handler, Op
  <2>3. QED  BY <1>1, <2>1, <2>2, WriterStep DEF Raise
<1>2. ASSUME NEW s \in Slot, NEW S \in SUBSET Scope, RaiseBatch(s, S) PROVE Inv'
  <2>1. PICK r : r = [Quiet EXCEPT !.op = "batchFind", !.todo = S]
    OBVIOUS
  <2>2. WriterOK(r) /\ r.rows = {}
    BY <2>1 DEF WriterOK, Quiet, Handler, Op
  <2>3. QED  BY <1>2, <2>1, <2>2, WriterStep DEF RaiseBatch
<1>3. ASSUME NEW s \in Slot, Find(s) PROVE Inv'
  <2>1. CASE Answered(s)
    BY <1>3, <2>1, AnsweredStep DEF Find
  <2>2. CASE writer' = [writer EXCEPT ![s].op = "insert"]
    <3>1. PICK r : r = [writer[s] EXCEPT !.op = "insert"]
      OBVIOUS
    <3>2. WriterOK(r) /\ r.rows = writer[s].rows
      BY <1>0, <1>3, <3>1 DEF Find, WriterOK, Handler, Op
    <3>3. writer' = [writer EXCEPT ![s] = r]
      BY <2>2, <3>1
    <3>4. QED  BY <1>0, <1>3, <3>2, <3>3, WriterStep DEF Find
  <2>3. QED  BY <1>3, <2>1, <2>2 DEF Find
<1>4. ASSUME NEW s \in Slot, Insert(s) PROVE Inv'
  <2> DEFINE input == writer[s].cur
  <2>1. CASE IndexFree({input}) /\ Answered(s)
    <3>1. input \in Scope
      BY <1>0, <1>4 DEF Insert, WriterOK, Handler
    <3>2. PICK rows \in NewRows({input}) :
            alert' = [a \in Alert |-> IF a \in DOMAIN rows
                                      THEN [status |-> "OPEN", scope |-> rows[a]]
                                      ELSE alert[a]]
      BY <1>4, <2>1 DEF Insert
    <3>3. Advance
      BY <2>1, <3>1, <3>2, Writing
    <3>4. QED  BY <1>4, <2>1, <3>3, AnsweredStep DEF Insert
  <2>2. CASE writer' = [writer EXCEPT ![s].op = "again"] /\ UNCHANGED alert
    <3>1. PICK r : r = [writer[s] EXCEPT !.op = "again"]
      OBVIOUS
    <3>2. WriterOK(r) /\ r.rows = writer[s].rows
      BY <1>0, <1>4, <3>1 DEF Insert, WriterOK, Handler, Op
    <3>3. writer' = [writer EXCEPT ![s] = r]
      BY <2>2, <3>1
    <3>4. QED  BY <1>0, <2>2, <3>2, <3>3, WriterStep
  <2>3. QED  BY <1>4, <2>1, <2>2 DEF Insert
<1>5. ASSUME NEW s \in Slot, FindAgain(s) PROVE Inv'
  BY <1>5, AnsweredStep, DoneStep DEF FindAgain
<1>6. ASSUME NEW s \in Slot, BatchFind(s) PROVE Inv'
  <2> DEFINE toCreate == {sc \in writer[s].todo : ~Covered(sc)}
  <2>1. CASE Done(s)
    BY <1>6, <2>1, DoneStep DEF BatchFind
  <2>2. CASE writer' = [writer EXCEPT ![s].op = "batchInsert", ![s].todo = toCreate]
    <3>1. PICK r : r = [writer[s] EXCEPT !.op = "batchInsert", !.todo = toCreate]
      OBVIOUS
    <3>2. WriterOK(r) /\ r.rows = writer[s].rows
      BY <1>0, <1>6, <3>1 DEF BatchFind, WriterOK, Handler, Op
    <3>3. writer' = [writer EXCEPT ![s] = r]
      BY <2>2, <3>1 DEF Inv, TypeInv
    <3>4. QED  BY <1>0, <1>6, <3>2, <3>3, WriterStep DEF BatchFind
  <2>3. QED  BY <1>6, <2>1, <2>2 DEF BatchFind
<1>7. ASSUME NEW s \in Slot, BatchInsert(s) PROVE Inv'
  <2>1. CASE IndexFree(writer[s].todo) /\ Done(s)
    <3>1. writer[s].todo \in SUBSET Scope
      BY <1>0 DEF WriterOK, Handler
    <3>2. PICK rows \in NewRows(writer[s].todo) :
            alert' = [a \in Alert |-> IF a \in DOMAIN rows
                                      THEN [status |-> "OPEN", scope |-> rows[a]]
                                      ELSE alert[a]]
      BY <1>7, <2>1 DEF BatchInsert
    <3>3. Advance
      BY <2>1, <3>1, <3>2, Writing
    <3>4. QED  BY <2>1, <3>3, DoneStep
  <2>2. CASE /\ \E next \in writer[s].todo :
                  writer' = [writer EXCEPT ![s].op = "find", ![s].cur = next]
             /\ UNCHANGED alert
    <3>1. PICK next \in writer[s].todo :
            writer' = [writer EXCEPT ![s].op = "find", ![s].cur = next]
      BY <2>2
    <3>2. PICK r : r = [writer[s] EXCEPT !.op = "find", !.cur = next]
      OBVIOUS
    <3>3. WriterOK(r) /\ r.rows = writer[s].rows
      BY <1>0, <3>1, <3>2 DEF WriterOK, Handler, Op
    <3>4. writer' = [writer EXCEPT ![s] = r]
      BY <3>1, <3>2 DEF Inv, TypeInv
    <3>5. QED  BY <1>0, <2>2, <3>3, <3>4, WriterStep
  <2>3. QED  BY <1>7, <2>1, <2>2 DEF BatchInsert
<1>8. ASSUME NEW s \in Slot, NEW rows \in SUBSET Alert, ResolveRead(s, rows) PROVE Inv'
  <2>1. PICK r : r = [Quiet EXCEPT !.op = "resolve", !.rows = {a \in rows : Unresolved(a)}]
    OBVIOUS
  <2>2. \A a \in Alert : Unresolved(a) => alert[a] # NoAlert
    BY DEF Unresolved, NoAlert
  <2>3. WriterOK(r) /\ \A a \in r.rows : alert[a] # NoAlert
    BY <2>1, <2>2 DEF WriterOK, Quiet, Handler, Op
  <2>4. QED  BY <1>8, <2>1, <2>3, WriterStep DEF ResolveRead
<1>9. ASSUME NEW s \in Slot, ResolveWrite(s) PROVE Inv'
  <2>1. PICK rows : rows = {a \in writer[s].rows : alert[a].status # "PURGED"}
    OBVIOUS
  <2>2. Advance
    BY <1>0, <1>9, <2>1, LoweringTo DEF ResolveWrite, Resolving
  <2>3. QED  BY <1>9, <2>2, DoneStep DEF ResolveWrite
<1>10. ASSUME NEW s \in Slot, NEW a \in Alert, AcknowledgeRead(s, a) PROVE Inv'
  <2>1. PICK r : r = [Quiet EXCEPT !.op = "acknowledge", !.rows = {a}]
    OBVIOUS
  <2>2. WriterOK(r) /\ r.rows = {a}
    BY <2>1 DEF WriterOK, Quiet, Handler, Op
  <2>3. alert[a] # NoAlert
    BY <1>10 DEF AcknowledgeRead, NoAlert
  <2>4. QED  BY <1>10, <2>1, <2>2, <2>3, WriterStep DEF AcknowledgeRead
<1>11. ASSUME NEW s \in Slot, AcknowledgeWrite(s) PROVE Inv'
  <2>1. PICK a \in writer[s].rows :
          \/ UNCHANGED alert
          \/ /\ Unresolved(a) \/ IndexFree({alert[a].scope})
             /\ alert' = [alert EXCEPT ![a].status = "ACKNOWLEDGED"]
    BY <1>11 DEF AcknowledgeWrite
  <2>2. Advance \/ UNCHANGED alert
    BY <1>0, <2>1, AcknowledgeAdvance
  <2>3. QED  BY <1>11, <2>2, DoneStep DEF AcknowledgeWrite
<1>12. ASSUME NEW s \in Slot, NEW input \in Scope, Recover(s, input) PROVE Inv'
  <2>1. PICK rows : rows = {a \in Alert : Unresolved(a) /\ Matches(alert[a].scope, input)}
    OBVIOUS
  <2>2. \A a \in rows : alert[a] # NoAlert
    BY <2>1 DEF Unresolved, NoAlert
  <2>3. Advance
    BY <1>12, <2>1, <2>2, LoweringTo DEF Recover, AutoResolve, Resolving
  <2>4. QED  BY <1>12, <2>3 DEF Recover, Advance, Inv, TypeInv, WriterOK, Handler
<1>13. ASSUME NEW s \in Slot, NEW rows \in SUBSET Alert, Purge(s, rows) PROVE Inv'
  <2>1. \A a \in rows : alert[a] # NoAlert
    BY <1>13 DEF Purge, Purging, NoAlert
  <2>2. Advance
    BY <1>13, <2>1, LoweringTo DEF Purge, Purging
  <2>3. QED  BY <1>13, <2>2 DEF Purge, Advance, Inv, TypeInv, WriterOK, Handler
<1>14. ASSUME NEW s \in Slot, Fail(s) PROVE Inv'
  BY <1>14, DoneStep DEF Fail
<1>15. CASE UNCHANGED alertVars
  BY <1>15 DEF alertVars, Inv, TypeInv, WriterOK, OneUnresolved, Unresolved
<1>16. QED
  BY <1>1, <1>2, <1>3, <1>4, <1>5, <1>6, <1>7, <1>8, <1>9, <1>10, <1>11, <1>12, <1>13, <1>14, <1>15
     DEF Next, RaiseSteps, Triage

\* No two unresolved alerts have the same scope, however many writers,
\* resolutions and acknowledgements race: the index turns all others down.
THEOREM OneUnresolvedAlert == Spec => []OneUnresolved
<1>1. Inv /\ [Next]_alertVars => Inv'
  BY AlertsAssumption, InvStep
<1>2. Inv => OneUnresolved
  BY DEF Inv
<1>3. QED  BY AlertsAssumption, InvInit, <1>1, <1>2, PTL DEF Spec

\* The requests of the alert endpoints are those of Alerts.
AlertOps == \A s \in Slot : writer[s].op \in Op

\* A request that moves to an operation of Alerts.
LEMMA OpStep ==
    ASSUME Inv, AlertOps, NEW s \in Slot, NEW r, r.op \in Op, writer' = [writer EXCEPT ![s] = r]
    PROVE  AlertOps'
  BY DEF Inv, TypeInv, AlertOps

\* So does one that ends, or goes on to its next input.
LEMMA OpAnswered ==
    ASSUME Inv, AlertOps, NEW s \in Slot, Done(s) \/ Answered(s)
    PROVE  AlertOps'
<1>1. CASE Done(s)
  <2>1. Quiet.op \in Op
    BY DEF Quiet, Op
  <2>2. QED  BY <1>1, <2>1, OpStep DEF Done
<1>2. CASE Answered(s) /\ ~Done(s)
  <2>1. PICK left : left = writer[s].todo \ {writer[s].cur}
    OBVIOUS
  <2>2. PICK next \in left :
          writer' = [writer EXCEPT ![s] = [Quiet EXCEPT !.op = "find", !.cur = next, !.todo = left]]
    BY <1>2, <2>1 DEF Answered
  <2>3. PICK r : r = [Quiet EXCEPT !.op = "find", !.cur = next, !.todo = left]
    OBVIOUS
  <2>4. r.op \in Op
    BY <2>3 DEF Quiet, Op
  <2>5. QED  BY <2>2, <2>3, <2>4, OpStep
<1>3. QED  BY <1>1, <1>2

\* No step of Alerts leads to an operation of another module.
LEMMA OpsStep ==
    ASSUME Inv, AlertOps, [Next]_alertVars
    PROVE  AlertOps'
<1>0. writer \in [Slot -> Handler]
  BY DEF Inv, TypeInv
<1>1. ASSUME NEW s \in Slot, NEW op \in Op, NEW c, NEW T, NEW R,
             \/ writer' = [writer EXCEPT ![s] = [Quiet EXCEPT !.op = op, !.cur = c, !.todo = T]]
             \/ writer' = [writer EXCEPT ![s] = [Quiet EXCEPT !.op = op, !.todo = T]]
             \/ writer' = [writer EXCEPT ![s] = [Quiet EXCEPT !.op = op, !.rows = R]]
             \/ writer' = [writer EXCEPT ![s].op = op]
             \/ writer' = [writer EXCEPT ![s].op = op, ![s].todo = T]
             \/ writer' = [writer EXCEPT ![s].op = op, ![s].cur = c]
      PROVE  AlertOps'
  <2>1. writer'[s].op = op
    <3>0. writer[s] \in Handler
      BY <1>0
    <3>1. CASE \/ writer' = [writer EXCEPT ![s] = [Quiet EXCEPT !.op = op, !.cur = c, !.todo = T]]
               \/ writer' = [writer EXCEPT ![s] = [Quiet EXCEPT !.op = op, !.todo = T]]
               \/ writer' = [writer EXCEPT ![s] = [Quiet EXCEPT !.op = op, !.rows = R]]
      <4>1. PICK r : r.op = op /\ writer' = [writer EXCEPT ![s] = r]
        BY <3>1 DEF Quiet
      <4>2. QED  BY <1>0, <4>1
    <3>2. CASE writer' = [writer EXCEPT ![s].op = op]
      BY <1>0, <3>0, <3>2 DEF Handler
    <3>3. CASE writer' = [writer EXCEPT ![s].op = op, ![s].todo = T]
      BY <1>0, <3>0, <3>3 DEF Handler
    <3>4. CASE writer' = [writer EXCEPT ![s].op = op, ![s].cur = c]
      BY <1>0, <3>0, <3>4 DEF Handler
    <3>5. QED  BY <1>1, <3>1, <3>2, <3>3, <3>4
  <2>2. \A t \in Slot \ {s} : writer'[t] = writer[t]
    BY <1>0, <1>1
  <2>3. QED  BY <2>1, <2>2 DEF AlertOps
<1>2. {"find", "insert", "again", "batchFind", "batchInsert", "resolve", "acknowledge"} \subseteq Op
  BY DEF Op
<1>3. ASSUME NEW s \in Slot, NEW input \in Scope, Raise(s, input) PROVE AlertOps'
  BY <1>1, <1>2, <1>3 DEF Raise
<1>4. ASSUME NEW s \in Slot, NEW S \in SUBSET Scope, RaiseBatch(s, S) PROVE AlertOps'
  BY <1>1, <1>2, <1>4 DEF RaiseBatch
<1>5. ASSUME NEW s \in Slot, Find(s) \/ Insert(s) \/ FindAgain(s) PROVE AlertOps'
  BY <1>1, <1>2, <1>5, OpAnswered DEF Find, Insert, FindAgain
<1>6. ASSUME NEW s \in Slot, BatchFind(s) PROVE AlertOps'
  <2>1. PICK T : T = {sc \in writer[s].todo : ~Covered(sc)}
    OBVIOUS
  <2>2. QED  BY <1>1, <1>2, <1>6, <2>1, OpAnswered DEF BatchFind
<1>7. ASSUME NEW s \in Slot, BatchInsert(s) PROVE AlertOps'
  BY <1>1, <1>2, <1>7, OpAnswered DEF BatchInsert
<1>8. ASSUME NEW s \in Slot, NEW rows \in SUBSET Alert, ResolveRead(s, rows) PROVE AlertOps'
  <2>1. PICK R : R = {a \in rows : Unresolved(a)}
    OBVIOUS
  <2>2. QED  BY <1>1, <1>2, <1>8, <2>1 DEF ResolveRead
<1>9. ASSUME NEW s \in Slot, NEW a \in Alert, AcknowledgeRead(s, a) PROVE AlertOps'
  BY <1>1, <1>2, <1>9 DEF AcknowledgeRead
<1>10. ASSUME NEW s \in Slot, ResolveWrite(s) \/ AcknowledgeWrite(s) \/ Fail(s) PROVE AlertOps'
  BY <1>10, OpAnswered DEF ResolveWrite, AcknowledgeWrite, Fail
<1>11. ASSUME UNCHANGED writer PROVE AlertOps'
  BY <1>11 DEF AlertOps
<1>12. QED
  BY <1>3, <1>4, <1>5, <1>6, <1>7, <1>8, <1>9, <1>10, <1>11
     DEF Next, RaiseSteps, Triage, Recover, Purge, alertVars

\* The rows and the writers stay well formed, and a writer that is at work has
\* the rows and the input its statements need.
THEOREM AlertsTypeCorrect == Spec => []AlertsTypeOK
<1>1. AlertInit => Inv /\ AlertOps
  BY AlertsAssumption, InvInit DEF AlertInit, AlertOps, Quiet, Op
<1>2. Inv /\ AlertOps /\ [Next]_alertVars => (Inv /\ AlertOps)'
  BY AlertsAssumption, InvStep, OpsStep
<1>3. Inv /\ AlertOps => AlertsTypeOK
  BY DEF Inv, TypeInv, WriterOK, Handler, Request, AlertOps, AlertsTypeOK
<1>4. QED  BY <1>1, <1>2, <1>3, PTL DEF Spec

-----------------------------------------------------------------------------
(* Alerts implements AlertBook, for any number of alerts, scopes and requests *)
(* in flight, and its strict form when requests do not overlap.               *)

\* The refinement mapping of the instance Book.
Open == {[id |-> a, scope |-> alert[a].scope] : a \in {b \in Alert : Unresolved(b)}}
Waiting == [s \in Slot |-> writer[s].todo]
OneAtATime == \A s, t \in Slot : s = t

\* With one request at a time nothing happens between the read and the write
\* of an acknowledgement.
SerialInv ==
    OneAtATime => \A s \in Slot : writer[s].op = "acknowledge"
                                  => \A a \in writer[s].rows : Unresolved(a)

BookInv == Inv /\ SerialInv

-----------------------------------------------------------------------------
\* A scope covers itself.
LEMMA MatchesSelf == \A sc : Matches(sc, sc)
  BY DEF Matches

\* The open entries are the unresolved rows.
LEMMA OpenFacts ==
    /\ \A e : e \in Open <=> \E a \in Alert : Unresolved(a) /\ e = [id |-> a, scope |-> alert[a].scope]
    /\ \A input : Covered(input) => \E e \in Open : Matches(e.scope, input)
<1>1. \A e : e \in Open <=> \E a \in Alert : Unresolved(a) /\ e = [id |-> a, scope |-> alert[a].scope]
  BY DEF Open
<1>2. ASSUME NEW input, Covered(input) PROVE \E e \in Open : Matches(e.scope, input)
  <2>1. PICK a \in Alert : Unresolved(a) /\ Matches(alert[a].scope, input)
    BY <1>2 DEF Covered
  <2>2. PICK e : e = [id |-> a, scope |-> alert[a].scope]
    OBVIOUS
  <2>3. e \in Open /\ e.scope = alert[a].scope
    BY <1>1, <2>1, <2>2
  <2>4. QED  BY <2>1, <2>3
<1>3. QED  BY <1>1, <1>2

\* A handler's move changes what its own request waits for.
LEMMA WaitingStep ==
    ASSUME Inv, NEW s \in Slot, NEW r, NEW T, r.todo = T, writer' = [writer EXCEPT ![s] = r]
    PROVE  /\ Waiting' = [Waiting EXCEPT ![s] = T]
           /\ T = writer[s].todo => Waiting' = Waiting
  BY DEF Waiting, Inv, TypeInv

\* The steps of the book in terms of the mapping.
LEMMA BookReport ==
    ASSUME NEW s \in Slot, NEW R \in SUBSET Scope, R \subseteq Waiting[s],
           Open \subseteq Open',
           \A e \in Open' \ Open : e \in [id: Alert, scope: Scope] /\ e.scope \in R,
           \A e \in Open' \ Open, f \in Open' : e.scope = f.scope => e = f,
           \A r \in R : \E e \in Open' : Matches(e.scope, r),
           Waiting' = [Waiting EXCEPT ![s] = @ \ R]
    PROVE  Book!Next
<1>1. Book!Report(s, R)
  BY DEF Book!Report, Book!Entry, Open, Waiting
<1>2. QED  BY <1>1 DEF Book!Next

\* A handler that comes in with conditions to report.
LEMMA BookArrive ==
    ASSUME NEW s \in Slot, NEW R \in SUBSET Scope, Waiting[s] = {}, Open' = Open,
           Waiting' = [Waiting EXCEPT ![s] = R]
    PROVE  Book!Next
<1>1. Book!Arrive(s, R)
  BY DEF Book!Arrive, Open, Waiting
<1>2. QED  BY <1>1 DEF Book!Next

\* A handler that ends with an error, or without conditions left.
LEMMA BookGiveUp ==
    ASSUME NEW s \in Slot, Open' = Open, Waiting' = [Waiting EXCEPT ![s] = {}]
    PROVE  Book!Next
<1>1. Book!GiveUp(s)
  BY DEF Book!GiveUp, Open, Waiting
<1>2. QED  BY <1>1 DEF Book!Next

\* A resolution or a purge.
LEMMA BookClose ==
    ASSUME NEW S \in SUBSET Open, Open' = Open \ S, Waiting' = Waiting
    PROVE  Book!Next
<1>1. Book!Close(S)
  BY DEF Book!Close, Open, Waiting
<1>2. QED  BY <1>1 DEF Book!Next, Open

\* An acknowledgement of an alert that has been resolved meanwhile.
LEMMA BookRevive ==
    ASSUME NEW e \in [id: Alert, scope: Scope], ~OneAtATime,
           \A f \in Open : f.scope # e.scope, Open' = Open \cup {e}, Waiting' = Waiting
    PROVE  Book!Next
<1>1. Book!Revive(e)
  BY DEF Book!Revive, Open, Waiting, OneAtATime
<1>2. QED  BY <1>1 DEF Book!Next, Book!Entry

\* A step the book does not see.
LEMMA BookStutter ==
    ASSUME Open' = Open, Waiting' = Waiting
    PROVE  UNCHANGED Book!vars
  BY DEF Book!vars, Open, Waiting

\* An answer without a new row.
LEMMA AnsweredFound ==
    ASSUME AlertsAssumption, Inv, UNCHANGED alert, NEW s \in Slot,
           writer[s].op \in {"find", "insert", "again"},
           Covered(writer[s].cur), Answered(s)
    PROVE  Book!Next
<1> DEFINE R == {writer[s].cur}
<1>1. /\ WriterOK(writer[s]) /\ R \in SUBSET Scope /\ R \subseteq Waiting[s]
  BY DEF Inv, TypeInv, WriterOK, Handler, Waiting
<1>2. Open' = Open
  BY DEF Open, Unresolved
<1>3. Waiting' = [Waiting EXCEPT ![s] = @ \ R]
  BY AnsweredStep DEF Waiting
<1>4. \A r \in R : \E e \in Open' : Matches(e.scope, r)
  BY <1>2, OpenFacts
<1> HIDE DEF R
<1>5. QED  BY <1>1, <1>2, <1>3, <1>4, BookReport

\* The rows of scopes R are written and answered for.
LEMMA AnsweredWritten ==
    ASSUME AlertsAssumption, Inv, NEW s \in Slot, NEW R \in SUBSET Scope, R \subseteq writer[s].todo,
           IndexFree(R), NEW rows \in NewRows(R),
           alert' = [a \in Alert |-> IF a \in DOMAIN rows
                                     THEN [status |-> "OPEN", scope |-> rows[a]]
                                     ELSE alert[a]],
           Waiting' = [Waiting EXCEPT ![s] = @ \ R]
    PROVE  Book!Next
<1>1. /\ \A a \in Alert : Unresolved(a)' =>
           \/ a \notin DOMAIN rows /\ Unresolved(a) /\ alert'[a] = alert[a]
           \/ a \in DOMAIN rows /\ alert'[a] = NewRow(rows[a])
      /\ \A a \in Alert : Unresolved(a) => Unresolved(a)' /\ alert'[a] = alert[a]
      /\ \A a \in DOMAIN rows : a \in Alert /\ Unresolved(a)' /\ alert'[a] = NewRow(rows[a])
      /\ OneUnresolved'
  BY Writing DEF Advance
<1>2. \A e : e \in Open' <=> \E a \in Alert : Unresolved(a)' /\ e = [id |-> a, scope |-> alert'[a].scope]
  BY DEF Open
<1>3. \A e : e \in Open <=> \E a \in Alert : Unresolved(a) /\ e = [id |-> a, scope |-> alert[a].scope]
  BY OpenFacts
<1>4. Open \subseteq Open'
  <2> SUFFICES ASSUME NEW e \in Open PROVE e \in Open'
    OBVIOUS
  <2>1. PICK a \in Alert : Unresolved(a) /\ e = [id |-> a, scope |-> alert[a].scope]
    BY <1>3
  <2>2. Unresolved(a)' /\ alert'[a] = alert[a]
    BY <1>1, <2>1
  <2>3. QED  BY <1>2, <2>1, <2>2
<1>5. \A e \in Open' \ Open : \E a \in DOMAIN rows : e = [id |-> a, scope |-> rows[a]]
  <2> TAKE e \in Open' \ Open
  <2>1. PICK a \in Alert : Unresolved(a)' /\ e = [id |-> a, scope |-> alert'[a].scope]
    BY <1>2
  <2>2. a \in DOMAIN rows /\ alert'[a] = NewRow(rows[a])
    BY <1>1, <1>3, <2>1
  <2>3. QED  BY <2>1, <2>2 DEF NewRow
<1>6. \A e \in Open' \ Open : e \in [id: Alert, scope: Scope] /\ e.scope \in R
  BY <1>5, NewRowsFacts
<1>7. \A e \in Open', f \in Open' : e.scope = f.scope => e = f
  BY <1>1, <1>2 DEF OneUnresolved
<1>8. \A r \in R : \E e \in Open' : Matches(e.scope, r)
  <2> TAKE r \in R
  <2>1. PICK a \in DOMAIN rows : rows[a] = r
    BY NewRowsFacts
  <2>2. [id |-> a, scope |-> r] \in Open'
    BY <1>1, <1>2, <2>1 DEF NewRow
  <2>3. QED  BY <2>2, MatchesSelf
<1>9. R \subseteq Waiting[s]
  BY DEF Waiting
<1>10. QED  BY <1>4, <1>6, <1>7, <1>8, <1>9, BookReport

\* Rows that are closed, or leave the table, close their entries.
LEMMA ClosedRows ==
    ASSUME AlertsAssumption, Inv, NEW rows \in SUBSET Alert, \A a \in rows : alert[a] # NoAlert,
           NEW st \in {"RESOLVED", "PURGED"},
           alert' = [a \in Alert |-> IF a \in rows THEN [alert[a] EXCEPT !.status = st]
                                     ELSE alert[a]],
           Waiting' = Waiting
    PROVE  Book!Next
<1>1. \A a \in Alert : /\ Unresolved(a)' <=> Unresolved(a) /\ a \notin rows
                       /\ Unresolved(a) => alert'[a].scope = alert[a].scope
  <2>1. \A a \in Alert : Unresolved(a) => alert[a] # NoAlert
    BY DEF Unresolved, NoAlert
  <2>2. QED  BY <2>1, LoweringTo DEF Advance
<1>2. \A e : e \in Open' <=> \E a \in Alert : Unresolved(a)' /\ e = [id |-> a, scope |-> alert'[a].scope]
  BY DEF Open
<1>3. PICK S : S = {e \in Open : e.id \in rows}
  OBVIOUS
<1>4. \A e : e \in Open' <=> e \in Open /\ e \notin S
  BY <1>1, <1>2, <1>3, OpenFacts
<1>5. S \in SUBSET Open /\ Open' = Open \ S
  BY <1>3, <1>4
<1>6. QED  BY <1>5, BookClose

-----------------------------------------------------------------------------
\* Every step of the table is a step of the book, or changes nothing in it.
LEMMA BookStep ==
    ASSUME AlertsAssumption, BookInv, [Next]_alertVars
    PROVE  [Book!Next]_(Book!vars)
<1>0. /\ Inv
      /\ \A s \in Slot : /\ WriterOK(writer[s]) /\ Waiting[s] = writer[s].todo
                         /\ writer[s].todo \subseteq Scope
                         /\ \A a \in writer[s].rows : a \in Alert /\ alert[a] # NoAlert
  BY DEF BookInv, Inv, TypeInv, WriterOK, Handler, Waiting
<1>a. UNCHANGED alert => Open' = Open
  BY DEF Open, Unresolved
<1>b. \A s \in Slot : Waiting = [Waiting EXCEPT ![s] = writer[s].todo]
  BY <1>0 DEF Waiting
<1>c. UNCHANGED writer => Waiting' = Waiting
  BY DEF Waiting
<1>1. ASSUME NEW s \in Slot, NEW input \in Scope, Raise(s, input) PROVE Book!Next
  <2>1. PICK r : r = [Quiet EXCEPT !.op = "find", !.cur = input, !.todo = {input}]
    OBVIOUS
  <2>2. r.todo = {input} /\ Quiet.todo = {}
    BY <2>1 DEF Quiet
  <2>3. writer' = [writer EXCEPT ![s] = r]
    BY <1>1, <2>1 DEF Raise
  <2>4. Waiting' = [Waiting EXCEPT ![s] = {input}]
    BY <1>0, <2>2, <2>3, WaitingStep
  <2>5. Open' = Open /\ Waiting[s] = {}
    BY <1>0, <1>a, <1>1, <2>2 DEF Raise
  <2>6. PICK R \in SUBSET Scope : R = {input}
    OBVIOUS
  <2>7. QED  BY <2>4, <2>5, <2>6, BookArrive
<1>2. ASSUME NEW s \in Slot, NEW S \in SUBSET Scope, RaiseBatch(s, S) PROVE Book!Next
  <2>1. PICK r : r = [Quiet EXCEPT !.op = "batchFind", !.todo = S]
    OBVIOUS
  <2>2. r.todo = S /\ Quiet.todo = {}
    BY <2>1 DEF Quiet
  <2>3. writer' = [writer EXCEPT ![s] = r]
    BY <1>2, <2>1 DEF RaiseBatch
  <2>4. Waiting' = [Waiting EXCEPT ![s] = S]
    BY <1>0, <2>2, <2>3, WaitingStep
  <2>5. QED  BY <1>0, <1>a, <1>2, <2>2, <2>4, BookArrive DEF RaiseBatch
<1>3. ASSUME NEW s \in Slot, NEW op, writer' = [writer EXCEPT ![s].op = op], UNCHANGED alert
      PROVE  UNCHANGED Book!vars
  <2>1. PICK r : r = [writer[s] EXCEPT !.op = op]
    OBVIOUS
  <2>2. r.todo = writer[s].todo
    BY <1>0, <2>1 DEF WriterOK, Handler
  <2>3. writer' = [writer EXCEPT ![s] = r]
    BY <1>3, <2>1
  <2>4. Waiting' = Waiting
    BY <1>0, <1>b, <2>2, <2>3, WaitingStep
  <2>5. QED  BY <1>a, <1>3, <2>4, BookStutter
<1>4. ASSUME NEW s \in Slot, Done(s) PROVE Waiting' = [Waiting EXCEPT ![s] = {}]
  BY <1>0, <1>4, WaitingStep, QuietFacts DEF Done
<1>5. ASSUME NEW s \in Slot, Done(s), writer[s].todo = {} PROVE Waiting' = Waiting
  BY <1>b, <1>4, <1>5
<1>6. ASSUME NEW s \in Slot, Find(s) PROVE [Book!Next]_(Book!vars)
  <2>1. CASE Covered(writer[s].cur)
    BY <1>0, <1>6, <2>1, AnsweredFound DEF Find
  <2>2. CASE ~Covered(writer[s].cur)
    BY <1>3, <1>6, <2>2 DEF Find
  <2>3. QED  BY <2>1, <2>2
<1>7. ASSUME NEW s \in Slot, Insert(s) PROVE [Book!Next]_(Book!vars)
  <2>1. CASE IndexFree({writer[s].cur}) /\ Answered(s)
    <3>1. PICK R : R = {writer[s].cur}
      OBVIOUS
    <3>2. R \in SUBSET Scope /\ R \subseteq writer[s].todo
      BY <1>0, <1>7, <3>1 DEF Insert, WriterOK
    <3>3. PICK rows \in NewRows(R) :
            alert' = [a \in Alert |-> IF a \in DOMAIN rows
                                      THEN [status |-> "OPEN", scope |-> rows[a]]
                                      ELSE alert[a]]
      BY <1>7, <2>1, <3>1 DEF Insert
    <3>4. IndexFree(R)
      BY <2>1, <3>1
    <3>5. Advance
      BY <1>0, <3>2, <3>3, <3>4, Writing
    <3>6. Waiting' = [Waiting EXCEPT ![s] = @ \ R]
      <4>1. \A t \in Slot : writer'[t].todo = IF t = s THEN writer[s].todo \ R
                                              ELSE writer[t].todo
        BY <1>0, <1>7, <2>1, <3>1, <3>5, AnsweredStep DEF Insert
      <4>2. QED  BY <4>1 DEF Waiting
    <3>7. QED  BY <1>0, <3>2, <3>3, <3>4, <3>6, AnsweredWritten
  <2>2. CASE writer' = [writer EXCEPT ![s].op = "again"] /\ UNCHANGED alert
    BY <1>3, <2>2
  <2>3. QED  BY <1>7, <2>1, <2>2 DEF Insert
<1>8. ASSUME NEW s \in Slot, FindAgain(s) PROVE [Book!Next]_(Book!vars)
  <2>1. CASE Covered(writer[s].cur)
    BY <1>0, <1>8, <2>1, AnsweredFound DEF FindAgain
  <2>2. CASE ~Covered(writer[s].cur)
    BY <1>a, <1>4, <1>8, <2>2, BookGiveUp DEF FindAgain
  <2>3. QED  BY <2>1, <2>2
<1>9. ASSUME NEW s \in Slot, BatchFind(s) PROVE Book!Next
  <2>1. PICK toCreate : toCreate = {sc \in writer[s].todo : ~Covered(sc)}
    OBVIOUS
  <2>2. Waiting' = [Waiting EXCEPT ![s] = toCreate]
    <3>1. CASE toCreate = {} /\ Done(s)
      BY <1>4, <3>1
    <3>2. CASE writer' = [writer EXCEPT ![s].op = "batchInsert", ![s].todo = toCreate]
      <4>1. PICK r : r = [writer[s] EXCEPT !.op = "batchInsert", !.todo = toCreate]
        OBVIOUS
      <4>2. r.todo = toCreate
        BY <1>0, <4>1 DEF WriterOK, Handler
      <4>3. writer' = [writer EXCEPT ![s] = r]
        BY <1>0, <3>2, <4>1 DEF Inv, TypeInv
      <4>4. QED  BY <1>0, <4>2, <4>3, WaitingStep
    <3>3. QED  BY <1>9, <2>1, <3>1, <3>2 DEF BatchFind
  <2>3. PICK R : R = writer[s].todo \ toCreate
    OBVIOUS
  <2>4. /\ R \in SUBSET Scope /\ R \subseteq Waiting[s]
        /\ Waiting' = [Waiting EXCEPT ![s] = @ \ R]
    BY <1>0, <2>1, <2>2, <2>3 DEF Waiting
  <2>5. Open' = Open
    BY <1>a, <1>9 DEF BatchFind
  <2>6. \A r \in R : \E e \in Open' : Matches(e.scope, r)
    BY <2>1, <2>3, <2>5, OpenFacts
  <2>7. QED  BY <2>4, <2>5, <2>6, BookReport
<1>10. ASSUME NEW s \in Slot, BatchInsert(s) PROVE [Book!Next]_(Book!vars)
  <2>1. CASE IndexFree(writer[s].todo) /\ Done(s)
    <3>1. PICK R : R = writer[s].todo
      OBVIOUS
    <3>2. PICK rows \in NewRows(R) :
            alert' = [a \in Alert |-> IF a \in DOMAIN rows
                                      THEN [status |-> "OPEN", scope |-> rows[a]]
                                      ELSE alert[a]]
      BY <1>10, <2>1, <3>1 DEF BatchInsert
    <3>3. IndexFree(R) /\ R \in SUBSET Scope /\ R \subseteq writer[s].todo
      BY <1>0, <2>1, <3>1
    <3>4. Waiting' = [Waiting EXCEPT ![s] = @ \ R]
      BY <1>0, <1>4, <2>1, <3>1 DEF Waiting
    <3>5. QED  BY <1>0, <3>2, <3>3, <3>4, AnsweredWritten
  <2>2. CASE /\ \E next \in writer[s].todo :
                  writer' = [writer EXCEPT ![s].op = "find", ![s].cur = next]
             /\ UNCHANGED alert
    <3>1. PICK next \in writer[s].todo :
            writer' = [writer EXCEPT ![s].op = "find", ![s].cur = next]
      BY <2>2
    <3>2. PICK r : r = [writer[s] EXCEPT !.op = "find", !.cur = next]
      OBVIOUS
    <3>3. r.todo = writer[s].todo
      BY <1>0, <3>2 DEF WriterOK, Handler
    <3>4. writer' = [writer EXCEPT ![s] = r]
      BY <1>0, <3>1, <3>2 DEF Inv, TypeInv
    <3>5. Waiting' = Waiting
      BY <1>0, <1>b, <3>3, <3>4, WaitingStep
    <3>6. QED  BY <1>a, <2>2, <3>5, BookStutter
  <2>3. QED  BY <1>10, <2>1, <2>2 DEF BatchInsert
<1>11. ASSUME NEW s \in Slot, NEW rows \in SUBSET Alert, ResolveRead(s, rows)
       PROVE  UNCHANGED Book!vars
  <2>1. PICK r : r = [Quiet EXCEPT !.op = "resolve", !.rows = {a \in rows : Unresolved(a)}]
    OBVIOUS
  <2>2. r.todo = {} /\ Quiet.todo = {} /\ writer[s] = Quiet
    BY <1>11, <2>1 DEF Quiet, ResolveRead
  <2>3. Waiting' = Waiting
    BY <1>0, <1>b, <1>11, <2>1, <2>2, WaitingStep DEF ResolveRead
  <2>4. QED  BY <1>a, <1>11, <2>3, BookStutter DEF ResolveRead
<1>12. ASSUME NEW s \in Slot, ResolveWrite(s) PROVE Book!Next
  <2>1. PICK rows : rows = {a \in writer[s].rows : alert[a].status # "PURGED"}
    OBVIOUS
  <2>2. rows \in SUBSET Alert /\ \A a \in rows : alert[a] # NoAlert
    BY <1>0, <2>1
  <2>3. Waiting' = Waiting
    BY <1>0, <1>5, <1>12 DEF ResolveWrite, WriterOK
  <2>4. alert' = [a \in Alert |-> IF a \in rows THEN [alert[a] EXCEPT !.status = "RESOLVED"]
                                  ELSE alert[a]]
    BY <1>12, <2>1 DEF ResolveWrite, Resolving
  <2>5. QED  BY <1>0, <2>2, <2>3, <2>4, ClosedRows
<1>13. ASSUME NEW s \in Slot, NEW a \in Alert, AcknowledgeRead(s, a) PROVE UNCHANGED Book!vars
  <2>1. PICK r : r = [Quiet EXCEPT !.op = "acknowledge", !.rows = {a}]
    OBVIOUS
  <2>2. r.todo = {} /\ Quiet.todo = {} /\ writer[s] = Quiet
    BY <1>13, <2>1 DEF Quiet, AcknowledgeRead
  <2>3. Waiting' = Waiting
    BY <1>0, <1>b, <1>13, <2>1, <2>2, WaitingStep DEF AcknowledgeRead
  <2>4. QED  BY <1>a, <1>13, <2>3, BookStutter DEF AcknowledgeRead
<1>14. ASSUME NEW s \in Slot, AcknowledgeWrite(s) PROVE [Book!Next]_(Book!vars)
  <2>1. PICK a \in writer[s].rows :
          \/ UNCHANGED alert
          \/ /\ Unresolved(a) \/ IndexFree({alert[a].scope})
             /\ alert' = [alert EXCEPT ![a].status = "ACKNOWLEDGED"]
    BY <1>14 DEF AcknowledgeWrite
  <2>2. a \in Alert /\ alert[a] # NoAlert
    BY <1>0
  <2>3. Waiting' = Waiting
    BY <1>0, <1>5, <1>14 DEF AcknowledgeWrite, WriterOK
  <2>4. CASE UNCHANGED alert
    BY <1>a, <2>3, <2>4, BookStutter
  <2>5. CASE /\ Unresolved(a) \/ IndexFree({alert[a].scope})
             /\ alert' = [alert EXCEPT ![a].status = "ACKNOWLEDGED"]
    <3>1. /\ Unresolved(a)' /\ alert'[a].scope = alert[a].scope
          /\ \A b \in Alert : b # a => alert'[b] = alert[b]
      BY <1>0, <2>2, <2>5, AcknowledgeAdvance
    <3>2. PICK e : e = [id |-> a, scope |-> alert[a].scope]
      OBVIOUS
    <3>3. \A f : f \in Open' <=> \E b \in Alert : Unresolved(b)' /\ f = [id |-> b, scope |-> alert'[b].scope]
      BY DEF Open
    <3>4. \A b \in Alert : b # a => (Unresolved(b)' <=> Unresolved(b))
      BY <3>1 DEF Unresolved
    <3>5. Open' = Open \cup {e}
      BY <2>2, <3>1, <3>2, <3>3, <3>4, OpenFacts
    <3>6. CASE Unresolved(a)
      <4>1. Open' = Open
        BY <2>2, <3>2, <3>5, <3>6, OpenFacts
      <4>2. QED  BY <2>3, <4>1, BookStutter
    <3>7. CASE ~Unresolved(a)
      <4>1. ~OneAtATime
        BY <1>14, <3>7 DEF BookInv, SerialInv, AcknowledgeWrite
      <4>2. \A f \in Open : f.scope # e.scope
        BY <2>5, <3>2, <3>7, OpenFacts DEF IndexFree
      <4>3. e \in [id: Alert, scope: Scope]
        BY <1>0, <2>2, <3>2, RowFacts DEF Inv, TypeInv
      <4>4. QED  BY <2>3, <3>5, <4>1, <4>2, <4>3, BookRevive
    <3>8. QED  BY <3>6, <3>7
  <2>6. QED  BY <2>1, <2>4, <2>5
<1>15. ASSUME NEW s \in Slot, NEW input \in Scope, Recover(s, input) PROVE Book!Next
  <2>1. PICK rows : rows = {a \in Alert : Unresolved(a) /\ Matches(alert[a].scope, input)}
    OBVIOUS
  <2>2. rows \in SUBSET Alert /\ \A a \in rows : alert[a] # NoAlert
    BY <2>1 DEF Unresolved, NoAlert
  <2>3. alert' = [a \in Alert |-> IF a \in rows THEN [alert[a] EXCEPT !.status = "RESOLVED"]
                                  ELSE alert[a]]
    BY <1>15, <2>1 DEF Recover, AutoResolve, Resolving
  <2>4. QED  BY <1>0, <1>c, <1>15, <2>2, <2>3, ClosedRows DEF Recover
<1>16. ASSUME NEW s \in Slot, NEW rows \in SUBSET Alert, Purge(s, rows) PROVE Book!Next
  <2>1. \A a \in rows : alert[a] # NoAlert
    BY <1>16 DEF Purge, Purging, NoAlert
  <2>2. QED  BY <1>0, <1>c, <1>16, <2>1, ClosedRows DEF Purge, Purging
<1>17. ASSUME NEW s \in Slot, Fail(s) PROVE Book!Next
  BY <1>a, <1>4, <1>17, BookGiveUp DEF Fail
<1>18. CASE UNCHANGED alertVars
  BY <1>a, <1>c, <1>18, BookStutter DEF alertVars
<1>19. QED
  BY <1>1, <1>2, <1>6, <1>7, <1>8, <1>9, <1>10, <1>11, <1>12, <1>13, <1>14, <1>15, <1>16, <1>17, <1>18
     DEF Next, RaiseSteps, Triage

-----------------------------------------------------------------------------
\* Handlers that do not overlap acknowledge rows that are still unresolved.
LEMMA SerialStep ==
    ASSUME AlertsAssumption, BookInv, [Next]_alertVars
    PROVE  SerialInv'
<1> SUFFICES ASSUME OneAtATime, NEW s \in Slot, writer'[s].op = "acknowledge",
                    NEW a \in writer'[s].rows
             PROVE  Unresolved(a)'
  BY DEF SerialInv, OneAtATime
<1>1. writer \in [Slot -> Handler]
  BY DEF BookInv, Inv, TypeInv
<1>2. Quiet.op = "quiet"
  BY DEF Quiet
<1>3. ASSUME UNCHANGED <<alert, writer>> PROVE Unresolved(a)'
  BY <1>3 DEF BookInv, SerialInv, Unresolved
<1>4. ASSUME NEW b \in Alert, AcknowledgeRead(s, b) PROVE Unresolved(a)'
  <2>1. writer'[s].rows = {b} /\ alert[b].status = "OPEN" /\ alert' = alert
    BY <1>1, <1>4 DEF AcknowledgeRead, Quiet
  <2>2. QED  BY <2>1 DEF Unresolved
<1>5. writer' = [writer EXCEPT ![s] = Quiet] => FALSE
  BY <1>1, <1>2
<1>6. ASSUME writer[s] = Quiet, UNCHANGED writer PROVE FALSE
  BY <1>2, <1>6
<1>8. ASSUME NEW input \in Scope, Raise(s, input) \/ Recover(s, input) PROVE FALSE
  BY <1>1, <1>2, <1>8 DEF Raise, Recover, Quiet
<1>9. ASSUME NEW S \in SUBSET Scope, RaiseBatch(s, S) PROVE FALSE
  BY <1>1, <1>9 DEF RaiseBatch, Quiet
<1>10. ASSUME Answered(s) PROVE FALSE
  <2>1. PICK left : left = writer[s].todo \ {writer[s].cur}
    OBVIOUS
  <2>2. CASE left = {}
    BY <1>5, <1>10, <2>1, <2>2 DEF Answered, Done
  <2>3. CASE left # {}
    <3>1. PICK next \in left :
            writer' = [writer EXCEPT ![s] = [Quiet EXCEPT !.op = "find", !.cur = next, !.todo = left]]
      BY <1>10, <2>1, <2>3 DEF Answered
    <3>2. QED  BY <1>1, <3>1 DEF Quiet
  <2>4. QED  BY <2>2, <2>3
<1>11. ASSUME NEW op \in {"insert", "again"}, writer' = [writer EXCEPT ![s].op = op] PROVE FALSE
  BY <1>1, <1>11 DEF Handler
<1>12. ASSUME Find(s) \/ Insert(s) \/ FindAgain(s) PROVE FALSE
  BY <1>5, <1>10, <1>11, <1>12 DEF Find, Insert, FindAgain, Done
<1>13. ASSUME BatchFind(s) \/ BatchInsert(s) PROVE FALSE
  <2>1. ASSUME NEW T, writer' = [writer EXCEPT ![s].op = "batchInsert", ![s].todo = T] PROVE FALSE
    BY <1>1, <2>1 DEF Handler
  <2>2. ASSUME NEW c, writer' = [writer EXCEPT ![s].op = "find", ![s].cur = c] PROVE FALSE
    BY <1>1, <2>2 DEF Handler
  <2>3. CASE BatchFind(s)
    <3>1. PICK T : T = {sc \in writer[s].todo : ~Covered(sc)}
      OBVIOUS
    <3>2. QED  BY <1>5, <2>1, <2>3, <3>1 DEF BatchFind, Done
  <2>4. CASE BatchInsert(s)
    BY <1>5, <2>2, <2>4 DEF BatchInsert, Done
  <2>5. QED  BY <1>13, <2>3, <2>4
<1>14. ASSUME NEW rows \in SUBSET Alert, ResolveRead(s, rows) \/ Purge(s, rows) PROVE FALSE
  BY <1>1, <1>2, <1>14 DEF ResolveRead, Purge, Quiet
<1>15. ASSUME ResolveWrite(s) \/ AcknowledgeWrite(s) \/ Fail(s) PROVE FALSE
  BY <1>5, <1>15 DEF ResolveWrite, AcknowledgeWrite, Fail, Done
<1>16. ASSUME Next PROVE \/ \E input \in Scope : Raise(s, input) \/ Recover(s, input)
                         \/ \E S \in SUBSET Scope : RaiseBatch(s, S)
                         \/ Find(s) \/ Insert(s) \/ FindAgain(s)
                         \/ BatchFind(s) \/ BatchInsert(s)
                         \/ \E rows \in SUBSET Alert : ResolveRead(s, rows) \/ Purge(s, rows)
                         \/ \E b \in Alert : AcknowledgeRead(s, b)
                         \/ ResolveWrite(s) \/ AcknowledgeWrite(s) \/ Fail(s)
  <2>1. PICK t \in Slot : \/ \E input \in Scope : Raise(t, input) \/ Recover(t, input)
                          \/ \E S \in SUBSET Scope : RaiseBatch(t, S)
                          \/ \E rows \in SUBSET Alert : Purge(t, rows)
                          \/ RaiseSteps(t)
                          \/ Triage(t)
                          \/ Fail(t)
    BY <1>16 DEF Next
  <2>2. t = s
    BY DEF OneAtATime
  <2>3. QED  BY <2>1, <2>2 DEF RaiseSteps, Triage
<1>17. QED
  BY <1>3, <1>4, <1>8, <1>9, <1>12, <1>13, <1>14, <1>15, <1>16 DEF alertVars

\* At first nothing is open and no handler waits.
LEMMA BookInit ==
    ASSUME AlertsAssumption, AlertInit
    PROVE  BookInv /\ Book!Init
<1>1. \A a \in Alert : ~Unresolved(a)
  BY DEF AlertInit, Unresolved, NoAlert
<1>2. \A s \in Slot : writer[s].op = "quiet" /\ writer[s].todo = {}
  BY DEF AlertInit, Quiet
<1>3. BookInv
  BY InvInit, <1>2 DEF BookInv, SerialInv
<1>4. Book!Init
  BY <1>1, <1>2 DEF Book!Init
<1>5. QED  BY <1>3, <1>4

\* The writers get what AlertBook promises: a condition that is answered for is
\* covered by an unresolved alert at that moment, and new alerts only stand
\* where none with their scope is unresolved.
THEOREM ImplementsBook == Spec => BookSpec
<1>1. AlertInit => BookInv /\ Book!Init
  BY AlertsAssumption, BookInit
<1>2. BookInv /\ [Next]_alertVars => BookInv' /\ [Book!Next]_(Book!vars)
  BY AlertsAssumption, InvStep, SerialStep, BookStep DEF BookInv
<1>3. QED  BY <1>1, <1>2, PTL DEF Spec, BookSpec, Book!Spec

-----------------------------------------------------------------------------
(* The handlers of DeviceStatus, over the same tables. *)

\* A step of DeviceStatus is one of Alerts, or one of the heartbeat's or the
\* sweep's own; what else it writes, no alert depends on.
LEMMA StatusCases ==
    ASSUME [StatusNext]_allVars
    PROVE  \/ [Next]_alertVars
           \/ \E s \in Slot, d \in Device : Heartbeat(s, d)
           \/ \E s \in Slot : MarkOnline(s) \/ Sweep(s) \/ SweepRead(s) \/ SweepMark(s)
<1>1. ASSUME NEW s \in Slot,
             \/ RaiseSteps(s) \/ ResolveWrite(s) \/ AcknowledgeWrite(s) \/ StatementFails(s)
             \/ \E rows \in SUBSET Alert : ResolveRead(s, rows)
             \/ \E a \in Alert : AcknowledgeRead(s, a)
      PROVE  Next
  BY <1>1 DEF Next, Triage, StatementFails
<1>2. ASSUME \/ \E s \in Slot, d \in Device : ReEnroll(s, d)
             \/ \E d \in Device : Silence(d)
             \/ UNCHANGED allVars
      PROVE  UNCHANGED alertVars
  BY <1>2 DEF ReEnroll, Silence, allVars
<1>3. QED  BY <1>1, <1>2 DEF StatusNext, Steps

\* The rows a heartbeat closes and a sweep purges are in use.
LEMMA StatusRows ==
    ASSUME AlertsAssumption, Inv, NEW s \in Slot
    PROVE  /\ MarkOnline(s) => \E rows \in SUBSET Alert :
                /\ \A a \in rows : alert[a] # NoAlert
                /\ alert' = [a \in Alert |-> IF a \in rows
                                             THEN [alert[a] EXCEPT !.status = "RESOLVED"]
                                             ELSE alert[a]]
           /\ Sweep(s) => \E rows \in SUBSET Alert :
                /\ \A a \in rows : alert[a] # NoAlert
                /\ alert' = [a \in Alert |-> IF a \in rows
                                             THEN [alert[a] EXCEPT !.status = "PURGED"]
                                             ELSE alert[a]]
<1>1. ASSUME MarkOnline(s)
      PROVE  \E rows \in SUBSET Alert :
                /\ \A a \in rows : alert[a] # NoAlert
                /\ alert' = [a \in Alert |-> IF a \in rows
                                             THEN [alert[a] EXCEPT !.status = "RESOLVED"]
                                             ELSE alert[a]]
  <2>1. PICK scope : AutoResolve(scope)
    BY <1>1 DEF MarkOnline
  <2>2. PICK rows : rows = {a \in Alert : Unresolved(a) /\ Matches(alert[a].scope, scope)}
    OBVIOUS
  <2>3. rows \in SUBSET Alert /\ \A a \in rows : alert[a] # NoAlert
    BY <2>2 DEF Unresolved, NoAlert
  <2>4. QED  BY <2>1, <2>2, <2>3 DEF AutoResolve, Resolving
<1>2. QED  BY <1>1 DEF Sweep, Purging, NoAlert

\* What they do to the table advances it.
LEMMA StatusAdvance ==
    ASSUME AlertsAssumption, Inv, NEW s \in Slot, MarkOnline(s) \/ Sweep(s)
    PROVE  Advance
  BY StatusRows, LoweringTo

\* The states the handlers of a heartbeat and of a sweep move to.
LEMMA StatusWriter ==
    ASSUME AlertsAssumption, DeviceAssumption, Inv, NEW s \in Slot
    PROVE  /\ \A d \in Device : Heartbeat(s, d) => \E r :
                /\ WriterOK(r) /\ r.rows = {} /\ r.op = "online" /\ r.todo = {}
                /\ writer' = [writer EXCEPT ![s] = r]
           /\ Sweep(s) => \E r :
                /\ WriterOK(r) /\ r.rows = {} /\ r.op = "sweep" /\ r.todo = {}
                /\ writer' = [writer EXCEPT ![s] = r]
           /\ SweepRead(s) => \E r :
                /\ WriterOK(r) /\ r.rows = {} /\ r.op \in {"quiet", "mark"}
                /\ writer' = [writer EXCEPT ![s] = r]
           /\ SweepMark(s) => \E r :
                /\ WriterOK(r) /\ r.rows = writer[s].rows /\ r.op = "batchFind"
                /\ r.todo = writer[s].todo
                /\ writer' = [writer EXCEPT ![s] = r]
<1>1. ASSUME NEW d \in Device, Heartbeat(s, d)
      PROVE  \E r : /\ WriterOK(r) /\ r.rows = {} /\ r.op = "online" /\ r.todo = {}
                    /\ writer' = [writer EXCEPT ![s] = r]
  <2>1. PICK sc \in Scope : sc = Offline(d)
    BY DEF DeviceAssumption
  <2>2. PICK r : r = [Quiet EXCEPT !.op = "online", !.cur = sc]
    OBVIOUS
  <2>3. WriterOK(r) /\ r.rows = {} /\ r.op = "online" /\ r.todo = {}
    BY <2>2 DEF WriterOK, Quiet, Handler, Op
  <2>4. QED  BY <1>1, <2>1, <2>2, <2>3 DEF Heartbeat
<1>2. ASSUME Sweep(s)
      PROVE  \E r : /\ WriterOK(r) /\ r.rows = {} /\ r.op = "sweep" /\ r.todo = {}
                    /\ writer' = [writer EXCEPT ![s] = r]
  <2>1. PICK r : r = [Quiet EXCEPT !.op = "sweep"]
    OBVIOUS
  <2>2. WriterOK(r) /\ r.rows = {} /\ r.op = "sweep" /\ r.todo = {}
    BY <2>1 DEF WriterOK, Quiet, Handler, Op
  <2>3. QED  BY <1>2, <2>1, <2>2 DEF Sweep
<1>3. ASSUME SweepRead(s)
      PROVE  \E r : /\ WriterOK(r) /\ r.rows = {} /\ r.op \in {"quiet", "mark"}
                    /\ writer' = [writer EXCEPT ![s] = r]
  <2>1. PICK stale : stale = {Offline(d) : d \in {e \in Device : status[e] = "ONLINE"
                                                                 /\ e \notin fresh}}
    OBVIOUS
  <2>2. stale \subseteq Scope
    BY <2>1 DEF DeviceAssumption
  <2>3. CASE Done(s)
    BY <2>3, QuietFacts DEF Done, Quiet
  <2>4. CASE writer' = [writer EXCEPT ![s] = [Quiet EXCEPT !.op = "mark", !.todo = stale]]
    <3>1. PICK r : r = [Quiet EXCEPT !.op = "mark", !.todo = stale]
      OBVIOUS
    <3>2. WriterOK(r) /\ r.rows = {} /\ r.op = "mark"
      BY <2>2, <3>1 DEF WriterOK, Quiet, Handler, Op
    <3>3. QED  BY <2>4, <3>1, <3>2
  <2>5. QED  BY <1>3, <2>1, <2>3, <2>4 DEF SweepRead
<1>4. ASSUME SweepMark(s)
      PROVE  \E r : /\ WriterOK(r) /\ r.rows = writer[s].rows /\ r.op = "batchFind"
                    /\ r.todo = writer[s].todo
                    /\ writer' = [writer EXCEPT ![s] = r]
  <2>1. PICK r : r = [writer[s] EXCEPT !.op = "batchFind"]
    OBVIOUS
  <2>2. WriterOK(writer[s])
    BY DEF Inv, TypeInv
  <2>3. WriterOK(r) /\ r.rows = writer[s].rows /\ r.op = "batchFind" /\ r.todo = writer[s].todo
    BY <2>1, <2>2 DEF WriterOK, Handler, Op
  <2>4. QED  BY <1>4, <2>1, <2>3 DEF SweepMark
<1>5. QED  BY <1>1, <1>2, <1>3, <1>4

\* Heartbeats and sweeps keep the invariant of the table.
LEMMA StatusStep ==
    ASSUME AlertsAssumption, DeviceAssumption, Inv, [StatusNext]_allVars
    PROVE  Inv'
<1>1. CASE [Next]_alertVars
  BY <1>1, InvStep
<1>2. ASSUME NEW s \in Slot, NEW d \in Device, Heartbeat(s, d) PROVE Inv'
  BY <1>2, StatusWriter, WriterStep DEF Heartbeat
<1>3. ASSUME NEW s \in Slot, MarkOnline(s) PROVE Inv'
  BY <1>3, StatusAdvance, DoneStep DEF MarkOnline
<1>4. ASSUME NEW s \in Slot, Sweep(s) PROVE Inv'
  BY <1>4, StatusAdvance, StatusWriter, WriterStep
<1>5. ASSUME NEW s \in Slot, SweepRead(s) PROVE Inv'
  BY <1>5, StatusWriter, WriterStep DEF SweepRead
<1>6. ASSUME NEW s \in Slot, SweepMark(s) PROVE Inv'
  <2>1. \A a \in writer[s].rows : alert[a] # NoAlert
    BY DEF Inv, TypeInv
  <2>2. QED  BY <1>6, <2>1, StatusWriter, WriterStep DEF SweepMark
<1>7. QED  BY <1>1, <1>2, <1>3, <1>4, <1>5, <1>6, StatusCases

\* One offline alert at most is unresolved for a device, whatever heartbeats,
\* sweeps that overlap, and triage race for it.
THEOREM OneOfflineAlert == StatusSpec => []OneUnresolved
<1>1. StatusInit => Inv
  BY AlertsAssumption, InvInit DEF StatusInit
<1>2. Inv /\ [StatusNext]_allVars => Inv'
  BY AlertsAssumption, DeviceAssumption, StatusStep
<1>3. Inv => OneUnresolved
  BY DEF Inv
<1>4. QED  BY <1>1, <1>2, <1>3, PTL DEF StatusSpec

-----------------------------------------------------------------------------
\* Handlers that do not overlap: a heartbeat or a sweep leaves none that
\* acknowledges.
LEMMA StatusSerial ==
    ASSUME AlertsAssumption, DeviceAssumption, BookInv, [StatusNext]_allVars
    PROVE  SerialInv'
<1>1. CASE [Next]_alertVars
  BY <1>1, SerialStep
<1>2. ASSUME NEW s \in Slot, NEW r, r.op # "acknowledge", writer' = [writer EXCEPT ![s] = r]
      PROVE  SerialInv'
  <2>1. writer \in [Slot -> Handler]
    BY DEF BookInv, Inv, TypeInv
  <2>2. OneAtATime => \A t \in Slot : writer'[t].op # "acknowledge"
    BY <1>2, <2>1 DEF OneAtATime
  <2>3. QED  BY <2>2 DEF SerialInv, OneAtATime
<1>3. ASSUME NEW s \in Slot, MarkOnline(s) PROVE SerialInv'
  BY <1>2, <1>3 DEF MarkOnline, Done, Quiet
<1>4. ASSUME NEW s \in Slot,
             \/ \E d \in Device : Heartbeat(s, d)
             \/ Sweep(s) \/ SweepRead(s) \/ SweepMark(s)
      PROVE  SerialInv'
  <2>1. \E r : r.op # "acknowledge" /\ writer' = [writer EXCEPT ![s] = r]
    BY <1>4, StatusWriter DEF BookInv
  <2>2. QED  BY <1>2, <2>1
<1>5. QED  BY <1>1, <1>3, <1>4, StatusCases

\* A heartbeat closes entries of the book, a sweep that purges takes none out,
\* and the devices it finds silent are the conditions it reports.
LEMMA StatusBookStep ==
    ASSUME AlertsAssumption, DeviceAssumption, BookInv, [StatusNext]_allVars
    PROVE  [Book!Next]_(Book!vars)
<1>0. /\ Inv
      /\ \A s \in Slot : WriterOK(writer[s]) /\ Waiting[s] = writer[s].todo
      /\ Quiet.todo = {} /\ Quiet.op = "quiet"
  BY DEF BookInv, Inv, TypeInv, Waiting, Quiet
<1>a. UNCHANGED alert => Open' = Open
  BY DEF Open, Unresolved
<1>1. CASE [Next]_alertVars
  BY <1>1, BookStep
<1>2. ASSUME NEW s \in Slot, NEW r, r.todo = writer[s].todo, writer' = [writer EXCEPT ![s] = r]
      PROVE  Waiting' = Waiting
  BY <1>0, <1>2, WaitingStep
<1>3. ASSUME NEW s \in Slot, NEW d \in Device, Heartbeat(s, d) PROVE UNCHANGED Book!vars
  <2>1. writer[s].todo = {} /\ UNCHANGED alert
    BY <1>0, <1>3 DEF Heartbeat
  <2>2. PICK r : r.todo = {} /\ writer' = [writer EXCEPT ![s] = r]
    BY <1>0, <1>3, StatusWriter
  <2>3. Waiting' = Waiting
    BY <1>2, <2>1, <2>2
  <2>4. QED  BY <1>a, <2>1, <2>3, BookStutter
<1>4. ASSUME NEW s \in Slot, MarkOnline(s) PROVE Book!Next
  <2>1. writer[s].todo = {}
    BY <1>0, <1>4 DEF MarkOnline, WriterOK
  <2>2. Waiting' = Waiting
    BY <1>0, <1>2, <1>4, <2>1 DEF MarkOnline, Done
  <2>3. PICK rows \in SUBSET Alert :
          /\ \A a \in rows : alert[a] # NoAlert
          /\ alert' = [a \in Alert |-> IF a \in rows THEN [alert[a] EXCEPT !.status = "RESOLVED"]
                                       ELSE alert[a]]
    BY <1>0, <1>4, StatusRows
  <2>4. QED  BY <1>0, <2>2, <2>3, ClosedRows
<1>5. ASSUME NEW s \in Slot, Sweep(s) PROVE Book!Next
  <2>1. writer[s].todo = {}
    BY <1>0, <1>5 DEF Sweep
  <2>2. Waiting' = Waiting
    <3>1. PICK r : r.todo = {} /\ writer' = [writer EXCEPT ![s] = r]
      BY <1>0, <1>5, StatusWriter
    <3>2. QED  BY <1>2, <2>1, <3>1
  <2>3. PICK rows \in SUBSET Alert :
          /\ \A a \in rows : alert[a] # NoAlert
          /\ alert' = [a \in Alert |-> IF a \in rows THEN [alert[a] EXCEPT !.status = "PURGED"]
                                       ELSE alert[a]]
    BY <1>0, <1>5, StatusRows
  <2>4. QED  BY <1>0, <2>2, <2>3, ClosedRows
<1>6. ASSUME NEW s \in Slot, SweepRead(s) PROVE Book!Next
  <2>1. PICK r : WriterOK(r) /\ writer' = [writer EXCEPT ![s] = r]
    BY <1>0, <1>6, StatusWriter
  <2>2. PICK R \in SUBSET Scope : R = r.todo
    BY <2>1 DEF WriterOK, Handler
  <2>3. Waiting' = [Waiting EXCEPT ![s] = R]
    BY <1>0, <2>1, <2>2, WaitingStep
  <2>4. Waiting[s] = {} /\ UNCHANGED alert
    BY <1>0, <1>6 DEF SweepRead, WriterOK
  <2>5. QED  BY <1>a, <2>3, <2>4, BookArrive
<1>7. ASSUME NEW s \in Slot, SweepMark(s) PROVE UNCHANGED Book!vars
  <2>1. UNCHANGED alert
    BY <1>7 DEF SweepMark
  <2>2. QED  BY <1>0, <1>a, <1>2, <1>7, <2>1, StatusWriter, BookStutter
<1>8. QED  BY <1>1, <1>3, <1>4, <1>5, <1>6, <1>7, StatusCases

\* The table keeps the promise of AlertBook to the sweeps as well: each device
\* one has marked OFFLINE is covered by an unresolved alert at some moment of it,
\* unless it gives up at a failing statement or a conflict that is gone already.
THEOREM StatusImplementsBook == StatusSpec => BookSpec
<1>1. StatusInit => BookInv /\ Book!Init
  BY AlertsAssumption, BookInit DEF StatusInit
<1>2. BookInv /\ [StatusNext]_allVars => BookInv' /\ [Book!Next]_(Book!vars)
  BY AlertsAssumption, DeviceAssumption, StatusStep, StatusSerial, StatusBookStep DEF BookInv
<1>3. QED  BY <1>1, <1>2, PTL DEF StatusSpec, BookSpec, Book!Spec
=============================================================================
