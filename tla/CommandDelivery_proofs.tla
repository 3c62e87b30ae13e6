---------------------- MODULE CommandDelivery_proofs ------------------------
(***************************************************************************)
(* Proofs about Commands, the command tables and the handlers that change  *)
(* them, for any number of commands, devices, patches, applications and    *)
(* requests in flight; then about CommandDelivery, the loop of every agent *)
(* against them, for any number of failures and retries and any cap on the *)
(* results kept.                                                           *)
(***************************************************************************)
EXTENDS CommandDelivery, FiniteSetTheorems, TLAPS

\* What a handler in flight has read: its command exists, its outcome, device
\* and item are of the right kind.  TypeOK is inductive only with it.
HandlerOK(r) ==
    /\ r.op \in {"cancel", "report", "result", "raise", "recover"} =>
         r.cmd \in Command /\ command[r.cmd] # NoRow
    /\ r.op \in {"report", "result", "raise", "recover"} => r.outcome \in Outcome
    /\ r.op = "queue" => r.type \in Types /\ r.item \in Item
    /\ r.op = "delete" => r.item \in Patch
    /\ r.op = "heartbeat" => r.device \in Device
    /\ "sync" \in r.todo => r.op = "heartbeat"
    /\ r.todo \cap {"states", "active"} # {} => r.op = "queue"

RequestOK == \A s \in Slot : HandlerOK(request[s])

DeliveredIssued == \A c \in delivered : command[c] # NoRow

TypeInv == TypeOK /\ RequestOK /\ DeliveredIssued

-----------------------------------------------------------------------------
\* A row that does not exist is NoRow, and no existing row is.
LEMMA RowFacts ==
    ASSUME CommandsAssumption
    PROVE  /\ NoRow \in Row
           /\ \A r \in Row : r.status = "ABSENT" <=> r = NoRow
           /\ \A r \in Row : r # NoRow =>
                /\ r.device \in Device /\ r.type \in Types
                /\ r.item \in Item \cup {None}
                /\ r.status \in {"QUEUED", "CANCELLED"} \cup Outcome
           /\ \A r \in Row, st \in {"QUEUED", "CANCELLED"} \cup Outcome :
                r # NoRow => /\ [r EXCEPT !.status = st] \in Row \ {NoRow}
                             /\ [r EXCEPT !.status = st].status = st
           /\ \A d \in Device, t \in Types, i \in Item \cup {None} :
                /\ QueuedRow(d, t, i) \in Row \ {NoRow}
                /\ QueuedRow(d, t, i).status = "QUEUED"
  BY DEF Row, NoRow, QueuedRow, Outcome, Types, SoftwareTypes, CommandsAssumption

\* Rows are placed on ids that hold none, one per device.
LEMMA PlacementFacts ==
    ASSUME NEW D, NEW place \in Placements(D)
    PROVE  /\ DOMAIN place \subseteq Fresh
           /\ \A c \in DOMAIN place : place[c] \in D
           /\ \A b, c \in DOMAIN place : place[b] = place[c] => b = c
  BY DEF Placements, Bijection, Injection, Surjection, IsInjective

\* A slot without a handler is a well-formed request.
LEMMA IdleFacts == Idle \in Request /\ HandlerOK(Idle)
  BY DEF Idle, Request, Op, HandlerOK

\* The row a statement makes of another by writing its status.
LEMMA StatusRow ==
    ASSUME CommandsAssumption, NEW r \in Row, r # NoRow,
           NEW st \in {"QUEUED", "CANCELLED"} \cup Outcome
    PROVE  /\ [r EXCEPT !.status = st] \in Row \ {NoRow}
           /\ [r EXCEPT !.status = st].status = st
           /\ [r EXCEPT !.status = st].device = r.device
           /\ [r EXCEPT !.status = st].type = r.type
           /\ [r EXCEPT !.status = st].item = r.item
  BY DEF Row, NoRow, Outcome, CommandsAssumption

\* A write of one status leaves the rest of the table as it is.
LEMMA StatusWrite ==
    ASSUME CommandsAssumption, command \in [Command -> Row],
           NEW k \in Command, command[k] # NoRow,
           NEW st \in {"QUEUED", "CANCELLED"} \cup Outcome,
           command' = [command EXCEPT ![k].status = st]
    PROVE  /\ \A c \in Command : c # k => command'[c] = command[c]
           /\ command'[k].status = st
           /\ command'[k].device = command[k].device
           /\ command'[k].type = command[k].type
           /\ command'[k].item = command[k].item
           /\ command'[k] # NoRow
           /\ command' \in [Command -> Row]
<1>1. PICK r \in Row : r = command[k]
  OBVIOUS
<1>2. PICK q : q = [r EXCEPT !.status = st]
  OBVIOUS
<1>3. q \in Row \ {NoRow} /\ q.status = st /\ q.device = r.device /\ q.type = r.type /\ q.item = r.item
  BY <1>1, <1>2, StatusRow
<1>4. command' = [command EXCEPT ![k] = q]
  BY <1>1, <1>2
<1>5. QED  BY <1>1, <1>3, <1>4

\* What a request has, whatever its handler.
LEMMA RequestFields ==
    ASSUME NEW r \in Request
    PROVE  /\ r.targets \in SUBSET Device /\ r.todo \in SUBSET {"states", "active", "sync"}
           /\ \A op \in Op : /\ [r EXCEPT !.op = op] \in Request
                             /\ [r EXCEPT !.op = op].op = op
                             /\ [r EXCEPT !.op = op].cmd = r.cmd
                             /\ [r EXCEPT !.op = op].outcome = r.outcome
                             /\ [r EXCEPT !.op = op].todo = r.todo
  BY DEF Request

\* A handler that has done a part of what it has to do.
LEMMA TodoStep ==
    ASSUME NEW u, NEW r, HandlerOK(u),
           r.op = u.op /\ r.cmd = u.cmd /\ r.outcome = u.outcome,
           r.type = u.type /\ r.item = u.item /\ r.device = u.device,
           r.todo \subseteq u.todo
    PROVE  HandlerOK(r)
  BY DEF HandlerOK

\* A statement that deletes no command leaves every handler well formed when
\* it leaves its own so.
LEMMA RequestStep ==
    ASSUME TypeInv,
           NEW s \in Slot, NEW r \in Request,
           request' = [request EXCEPT ![s] = r],
           HandlerOK(r)',
           \A c \in Command : command[c] # NoRow => command'[c] # NoRow
    PROVE  request' \in [Slot -> Request] /\ RequestOK'
<1>1. request' \in [Slot -> Request]
  BY DEF TypeInv, TypeOK
<1>2. ASSUME NEW t \in Slot, t # s PROVE HandlerOK(request[t])'
  <2>1. request'[t] = request[t] /\ HandlerOK(request[t])
    BY <1>2 DEF TypeInv, TypeOK, RequestOK
  <2>2. QED  BY <2>1 DEF HandlerOK
<1>3. HandlerOK(request[s])'
  <2>1. request'[s] = r
    BY DEF TypeInv, TypeOK
  <2>2. QED  BY <2>1 DEF HandlerOK
<1>4. QED  BY <1>1, <1>2, <1>3 DEF RequestOK

\* A step of a handler that writes no table.
LEMMA ReadStep ==
    ASSUME TypeInv, NEW s \in Slot, NEW r \in Request, HandlerOK(r),
           request' = [request EXCEPT ![s] = r], UNCHANGED <<tables, delivered>>
    PROVE  TypeInv'
<1>1. command' = command
  BY DEF tables
<1>2. HandlerOK(r)'
  BY <1>1 DEF HandlerOK
<1>3. request' \in [Slot -> Request] /\ RequestOK'
  BY <1>1, <1>2, RequestStep
<1>4. QED  BY <1>1, <1>3 DEF TypeInv, TypeOK, DeliveredIssued, tables

\* The end of a handler.
LEMMA FinishStep ==
    ASSUME TypeInv, NEW s \in Slot, Finish(s),
           \A c \in Command : command[c] # NoRow => command'[c] # NoRow
    PROVE  request' \in [Slot -> Request] /\ RequestOK'
<1>1. HandlerOK(Idle)'
  BY DEF Idle, HandlerOK
<1>2. QED  BY <1>1, IdleFacts, RequestStep DEF Finish

\* The end of a handler that writes no table with its last step.
LEMMA EndStep ==
    ASSUME TypeInv, NEW s \in Slot, Finish(s), UNCHANGED <<tables, delivered>>
    PROVE  TypeInv'
  BY IdleFacts, ReadStep DEF Finish

\* Tables that keep their types, with the handlers as they were.
LEMMA IdleStep ==
    ASSUME TypeInv, TypeOK', UNCHANGED <<request, delivered>>,
           \A c \in Command : command[c] # NoRow => command'[c] # NoRow
    PROVE  TypeInv'
<1>1. RequestOK'
  <2> SUFFICES ASSUME NEW s \in Slot PROVE HandlerOK(request[s])'
    BY DEF RequestOK
  <2>1. request'[s] = request[s] /\ HandlerOK(request[s])
    BY DEF TypeInv, RequestOK
  <2>2. QED  BY <2>1 DEF HandlerOK
<1>2. DeliveredIssued'
  BY DEF TypeInv, TypeOK, DeliveredIssued
<1>3. QED  BY <1>1, <1>2 DEF TypeInv

\* The tables start empty, every slot idle.
THEOREM TypeInit == CommandsAssumption /\ Init => TypeInv
  BY IdleFacts DEF Init, TypeInv, TypeOK, RequestOK, DeliveredIssued, Row, NoRow, Outcome

\* Every handler step of the server keeps the tables and the requests well
\* formed.
LEMMA TypeStep ==
    ASSUME CommandsAssumption, TypeInv, [Next]_vars
    PROVE  TypeInv'
<1>a. /\ command \in [Command -> Row]
      /\ deployment \in [Command -> {"NONE", "PENDING"} \cup Outcome]
      /\ devicePatch \in [Device -> [Patch -> {"NONE", "MISSING", "INSTALLED", "FAILED"}]]
      /\ \A s \in Slot : request[s] \in Request /\ HandlerOK(request[s])
  BY DEF TypeInv, TypeOK, RequestOK
<1>1. ASSUME NEW s \in Slot, NEW d \in Device, NEW t \in IssuedTypes, CreateCommand(s, d, t)
      PROVE  TypeInv'
  <2>1. PICK place \in Placements({d}) :
          command' = [c \in Command |-> IF c \in DOMAIN place THEN QueuedRow(d, t, None)
                                        ELSE command[c]]
    BY <1>1 DEF CreateCommand
  <2>2. QueuedRow(d, t, None) \in Row \ {NoRow}
    BY RowFacts DEF CommandsAssumption
  <2>3. /\ command' \in [Command -> Row]
        /\ \A c \in Command : command[c] # NoRow => command'[c] # NoRow
    BY <1>a, <2>1, <2>2
  <2>4. TypeOK'
    BY <1>1, <2>3 DEF CreateCommand, TypeInv, TypeOK
  <2>5. QED  BY <1>1, <2>3, <2>4, IdleStep DEF CreateCommand
<1>2. ASSUME NEW s \in Slot, NEW c \in Command, CancelRead(s, c) PROVE TypeInv'
  <2>1. PICK r : r = [Idle EXCEPT !.op = "cancel", !.cmd = c]
    OBVIOUS
  <2>2. command[c] # NoRow
    BY <1>2 DEF CancelRead, NoRow
  <2>3. r \in Request /\ HandlerOK(r)
    BY <2>1, <2>2 DEF Request, Idle, Op, HandlerOK
  <2>4. request' = [request EXCEPT ![s] = r]
    BY <1>2, <2>1 DEF CancelRead, Begin
  <2>5. QED  BY <1>2, <2>3, <2>4, ReadStep DEF CancelRead
<1>3. ASSUME NEW s \in Slot, CancelWrite(s) PROVE TypeInv'
  <2>1. request[s].cmd \in Command /\ command[request[s].cmd] # NoRow
    BY <1>3, <1>a DEF CancelWrite, HandlerOK
  <2>2. /\ command' \in [Command -> Row]
        /\ \A c \in Command : command[c] # NoRow => command'[c] # NoRow
    BY <1>3, <1>a, <2>1, StatusWrite DEF CancelWrite
  <2>3. request' \in [Slot -> Request] /\ RequestOK'
    BY <1>3, <2>2, FinishStep DEF CancelWrite
  <2>4. QED  BY <1>3, <2>2, <2>3 DEF CancelWrite, TypeInv, TypeOK, DeliveredIssued
<1>4. ASSUME NEW s \in Slot, NEW p \in Patch, CreatePatch(s, p) PROVE TypeInv'
  <2>1. TypeOK'
    BY <1>4 DEF CreatePatch, TypeInv, TypeOK
  <2>2. QED  BY <1>4, <2>1, IdleStep DEF CreatePatch
<1>5. ASSUME NEW s \in Slot, NEW p \in Patch, NEW D \in SUBSET Device, DeployPatch(s, p, D) PROVE TypeInv'
  <2>1. PICK r : r = [Idle EXCEPT !.op = "queue", !.type = "INSTALL_PATCH", !.item = p,
                                  !.targets = D, !.todo = {"states", "active"}]
    OBVIOUS
  <2>2. r \in Request /\ HandlerOK(r)
    BY <2>1 DEF Request, Idle, Op, HandlerOK, Types, Item
  <2>3. request' = [request EXCEPT ![s] = r]
    BY <1>5, <2>1 DEF DeployPatch, Begin
  <2>4. QED  BY <1>5, <2>2, <2>3, ReadStep DEF DeployPatch
<1>6. ASSUME NEW s \in Slot, NEW p \in Patch, RetryPatch(s, p) PROVE TypeInv'
  <2>1. PICK D : D = {d \in Device : devicePatch[d][p] = "FAILED"}
    OBVIOUS
  <2>2. PICK r : r = [Idle EXCEPT !.op = "queue", !.type = "INSTALL_PATCH", !.item = p,
                                  !.targets = D, !.todo = {"active"}]
    OBVIOUS
  <2>3. D \in SUBSET Device
    BY <2>1
  <2>4. r \in Request /\ HandlerOK(r)
    BY <2>2, <2>3 DEF Request, Idle, Op, HandlerOK, Types, Item
  <2>5. request' = [request EXCEPT ![s] = r]
    BY <1>6, <2>1, <2>2 DEF RetryPatch, Begin
  <2>6. QED  BY <1>6, <2>4, <2>5, ReadStep DEF RetryPatch
<1>7. ASSUME NEW s \in Slot, NEW t \in SoftwareTypes, NEW a \in Application,
             NEW D \in SUBSET Device, DeploySoftware(s, t, a, D) PROVE TypeInv'
  <2>1. PICK r : r = [Idle EXCEPT !.op = "queue", !.type = t, !.item = a,
                                  !.targets = D, !.todo = {"active"}]
    OBVIOUS
  <2>2. t \in Types /\ a \in Item
    BY DEF Types, Item
  <2>3. r \in Request /\ HandlerOK(r)
    BY <2>1, <2>2 DEF Request, Idle, Op, HandlerOK
  <2>4. request' = [request EXCEPT ![s] = r]
    BY <1>7, <2>1 DEF DeploySoftware, Begin
  <2>5. QED  BY <1>7, <2>3, <2>4, ReadStep DEF DeploySoftware
<1>8. ASSUME NEW s \in Slot, ReadStates(s) PROVE TypeInv'
  <2>1. PICK u \in Request : u = request[s]
    BY <1>a
  <2>2. PICK T : T = u.todo \ {"states"}
    OBVIOUS
  <2>3. PICK D : D = u.targets \ {d \in u.targets : devicePatch[d][u.item] = "INSTALLED"}
    OBVIOUS
  <2>4. PICK r : r = [u EXCEPT !.todo = T, !.targets = D]
    OBVIOUS
  <2>5. /\ r \in Request /\ r.op = u.op /\ r.cmd = u.cmd /\ r.outcome = u.outcome
        /\ r.type = u.type /\ r.item = u.item /\ r.device = u.device /\ r.todo \subseteq u.todo
    <3>1. /\ T \in SUBSET {"states", "active", "sync"} /\ T \subseteq u.todo
          /\ D \in SUBSET Device
      BY <2>2, <2>3, RequestFields
    <3>2. /\ r.op = u.op /\ r.cmd = u.cmd /\ r.outcome = u.outcome
          /\ r.type = u.type /\ r.item = u.item /\ r.device = u.device /\ r.todo = T
      BY <2>4 DEF Request
    <3>3. r \in Request
      BY <2>4, <3>1 DEF Request
    <3>4. QED  BY <3>1, <3>2, <3>3
  <2>6. HandlerOK(r)
    BY <1>a, <2>1, <2>5, TodoStep
  <2>7. request' = [request EXCEPT ![s] = r]
    <3>1. PICK v : v = [u EXCEPT !.todo = T]
      OBVIOUS
    <3>2. r = [v EXCEPT !.targets = D]
      BY <2>4, <3>1
    <3>3. /\ request \in [Slot -> Request]
          /\ [request EXCEPT ![s] = v][s] = v
      BY DEF TypeInv, TypeOK
    <3>4. request' = [[request EXCEPT ![s] = v] EXCEPT ![s] = r]
      BY <1>8, <2>1, <2>2, <2>3, <3>1, <3>2, <3>3 DEF ReadStates
    <3>5. QED  BY <3>3, <3>4
  <2>8. UNCHANGED <<tables, delivered>>
    BY <1>8 DEF ReadStates
  <2>9. QED  BY <2>5, <2>6, <2>7, <2>8, ReadStep
<1>9. ASSUME NEW s \in Slot, ReadActive(s) PROVE TypeInv'
  <2>1. PICK u \in Request : u = request[s]
    BY <1>a
  <2>2. PICK T : T = u.todo \ {"active"}
    OBVIOUS
  <2>3. PICK D : D = u.targets \ InFlight(u.type, u.item)
    OBVIOUS
  <2>4. PICK r : r = [u EXCEPT !.todo = T, !.targets = D]
    OBVIOUS
  <2>5. /\ r \in Request /\ r.op = u.op /\ r.cmd = u.cmd /\ r.outcome = u.outcome
        /\ r.type = u.type /\ r.item = u.item /\ r.device = u.device /\ r.todo \subseteq u.todo
    <3>1. /\ T \in SUBSET {"states", "active", "sync"} /\ T \subseteq u.todo
          /\ D \in SUBSET Device
      BY <2>2, <2>3, RequestFields
    <3>2. /\ r.op = u.op /\ r.cmd = u.cmd /\ r.outcome = u.outcome
          /\ r.type = u.type /\ r.item = u.item /\ r.device = u.device /\ r.todo = T
      BY <2>4 DEF Request
    <3>3. r \in Request
      BY <2>4, <3>1 DEF Request
    <3>4. QED  BY <3>1, <3>2, <3>3
  <2>6. HandlerOK(r)
    BY <1>a, <2>1, <2>5, TodoStep
  <2>7. request' = [request EXCEPT ![s] = r]
    <3>1. PICK v : v = [u EXCEPT !.todo = T]
      OBVIOUS
    <3>2. r = [v EXCEPT !.targets = D]
      BY <2>4, <3>1
    <3>3. /\ request \in [Slot -> Request]
          /\ [request EXCEPT ![s] = v][s] = v
      BY DEF TypeInv, TypeOK
    <3>4. request' = [[request EXCEPT ![s] = v] EXCEPT ![s] = r]
      BY <1>9, <2>1, <2>2, <2>3, <3>1, <3>2, <3>3 DEF ReadActive
    <3>5. QED  BY <3>3, <3>4
  <2>8. UNCHANGED <<tables, delivered>>
    BY <1>9 DEF ReadActive
  <2>9. QED  BY <2>5, <2>6, <2>7, <2>8, ReadStep
<1>10. ASSUME NEW s \in Slot, QueueRows(s) PROVE TypeInv'
  <2>1. request[s].type \in Types /\ request[s].item \in Item /\ request[s].targets \subseteq Device
    BY <1>10, <1>a, RequestFields DEF QueueRows, HandlerOK
  <2>2. PICK place \in Placements(request[s].targets) :
          /\ command' = [c \in Command |->
                           IF c \in DOMAIN place
                           THEN QueuedRow(place[c], request[s].type, request[s].item)
                           ELSE command[c]]
          /\ deployment' = [c \in Command |->
                              IF c \in DOMAIN place /\ request[s].type \in SoftwareTypes
                              THEN "PENDING"
                              ELSE deployment[c]]
    BY <1>10 DEF QueueRows
  <2>3. /\ DOMAIN place \subseteq Fresh
        /\ \A c \in DOMAIN place : place[c] \in Device
    BY <2>1, <2>2, PlacementFacts
  <2>4. \A c \in DOMAIN place :
           QueuedRow(place[c], request[s].type, request[s].item) \in Row \ {NoRow}
    BY <2>1, <2>3, RowFacts
  <2>5. command' \in [Command -> Row]
    BY <1>a, <2>2, <2>4
  <2>6. \A c \in Command : command[c] # NoRow => command'[c] # NoRow
    BY <2>2, <2>4
  <2>7. request' \in [Slot -> Request] /\ RequestOK'
    BY <1>10, <2>6, FinishStep DEF QueueRows
  <2>8. deployment' \in [Command -> {"NONE", "PENDING"} \cup Outcome]
    BY <1>a, <2>2
  <2>9. QED  BY <1>10, <2>5, <2>6, <2>7, <2>8 DEF QueueRows, TypeInv, TypeOK, DeliveredIssued
<1>11. ASSUME NEW s \in Slot, TableFull(s) \/ RequestFails(s) \/ ResultReject(s) PROVE TypeInv'
  BY <1>11, EndStep DEF TableFull, RequestFails, ResultReject
<1>12. ASSUME NEW s \in Slot, NEW p \in Patch, CancelPatch(s, p) PROVE TypeInv'
  <2>1. ASSUME NEW c \in Command
        PROVE  command'[c] \in Row /\ (command[c] # NoRow => command'[c] # NoRow)
    <3>1. PICK r \in Row : r = command[c]
      BY <1>a
    <3>2. CASE r.status = "QUEUED"
      <4>1. r # NoRow
        BY <3>2 DEF NoRow
      <4>2. [r EXCEPT !.status = "CANCELLED"] \in Row \ {NoRow}
        BY <4>1, StatusRow
      <4>3. QED  BY <1>12, <3>1, <4>2 DEF CancelPatch
    <3>3. CASE r.status # "QUEUED"
      BY <1>12, <3>1, <3>3 DEF CancelPatch
    <3>4. QED  BY <3>2, <3>3
  <2>2. command' \in [Command -> Row]
    BY <1>12, <2>1 DEF CancelPatch
  <2>3. TypeOK'
    BY <1>12, <2>2 DEF CancelPatch, TypeInv, TypeOK
  <2>4. QED  BY <1>12, <2>1, <2>3, IdleStep DEF CancelPatch
<1>13. ASSUME NEW s \in Slot, NEW p \in Patch, DeletePatchCheck(s, p) PROVE TypeInv'
  <2>1. PICK r : r = [Idle EXCEPT !.op = "delete", !.item = p]
    OBVIOUS
  <2>2. r \in Request /\ HandlerOK(r)
    BY <2>1 DEF Request, Idle, Op, HandlerOK, Item
  <2>3. request' = [request EXCEPT ![s] = r]
    BY <1>13, <2>1 DEF DeletePatchCheck, Begin
  <2>4. QED  BY <1>13, <2>2, <2>3, ReadStep DEF DeletePatchCheck
<1>14. ASSUME NEW s \in Slot, DeletePatch(s) PROVE TypeInv'
  <2>1. request' \in [Slot -> Request] /\ RequestOK'
    BY <1>14, FinishStep DEF DeletePatch
  <2>2. TypeOK'
    BY <1>14, <2>1 DEF DeletePatch, TypeInv, TypeOK
  <2>3. QED  BY <1>14, <2>1, <2>2 DEF DeletePatch, TypeInv, DeliveredIssued
<1>15. ASSUME NEW s \in Slot, NEW d \in Device, NEW todo \in {{}, {"sync"}},
              HeartbeatArrives(s, d, todo) PROVE TypeInv'
  <2>1. PICK r : r = [Idle EXCEPT !.op = "heartbeat", !.device = d, !.todo = todo]
    OBVIOUS
  <2>2. r \in Request /\ HandlerOK(r)
    BY <2>1 DEF Request, Idle, Op, HandlerOK
  <2>3. request' = [request EXCEPT ![s] = r]
    BY <1>15, <2>1 DEF HeartbeatArrives, Begin
  <2>4. QED  BY <1>15, <2>2, <2>3, ReadStep DEF HeartbeatArrives
<1>16. ASSUME NEW s \in Slot, NEW reported \in SUBSET Patch, SyncPatches(s, reported) PROVE TypeInv'
  <2>1. PICK u \in Request : u = request[s]
    BY <1>a
  <2>2. PICK r : r = [u EXCEPT !.todo = {}]
    OBVIOUS
  <2>3. r \in Request /\ HandlerOK(r) /\ request' = [request EXCEPT ![s] = r]
    <3>1. HandlerOK(u)
      BY <1>a, <2>1
    <3>2. /\ r.op = u.op /\ r.cmd = u.cmd /\ r.outcome = u.outcome /\ r.type = u.type
          /\ r.item = u.item /\ r.device = u.device /\ r.todo = {} /\ r \in Request
      BY <2>2 DEF Request
    <3>3. HandlerOK(r)
      BY <3>1, <3>2, TodoStep
    <3>4. QED  BY <1>16, <2>1, <2>2, <3>2, <3>3 DEF SyncPatches
  <2>4. command' = command /\ deployment' = deployment /\ alert' = alert /\ delivered' = delivered
    BY <1>16 DEF SyncPatches
  <2>5. HandlerOK(r)'
    BY <2>3, <2>4 DEF HandlerOK
  <2>6. request' \in [Slot -> Request] /\ RequestOK'
    BY <2>3, <2>4, <2>5, RequestStep
  <2>7. catalog' \in [Patch -> {"NEW", "LISTED", "DELETED"}]
    BY <1>16 DEF SyncPatches, TypeInv, TypeOK
  <2>8. devicePatch' \in [Device -> [Patch -> {"NONE", "MISSING", "INSTALLED", "FAILED"}]]
    <3>1. request[s].device \in Device
      BY <1>16, <1>a DEF SyncPatches, HandlerOK
    <3>2. PICK old \in [Patch -> {"NONE", "MISSING", "INSTALLED", "FAILED"}] :
            old = devicePatch[request[s].device]
      BY <1>a, <3>1
    <3>3. PICK row : row = [p \in Patch |->
                              CASE p \in reported -> "INSTALLED"
                                [] p \notin reported /\ old[p] = "INSTALLED" -> "MISSING"
                                [] OTHER -> old[p]]
      OBVIOUS
    <3>4. devicePatch' = [devicePatch EXCEPT ![request[s].device] = row]
      BY <1>16, <3>2, <3>3 DEF SyncPatches
    <3>5. row \in [Patch -> {"NONE", "MISSING", "INSTALLED", "FAILED"}]
      BY <3>3
    <3>6. QED  BY <1>a, <3>4, <3>5
  <2>9. QED  BY <2>4, <2>6, <2>7, <2>8 DEF TypeInv, TypeOK, DeliveredIssued
<1>17. ASSUME NEW s \in Slot, HeartbeatAnswer(s) PROVE TypeInv'
  <2>1. command' = command
    BY <1>17 DEF HeartbeatAnswer, tables
  <2>2. request' \in [Slot -> Request] /\ RequestOK'
    BY <1>17, <2>1, FinishStep DEF HeartbeatAnswer
  <2>3. \A c \in Pending(request[s].device) : c \in Command /\ command[c] # NoRow
    BY DEF Pending, NoRow
  <2>4. delivered' \subseteq Command /\ DeliveredIssued'
    BY <1>17, <2>1, <2>3 DEF HeartbeatAnswer, TypeInv, TypeOK, DeliveredIssued
  <2>5. QED  BY <1>17, <2>2, <2>4 DEF HeartbeatAnswer, tables, TypeInv, TypeOK
<1>18. ASSUME NEW s \in Slot, NEW c \in delivered, NEW o \in Outcome,
              ReportArrives(s, c, o) PROVE TypeInv'
  <2>1. PICK r : r = [Idle EXCEPT !.op = "report", !.cmd = c, !.outcome = o]
    OBVIOUS
  <2>2. c \in Command /\ command[c] # NoRow
    BY DEF TypeInv, TypeOK, DeliveredIssued
  <2>3. r \in Request /\ HandlerOK(r)
    BY <2>1, <2>2 DEF Request, Idle, Op, HandlerOK
  <2>4. request' = [request EXCEPT ![s] = r]
    BY <1>18, <2>1 DEF ReportArrives, Begin
  <2>5. QED  BY <1>18, <2>3, <2>4, ReadStep DEF ReportArrives
<1>19. ASSUME NEW s \in Slot, ResultRead(s) PROVE TypeInv'
  <2>1. CASE Finish(s)
    BY <1>19, <2>1, EndStep DEF ResultRead
  <2>2. CASE request' = [request EXCEPT ![s].op = "result"]
    <3>1. PICK r : r = [request[s] EXCEPT !.op = "result"]
      OBVIOUS
    <3>2. /\ r \in Request /\ r.op = "result" /\ r.cmd = request[s].cmd
          /\ r.outcome = request[s].outcome /\ r.todo = request[s].todo
      BY <1>a, <3>1, RequestFields DEF Op
    <3>3. HandlerOK(r)
      BY <1>19, <1>a, <3>2 DEF ResultRead, HandlerOK
    <3>4. request' = [request EXCEPT ![s] = r]
      BY <2>2, <3>1
    <3>5. QED  BY <1>19, <3>2, <3>3, <3>4, ReadStep DEF ResultRead
  <2>3. QED  BY <1>19, <2>1, <2>2 DEF ResultRead
<1>20. ASSUME NEW s \in Slot, ResultCommit(s) PROVE TypeInv'
  <2> DEFINE k == request[s].cmd
             o == request[s].outcome
  <2>1. k \in Command /\ command[k] # NoRow /\ o \in Outcome
    BY <1>20, <1>a DEF ResultCommit, HandlerOK
  <2>2. /\ command' \in [Command -> Row]
        /\ \A c \in Command : command[c] # NoRow => command'[c] # NoRow
    BY <1>20, <1>a, <2>1, StatusWrite DEF ResultCommit
  <2>3. PICK op \in {"raise", "recover"} : op = IF o = "FAILED" THEN "raise" ELSE "recover"
    OBVIOUS
  <2>4. PICK r : r = [request[s] EXCEPT !.op = op]
    OBVIOUS
  <2>5. /\ r \in Request /\ r.op = op /\ r.cmd = k
        /\ r.outcome = o /\ r.todo = request[s].todo
    <3>1. PICK u \in Request : u = request[s]
      BY <1>a
    <3>2. r = [u EXCEPT !.op = op] /\ op \in Op
      BY <2>4, <3>1 DEF Op
    <3>3. QED  BY <3>1, <3>2, RequestFields
  <2>6. HandlerOK(r)'
    <3>1. HandlerOK(request[s]) /\ request[s].op = "result"
      BY <1>20, <1>a DEF ResultCommit
    <3>2. QED  BY <2>1, <2>2, <2>5, <3>1 DEF HandlerOK
  <2>7. request' = [request EXCEPT ![s] = r]
    BY <1>20, <2>3, <2>4 DEF ResultCommit
  <2>8. request' \in [Slot -> Request] /\ RequestOK'
    BY <2>2, <2>5, <2>6, <2>7, RequestStep
  <2>9. deployment' \in [Command -> {"NONE", "PENDING"} \cup Outcome]
    BY <1>20, <1>a, <2>1 DEF ResultCommit
  <2>10. devicePatch' \in [Device -> [Patch -> {"NONE", "MISSING", "INSTALLED", "FAILED"}]]
    BY <1>20, <1>a, <2>1 DEF ResultCommit
  <2>11. catalog' = catalog /\ alert' = alert /\ delivered' = delivered
    BY <1>20 DEF ResultCommit
  <2>12. QED  BY <2>2, <2>8, <2>9, <2>10, <2>11 DEF TypeInv, TypeOK, DeliveredIssued
<1>21. ASSUME NEW s \in Slot, RaiseAlert(s) \/ ResolveAlerts(s) PROVE TypeInv'
  <2>1. /\ command' = command /\ deployment' = deployment /\ catalog' = catalog
        /\ devicePatch' = devicePatch /\ delivered' = delivered /\ Finish(s)
    BY <1>21 DEF RaiseAlert, ResolveAlerts
  <2>2. request' \in [Slot -> Request] /\ RequestOK'
    BY <2>1, FinishStep
  <2>3. alert' \in [Command -> {"NONE", "UNRESOLVED", "RESOLVED"}]
    BY <1>21 DEF RaiseAlert, ResolveAlerts, TypeInv, TypeOK
  <2>4. QED  BY <2>1, <2>2, <2>3 DEF TypeInv, TypeOK, DeliveredIssued
<1>22. CASE UNCHANGED vars
  BY <1>22 DEF vars, TypeInv, TypeOK, RequestOK, HandlerOK, DeliveredIssued
<1>23. QED
  BY <1>1, <1>2, <1>3, <1>4, <1>5, <1>6, <1>7, <1>8, <1>9, <1>10, <1>11, <1>12, <1>13, <1>14,
     <1>15, <1>16, <1>17, <1>18, <1>19, <1>20, <1>21, <1>22
     DEF Next, Console, ConsoleSteps, AgentRequests, AgentSteps

\* Type correctness of the server tables and of the handlers in flight, for
\* any number of them: no command row is ever SENT or RUNNING.
THEOREM TypeCorrect == CommandsAssumption /\ Spec => []TypeOK
<1>1. CommandsAssumption /\ TypeInv /\ [Next]_vars => TypeInv'
  BY TypeStep
<1>2. TypeInv => TypeOK
  BY DEF TypeInv
<1>3. QED  BY CommandsAssumption, TypeInit, <1>1, <1>2, PTL DEF Spec

-----------------------------------------------------------------------------
\* Only a row that exists drives a deployment.  DeploymentMirrors is inductive
\* with it: a new row finds no deployment under its id.
MirrorInv ==
    /\ DeploymentMirrors
    /\ \A c \in Command : command[c] = NoRow => deployment[c] = "NONE"

\* Every step keeps the deployments in step with their commands.  Only the
\* statements that write a row of either table matter.
LEMMA MirrorStep ==
    ASSUME CommandsAssumption, TypeInv, MirrorInv, [Next]_vars
    PROVE  MirrorInv'
<1>1. ASSUME NEW s \in Slot, NEW d \in Device, NEW t \in IssuedTypes, CreateCommand(s, d, t)
      PROVE  MirrorInv'
  <2>1. PICK place \in Placements({d}) :
          command' = [c \in Command |-> IF c \in DOMAIN place THEN QueuedRow(d, t, None)
                                        ELSE command[c]]
    BY <1>1 DEF CreateCommand
  <2>2. \A c \in DOMAIN place : command[c] = NoRow
    BY <2>1, PlacementFacts DEF Fresh
  <2>3. \A c \in Command : \/ command'[c] = command[c]
                           \/ command[c] = NoRow /\ command'[c] # NoRow
    <3>1. QueuedRow(d, t, None) # NoRow
      BY RowFacts DEF CommandsAssumption
    <3>2. QED  BY <2>1, <2>2, <3>1
  <2>4. QED  BY <1>1, <2>3 DEF CreateCommand, MirrorInv, DeploymentMirrors
<1>2. ASSUME NEW s \in Slot, CancelWrite(s) PROVE MirrorInv'
  <2>1. request[s].cmd \in Command /\ command[request[s].cmd] # NoRow
    BY <1>2 DEF CancelWrite, TypeInv, RequestOK, HandlerOK
  <2>2. \A c \in Command : \/ command'[c] = command[c]
                           \/ command'[c].status = "CANCELLED" /\ command[c] # NoRow
    <3>1. command'[request[s].cmd] = [command[request[s].cmd] EXCEPT !.status = "CANCELLED"]
      BY <1>2, <2>1 DEF CancelWrite, TypeInv, TypeOK
    <3>2. command'[request[s].cmd].status = "CANCELLED"
      BY <2>1, <3>1, RowFacts DEF TypeInv, TypeOK
    <3>3. ASSUME NEW c \in Command, c # request[s].cmd PROVE command'[c] = command[c]
      BY <1>2, <3>3 DEF CancelWrite, TypeInv, TypeOK
    <3>4. QED  BY <2>1, <3>2, <3>3
  <2>3. QED  BY <1>2, <2>2 DEF CancelWrite, MirrorInv, DeploymentMirrors, Outcome, NoRow
<1>3. ASSUME NEW s \in Slot, NEW p \in Patch, CancelPatch(s, p) PROVE MirrorInv'
  <2>1. \A c \in Command : \/ command'[c] = command[c]
                           \/ command'[c].status = "CANCELLED" /\ command[c] # NoRow
    <3>1. ASSUME NEW c \in Command, command[c].status = "QUEUED"
          PROVE  [command[c] EXCEPT !.status = "CANCELLED"].status = "CANCELLED"
                 /\ command[c] # NoRow
      BY <3>1, RowFacts DEF TypeInv, TypeOK, NoRow
    <3>2. ASSUME NEW c \in Command
          PROVE  \/ command'[c] = command[c]
                 \/ /\ command[c].status = "QUEUED"
                    /\ command'[c] = [command[c] EXCEPT !.status = "CANCELLED"]
      BY <1>3 DEF CancelPatch
    <3>3. QED  BY <3>1, <3>2
  <2>2. QED  BY <1>3, <2>1 DEF CancelPatch, MirrorInv, DeploymentMirrors, Outcome, NoRow
<1>4. ASSUME NEW s \in Slot, QueueRows(s) PROVE MirrorInv'
  <2>1. PICK place \in Placements(request[s].targets) :
          /\ command' = [c \in Command |->
                           IF c \in DOMAIN place
                           THEN QueuedRow(place[c], request[s].type, request[s].item)
                           ELSE command[c]]
          /\ deployment' = [c \in Command |->
                              IF c \in DOMAIN place /\ request[s].type \in SoftwareTypes
                              THEN "PENDING"
                              ELSE deployment[c]]
    BY <1>4 DEF QueueRows
  <2>2. \A c \in DOMAIN place : command[c] = NoRow
    BY <2>1, PlacementFacts DEF Fresh
  <2>3. ASSUME NEW c \in Command
        PROVE  \/ command'[c] = command[c] /\ deployment'[c] = deployment[c]
               \/ /\ command'[c].status = "QUEUED" /\ command'[c] # NoRow
                  /\ command[c] = NoRow
                  /\ deployment'[c] \in {"PENDING", deployment[c]}
    BY <2>1, <2>2 DEF QueuedRow, NoRow
  <2>4. QED  BY <2>3 DEF MirrorInv, DeploymentMirrors, Outcome
<1>5. ASSUME NEW s \in Slot, ResultCommit(s) PROVE MirrorInv'
  <2> DEFINE k == request[s].cmd
             o == request[s].outcome
  <2>1. k \in Command /\ command[k] # NoRow /\ o \in Outcome
    BY <1>5 DEF ResultCommit, TypeInv, RequestOK, HandlerOK
  <2>2. command'[k].status = o
    BY <1>5, <2>1 DEF ResultCommit, TypeInv, TypeOK, Row, NoRow
  <2>3. deployment'[k] = IF deployment[k] = "NONE" THEN "NONE" ELSE o
    BY <1>5, <2>1 DEF ResultCommit, TypeInv, TypeOK
  <2>4. \A c \in Command : c # k => command'[c] = command[c] /\ deployment'[c] = deployment[c]
    BY <1>5, <2>1 DEF ResultCommit, TypeInv, TypeOK
  <2>5. QED  BY <2>1, <2>2, <2>3, <2>4 DEF MirrorInv, DeploymentMirrors, Outcome, NoRow
<1>6. CASE UNCHANGED <<command, deployment>>
  BY <1>6 DEF MirrorInv, DeploymentMirrors
<1>7. QED
  BY <1>1, <1>2, <1>3, <1>4, <1>5, <1>6
     DEF Next, Console, ConsoleSteps, AgentRequests, AgentSteps, vars, tables,
         CancelRead, CreatePatch, DeployPatch, RetryPatch, DeploySoftware, DeletePatchCheck,
         ReadStates, ReadActive, TableFull, DeletePatch, HeartbeatArrives, ReportArrives,
         SyncPatches, HeartbeatAnswer, ResultRead, ResultReject, RaiseAlert, ResolveAlerts,
         RequestFails

\* A deployment shows the outcome its command ended with, however many handlers
\* of reports and cancellations of that command overlap.
THEOREM DeploymentsMirror == CommandsAssumption /\ Spec => []DeploymentMirrors
<1>1. Init => MirrorInv
  BY DEF Init, MirrorInv, DeploymentMirrors
<1>2. CommandsAssumption /\ TypeInv /\ MirrorInv /\ [Next]_vars => MirrorInv'
  BY MirrorStep
<1>3. CommandsAssumption /\ TypeInv /\ [Next]_vars => TypeInv'
  BY TypeStep
<1>4. MirrorInv => DeploymentMirrors
  BY DEF MirrorInv
<1>5. QED  BY CommandsAssumption, TypeInit, <1>1, <1>2, <1>3, <1>4, PTL DEF Spec

-----------------------------------------------------------------------------
(* What the guards of the handlers achieve when requests do not overlap: the *)
(* handler in flight finds the tables as it left them.  With two slots none  *)
(* of these theorems holds, as TLC shows.                                    *)

\* Requests do not overlap: there is one slot for them at most.
OneAtATime == \A s, t \in Slot : s = t

\* What the handler in flight has checked still holds.
CheckHolds(r) ==
    /\ r.op = "cancel" => command[r.cmd].status = "QUEUED"
    /\ r.op = "result" => command[r.cmd].status \notin Outcome
    /\ r.op = "raise" => command[r.cmd].status = "FAILED"
    /\ r.op = "queue" /\ r.item \in Patch => catalog[r.item] = "LISTED"
    /\ r.op = "queue" /\ "active" \notin r.todo =>
         \A c \in Command :
            Active(c) /\ command[c].type = r.type /\ command[c].item = r.item
              => command[c].device \notin r.targets
    /\ r.op = "delete" => \A c \in Command : command[c].item = r.item => ~Active(c)

SerialInv ==
    /\ \A s \in Slot : CheckHolds(request[s])
    /\ NoDuplicateInstall
    /\ InstallHasPatch
    /\ AlertMatchesFailure

-----------------------------------------------------------------------------
\* The rows' statuses never include SENT and RUNNING: a command in flight is a
\* queued one.
LEMMA ActiveQueued ==
    ASSUME CommandsAssumption, TypeOK, NEW c \in Command
    PROVE  Active(c) <=> command[c].status = "QUEUED"
<1>1. command[c] \in Row
  BY DEF TypeOK
<1>2. command[c].status \in {"ABSENT", "QUEUED", "CANCELLED"} \cup Outcome
  BY <1>1, RowFacts
<1>3. QED  BY <1>2 DEF Active, Outcome

\* The only handler moves to r, and r's checks hold of the new tables.
LEMMA CheckStep ==
    ASSUME OneAtATime, TypeInv, NEW s \in Slot, NEW r,
           request' = [request EXCEPT ![s] = r], CheckHolds(r)'
    PROVE  \A t \in Slot : CheckHolds(request[t])'
<1>1. TAKE t \in Slot
<1>2. t = s /\ request'[t] = r
  BY DEF OneAtATime, TypeInv, TypeOK
<1>3. QED  BY <1>2 DEF CheckHolds, Active

\* A handler that ends leaves nothing to hold.
LEMMA CheckFinish ==
    ASSUME OneAtATime, TypeInv, NEW s \in Slot, Finish(s)
    PROVE  \A t \in Slot : CheckHolds(request[t])'
<1>1. CheckHolds(Idle)'
  BY DEF CheckHolds, Idle
<1>2. QED  BY <1>1, CheckStep DEF Finish

\* The tables keep their properties while nothing writes them.
LEMMA TablesUnchanged ==
    ASSUME SerialInv, UNCHANGED tables
    PROVE  (NoDuplicateInstall /\ InstallHasPatch /\ AlertMatchesFailure)'
  BY DEF SerialInv, tables, NoDuplicateInstall, InstallHasPatch, AlertMatchesFailure

\* The only handler was idle when it begins.
LEMMA IdleChecks ==
    ASSUME OneAtATime, NEW s \in Slot, request[s] = Idle, UNCHANGED request
    PROVE  \A t \in Slot : CheckHolds(request[t])'
<1>1. TAKE t \in Slot
<1>2. request'[t] = Idle
  BY DEF OneAtATime
<1>3. QED  BY <1>2 DEF CheckHolds, Idle

\* Rows that leave the queue, or do not enter it, give rise to no conflict.
LEMMA LeaveQueue ==
    ASSUME SerialInv, UNCHANGED catalog,
           \A c \in Command : command'[c].status = "QUEUED" => command'[c] = command[c]
    PROVE  (NoDuplicateInstall /\ InstallHasPatch)'
  BY DEF SerialInv, NoDuplicateInstall, InstallHasPatch

\* Each action of a handler keeps what its checks and those of the handlers
\* before it have established.
LEMMA SerialStep ==
    ASSUME CommandsAssumption, OneAtATime, TypeInv, SerialInv, [Next]_vars
    PROVE  SerialInv'
<1>1. ASSUME NEW s \in Slot, NEW d \in Device, NEW t \in IssuedTypes, CreateCommand(s, d, t)
      PROVE  SerialInv'
  <2>1. PICK place \in Placements({d}) :
          command' = [c \in Command |-> IF c \in DOMAIN place THEN QueuedRow(d, t, None)
                                        ELSE command[c]]
    BY <1>1 DEF CreateCommand
  <2>2. \A c \in DOMAIN place : command[c] = NoRow
    BY <2>1, PlacementFacts DEF Fresh
  <2>3. \A c \in Command : \/ command'[c] = command[c]
                           \/ command[c] = NoRow /\ command'[c].item = None
    BY <2>1, <2>2 DEF QueuedRow
  <2>4. \A t1 \in Slot : CheckHolds(request[t1])'
    BY <1>1, IdleChecks DEF CreateCommand
  <2>5. None \notin Patch
    BY DEF CommandsAssumption
  <2>6. NoDuplicateInstall'
    BY <2>3 DEF SerialInv, NoDuplicateInstall
  <2>7. InstallHasPatch'
    BY <1>1, <2>3, <2>5 DEF SerialInv, InstallHasPatch, CreateCommand
  <2>8. AlertMatchesFailure'
    BY <1>1, <2>3 DEF SerialInv, AlertMatchesFailure, CreateCommand, NoRow
  <2>9. QED  BY <2>4, <2>6, <2>7, <2>8 DEF SerialInv
<1>2. ASSUME NEW s \in Slot, NEW c \in Command, CancelRead(s, c) PROVE SerialInv'
  <2> DEFINE r == [Idle EXCEPT !.op = "cancel", !.cmd = c]
  <2>1. CheckHolds(r)'
    BY <1>2 DEF CancelRead, tables, CheckHolds, Idle
  <2>2. request' = [request EXCEPT ![s] = r]
    BY <1>2 DEF CancelRead, Begin
  <2>3. QED  BY <1>2, <2>1, <2>2, CheckStep, TablesUnchanged DEF CancelRead, SerialInv
<1>3. ASSUME NEW s \in Slot, CancelWrite(s) PROVE SerialInv'
  <2> DEFINE k == request[s].cmd
  <2>1. k \in Command /\ command[k] # NoRow /\ command[k].status = "QUEUED"
    BY <1>3 DEF CancelWrite, TypeInv, RequestOK, HandlerOK, SerialInv, CheckHolds
  <2>2. /\ \A c \in Command : c # k => command'[c] = command[c]
        /\ command'[k].status = "CANCELLED"
    BY <1>3, <2>1, StatusWrite DEF CancelWrite, TypeInv, TypeOK
  <2>3. (NoDuplicateInstall /\ InstallHasPatch)'
    BY <1>3, <2>2, LeaveQueue DEF CancelWrite
  <2>4. AlertMatchesFailure'
    BY <1>3, <2>1, <2>2 DEF CancelWrite, SerialInv, AlertMatchesFailure
  <2>5. QED  BY <1>3, <2>3, <2>4, CheckFinish DEF CancelWrite, SerialInv
<1>4. ASSUME NEW s \in Slot, NEW p \in Patch, CreatePatch(s, p) PROVE SerialInv'
  <2>1. InstallHasPatch'
    BY <1>4 DEF CreatePatch, SerialInv, InstallHasPatch, TypeInv, TypeOK
  <2>2. (NoDuplicateInstall /\ AlertMatchesFailure)'
    BY <1>4 DEF CreatePatch, SerialInv, NoDuplicateInstall, AlertMatchesFailure
  <2>3. QED  BY <1>4, <2>1, <2>2, IdleChecks DEF CreatePatch, SerialInv
<1>5. ASSUME NEW s \in Slot, NEW p \in Patch, NEW D \in SUBSET Device, DeployPatch(s, p, D)
      PROVE  SerialInv'
  <2> DEFINE r == [Idle EXCEPT !.op = "queue", !.type = "INSTALL_PATCH", !.item = p,
                               !.targets = D, !.todo = {"states", "active"}]
  <2>1. CheckHolds(r)'
    BY <1>5 DEF DeployPatch, tables, CheckHolds, Idle
  <2>2. request' = [request EXCEPT ![s] = r]
    BY <1>5 DEF DeployPatch, Begin
  <2>3. QED  BY <1>5, <2>1, <2>2, CheckStep, TablesUnchanged DEF DeployPatch, SerialInv
<1>6. ASSUME NEW s \in Slot, NEW p \in Patch, RetryPatch(s, p) PROVE SerialInv'
  <2>1. PICK r : r = [Idle EXCEPT !.op = "queue", !.type = "INSTALL_PATCH", !.item = p,
                                  !.targets = {d \in Device : devicePatch[d][p] = "FAILED"},
                                  !.todo = {"active"}]
    OBVIOUS
  <2>2. CheckHolds(r)'
    BY <1>6, <2>1 DEF RetryPatch, tables, CheckHolds, Idle
  <2>3. request' = [request EXCEPT ![s] = r]
    BY <1>6, <2>1 DEF RetryPatch, Begin
  <2>4. QED  BY <1>6, <2>2, <2>3, CheckStep, TablesUnchanged DEF RetryPatch, SerialInv
<1>7. ASSUME NEW s \in Slot, NEW t \in SoftwareTypes, NEW a \in Application,
             NEW D \in SUBSET Device, DeploySoftware(s, t, a, D)
      PROVE  SerialInv'
  <2> DEFINE r == [Idle EXCEPT !.op = "queue", !.type = t, !.item = a,
                               !.targets = D, !.todo = {"active"}]
  <2>1. a \notin Patch
    BY DEF CommandsAssumption
  <2>2. CheckHolds(r)'
    BY <1>7, <2>1 DEF DeploySoftware, tables, CheckHolds, Idle
  <2>3. request' = [request EXCEPT ![s] = r]
    BY <1>7 DEF DeploySoftware, Begin
  <2>4. QED  BY <1>7, <2>2, <2>3, CheckStep, TablesUnchanged DEF DeploySoftware, SerialInv
<1>8. ASSUME NEW s \in Slot, ReadStates(s) PROVE SerialInv'
  <2>1. request[s] \in Request /\ HandlerOK(request[s]) /\ CheckHolds(request[s])
    BY DEF TypeInv, TypeOK, RequestOK, SerialInv
  <2>2. PICK r \in Request :
          r = [request[s] EXCEPT !.todo = @ \ {"states"},
                                 !.targets = @ \ {d \in request[s].targets :
                                                    devicePatch[d][request[s].item] = "INSTALLED"}]
    BY <2>1 DEF Request
  <2>3. /\ r.op = "queue" /\ request[s].op = "queue"
        /\ r.type = request[s].type /\ r.item = request[s].item
        /\ r.targets \subseteq request[s].targets
        /\ "active" \notin r.todo => "active" \notin request[s].todo
    BY <1>8, <2>1, <2>2 DEF ReadStates, HandlerOK, Request
  <2>4. CheckHolds(r)'
    BY <1>8, <2>1, <2>3 DEF ReadStates, tables, CheckHolds, Active
  <2>5. request' = [request EXCEPT ![s] = r]
    BY <1>8, <2>1, <2>2 DEF ReadStates, Request
  <2>6. QED  BY <1>8, <2>4, <2>5, CheckStep, TablesUnchanged DEF ReadStates, SerialInv
<1>9. ASSUME NEW s \in Slot, ReadActive(s) PROVE SerialInv'
  <2>1. request[s] \in Request /\ HandlerOK(request[s]) /\ CheckHolds(request[s])
    BY DEF TypeInv, TypeOK, RequestOK, SerialInv
  <2>2. PICK r \in Request :
          r = [request[s] EXCEPT !.todo = @ \ {"active"},
                                 !.targets = @ \ InFlight(request[s].type, request[s].item)]
    BY <2>1 DEF Request
  <2>3. /\ r.op = "queue" /\ request[s].op = "queue"
        /\ r.type = request[s].type /\ r.item = request[s].item
        /\ r.targets = request[s].targets \ InFlight(r.type, r.item)
    BY <1>9, <2>1, <2>2 DEF ReadActive, HandlerOK, Request
  <2>4. CheckHolds(r)'
    BY <1>9, <2>1, <2>3 DEF ReadActive, tables, CheckHolds, Active, InFlight
  <2>5. request' = [request EXCEPT ![s] = r]
    BY <1>9, <2>1, <2>2 DEF ReadActive, Request
  <2>6. QED  BY <1>9, <2>4, <2>5, CheckStep, TablesUnchanged DEF ReadActive, SerialInv
<1>10. ASSUME NEW s \in Slot, QueueRows(s) PROVE SerialInv'
  <2> DEFINE t == request[s].type
             i == request[s].item
  <2>1. PICK place \in Placements(request[s].targets) :
          command' = [c \in Command |-> IF c \in DOMAIN place
                                        THEN QueuedRow(place[c], t, i)
                                        ELSE command[c]]
    BY <1>10 DEF QueueRows
  <2>2. /\ \A c \in DOMAIN place : command[c] = NoRow /\ place[c] \in request[s].targets
        /\ \A b, c \in DOMAIN place : place[b] = place[c] => b = c
    BY <2>1, PlacementFacts DEF Fresh
  <2>3. \A c \in Command :
           \/ c \notin DOMAIN place /\ command'[c] = command[c]
           \/ /\ c \in DOMAIN place
              /\ command'[c].device = place[c]
              /\ command'[c].type = t /\ command'[c].item = i
    BY <2>1 DEF QueuedRow
  <2>4. CheckHolds(request[s]) /\ request[s].op = "queue" /\ request[s].todo = {}
    BY <1>10 DEF SerialInv, QueueRows
  <2>5. \A c \in Command : /\ command[c].status = "QUEUED"
                           /\ command[c].type = t /\ command[c].item = i
                           => command[c].device \notin request[s].targets
    BY <2>4, ActiveQueued DEF CheckHolds, TypeInv
  <2>6. NoDuplicateInstall'
    <3> SUFFICES ASSUME NEW b \in Command, NEW c \in Command,
                        command'[b].status = "QUEUED", command'[c].status = "QUEUED",
                        command'[b].item # None,
                        command'[b].item = command'[c].item,
                        command'[b].type = command'[c].type,
                        command'[b].device = command'[c].device
                 PROVE  b = c
      BY DEF NoDuplicateInstall
    <3>1. CASE b \in DOMAIN place /\ c \in DOMAIN place
      BY <2>2, <2>3, <3>1
    <3>2. CASE b \notin DOMAIN place /\ c \notin DOMAIN place
      BY <2>3, <3>2 DEF SerialInv, NoDuplicateInstall
    <3>3. CASE b \in DOMAIN place /\ c \notin DOMAIN place
      BY <2>2, <2>3, <2>5, <3>3
    <3>4. CASE b \notin DOMAIN place /\ c \in DOMAIN place
      BY <2>2, <2>3, <2>5, <3>4
    <3>5. QED  BY <3>1, <3>2, <3>3, <3>4
  <2>7. InstallHasPatch'
    BY <1>10, <2>3, <2>4 DEF SerialInv, InstallHasPatch, CheckHolds, QueueRows
  <2>8. AlertMatchesFailure'
    BY <1>10, <2>2, <2>3 DEF SerialInv, AlertMatchesFailure, QueueRows, NoRow
  <2>9. QED  BY <1>10, <2>6, <2>7, <2>8, CheckFinish DEF SerialInv, QueueRows
<1>11. ASSUME NEW s \in Slot, TableFull(s) \/ RequestFails(s) \/ ResultReject(s) \/ HeartbeatAnswer(s)
       PROVE  SerialInv'
  BY <1>11, CheckFinish, TablesUnchanged
     DEF TableFull, RequestFails, ResultReject, HeartbeatAnswer, SerialInv
<1>12. ASSUME NEW s \in Slot, NEW p \in Patch, CancelPatch(s, p) PROVE SerialInv'
  <2>1. \A c \in Command :
           \/ command'[c] = command[c]
           \/ /\ command[c].status = "QUEUED"
              /\ command'[c] = [command[c] EXCEPT !.status = "CANCELLED"]
    BY <1>12 DEF CancelPatch
  <2>2. \A c \in Command : command[c].status = "QUEUED" =>
           [command[c] EXCEPT !.status = "CANCELLED"].status = "CANCELLED"
    <3> TAKE c \in Command
    <3>1. HAVE command[c].status = "QUEUED"
    <3>2. command[c] \in Row /\ command[c] # NoRow
      BY <3>1 DEF TypeInv, TypeOK, NoRow
    <3>3. QED  BY <3>2, RowFacts
  <2>3. \A c \in Command : \/ command'[c] = command[c]
                           \/ /\ command[c].status = "QUEUED"
                              /\ command'[c].status = "CANCELLED"
    BY <2>1, <2>2
  <2>4. (NoDuplicateInstall /\ InstallHasPatch)'
    BY <1>12, <2>3, LeaveQueue DEF CancelPatch
  <2>5. AlertMatchesFailure'
    BY <1>12, <2>3 DEF CancelPatch, SerialInv, AlertMatchesFailure
  <2>6. QED  BY <1>12, <2>4, <2>5, IdleChecks DEF CancelPatch, SerialInv
<1>13. ASSUME NEW s \in Slot, NEW p \in Patch, DeletePatchCheck(s, p) PROVE SerialInv'
  <2> DEFINE r == [Idle EXCEPT !.op = "delete", !.item = p]
  <2>1. CheckHolds(r)'
    BY <1>13 DEF DeletePatchCheck, tables, CheckHolds, Idle, Active
  <2>2. request' = [request EXCEPT ![s] = r]
    BY <1>13 DEF DeletePatchCheck, Begin
  <2>3. QED  BY <1>13, <2>1, <2>2, CheckStep, TablesUnchanged DEF DeletePatchCheck, SerialInv
<1>14. ASSUME NEW s \in Slot, DeletePatch(s) PROVE SerialInv'
  <2>1. \A c \in Command : command[c].item = request[s].item => command[c].status # "QUEUED"
    BY <1>14, ActiveQueued DEF DeletePatch, SerialInv, CheckHolds, TypeInv
  <2>2. InstallHasPatch'
    BY <1>14, <2>1 DEF DeletePatch, SerialInv, InstallHasPatch, TypeInv, TypeOK
  <2>3. (NoDuplicateInstall /\ AlertMatchesFailure)'
    BY <1>14 DEF DeletePatch, SerialInv, NoDuplicateInstall, AlertMatchesFailure
  <2>4. QED  BY <1>14, <2>2, <2>3, CheckFinish DEF DeletePatch, SerialInv
<1>15. ASSUME NEW s \in Slot, NEW d \in Device, NEW todo \in {{}, {"sync"}},
              HeartbeatArrives(s, d, todo)
       PROVE  SerialInv'
  <2> DEFINE r == [Idle EXCEPT !.op = "heartbeat", !.device = d, !.todo = todo]
  <2>1. CheckHolds(r)'
    BY <1>15 DEF CheckHolds, Idle
  <2>2. request' = [request EXCEPT ![s] = r]
    BY <1>15 DEF HeartbeatArrives, Begin
  <2>3. QED  BY <1>15, <2>1, <2>2, CheckStep, TablesUnchanged DEF HeartbeatArrives, SerialInv
<1>16. ASSUME NEW s \in Slot, NEW reported \in SUBSET Patch, SyncPatches(s, reported)
       PROVE  SerialInv'
  <2>1. request[s] \in Request /\ HandlerOK(request[s])
    BY DEF TypeInv, TypeOK, RequestOK
  <2>2. PICK r \in Request : r = [request[s] EXCEPT !.todo = {}]
    BY <2>1 DEF Request
  <2>3. r.op = "heartbeat"
    BY <1>16, <2>1, <2>2 DEF SyncPatches, HandlerOK, Request
  <2>4. CheckHolds(r)'
    BY <2>3 DEF CheckHolds
  <2>5. request' = [request EXCEPT ![s] = r]
    BY <1>16, <2>2 DEF SyncPatches
  <2>6. InstallHasPatch'
    BY <1>16 DEF SyncPatches, SerialInv, InstallHasPatch
  <2>7. (NoDuplicateInstall /\ AlertMatchesFailure)'
    BY <1>16 DEF SyncPatches, SerialInv, NoDuplicateInstall, AlertMatchesFailure
  <2>8. QED  BY <2>4, <2>5, <2>6, <2>7, CheckStep DEF SerialInv
<1>17. ASSUME NEW s \in Slot, NEW c \in delivered, NEW o \in Outcome, ReportArrives(s, c, o)
       PROVE  SerialInv'
  <2> DEFINE r == [Idle EXCEPT !.op = "report", !.cmd = c, !.outcome = o]
  <2>1. CheckHolds(r)'
    BY <1>17 DEF CheckHolds, Idle
  <2>2. request' = [request EXCEPT ![s] = r]
    BY <1>17 DEF ReportArrives, Begin
  <2>3. QED  BY <1>17, <2>1, <2>2, CheckStep, TablesUnchanged DEF ReportArrives, SerialInv
<1>18. ASSUME NEW s \in Slot, ResultRead(s) PROVE SerialInv'
  <2>1. CASE Finish(s)
    BY <1>18, <2>1, CheckFinish, TablesUnchanged DEF ResultRead, SerialInv
  <2>2. CASE /\ command[request[s].cmd].status \notin Outcome
             /\ request' = [request EXCEPT ![s].op = "result"]
    <3>1. request[s] \in Request
      BY DEF TypeInv, TypeOK
    <3>2. PICK r \in Request : r = [request[s] EXCEPT !.op = "result"]
      BY <3>1 DEF Request, Op
    <3>3. r.op = "result" /\ r.cmd = request[s].cmd
      BY <3>1, <3>2 DEF Request
    <3>4. CheckHolds(r)'
      BY <1>18, <2>2, <3>3 DEF ResultRead, tables, CheckHolds
    <3>5. request' = [request EXCEPT ![s] = r]
      BY <2>2, <3>2
    <3>6. QED  BY <1>18, <3>4, <3>5, CheckStep, TablesUnchanged DEF ResultRead, SerialInv
  <2>3. QED  BY <1>18, <2>1, <2>2 DEF ResultRead
<1>19. ASSUME NEW s \in Slot, ResultCommit(s) PROVE SerialInv'
  <2> DEFINE k == request[s].cmd
             o == request[s].outcome
  <2>1. /\ request[s] \in Request /\ k \in Command /\ command[k] # NoRow /\ o \in Outcome
        /\ command[k].status \notin Outcome
    <3>1. request[s] \in Request /\ HandlerOK(request[s]) /\ CheckHolds(request[s])
      BY DEF TypeInv, TypeOK, RequestOK, SerialInv
    <3>2. request[s].op = "result"
      BY <1>19 DEF ResultCommit
    <3>3. k \in Command /\ command[k] # NoRow /\ o \in Outcome
      BY <3>1, <3>2 DEF HandlerOK
    <3>4. command[k].status \notin Outcome
      BY <3>1, <3>2 DEF CheckHolds
    <3>5. QED  BY <3>1, <3>3, <3>4
  <2>2. /\ \A c \in Command : c # k => command'[c] = command[c]
        /\ command'[k].status = o
    <3>1. command' = [command EXCEPT ![k].status = o] /\ command \in [Command -> Row]
      BY <1>19 DEF ResultCommit, TypeInv, TypeOK
    <3>2. QED  BY <2>1, <3>1, StatusWrite
  <2>3. PICK r \in Request :
          r = [request[s] EXCEPT !.op = IF o = "FAILED" THEN "raise" ELSE "recover"]
    BY <2>1 DEF Request, Op
  <2>4. /\ r.op = IF o = "FAILED" THEN "raise" ELSE "recover"
        /\ r.cmd = k
    BY <2>1, <2>3 DEF Request
  <2>5. CheckHolds(r)'
    BY <2>2, <2>4 DEF CheckHolds
  <2>6. request' = [request EXCEPT ![s] = r]
    BY <1>19, <2>3 DEF ResultCommit
  <2>7. (NoDuplicateInstall /\ InstallHasPatch)'
    BY <1>19, <2>1, <2>2, LeaveQueue DEF ResultCommit, Outcome
  <2>8. AlertMatchesFailure'
    BY <1>19, <2>1, <2>2 DEF ResultCommit, SerialInv, AlertMatchesFailure, Outcome
  <2>9. QED  BY <2>5, <2>6, <2>7, <2>8, CheckStep DEF SerialInv
<1>20. ASSUME NEW s \in Slot, RaiseAlert(s) \/ ResolveAlerts(s) PROVE SerialInv'
  <2>1. RaiseAlert(s) => command[request[s].cmd].status = "FAILED"
    BY DEF RaiseAlert, SerialInv, CheckHolds
  <2>2. AlertMatchesFailure'
    BY <1>20, <2>1 DEF RaiseAlert, ResolveAlerts, SerialInv, AlertMatchesFailure, TypeInv, TypeOK
  <2>3. (NoDuplicateInstall /\ InstallHasPatch)'
    BY <1>20 DEF RaiseAlert, ResolveAlerts, SerialInv, NoDuplicateInstall, InstallHasPatch
  <2>4. QED  BY <1>20, <2>2, <2>3, CheckFinish DEF RaiseAlert, ResolveAlerts, SerialInv
<1>21. CASE UNCHANGED vars
  BY <1>21, TablesUnchanged DEF vars, tables, SerialInv, CheckHolds, Active
<1>22. QED
  BY <1>1, <1>2, <1>3, <1>4, <1>5, <1>6, <1>7, <1>8, <1>9, <1>10, <1>11, <1>12, <1>13, <1>14,
     <1>15, <1>16, <1>17, <1>18, <1>19, <1>20, <1>21
     DEF Next, Console, ConsoleSteps, AgentRequests, AgentSteps

\* Nothing is queued, in flight or alerted at first.
LEMMA SerialInit == Init => SerialInv
<1> SUFFICES ASSUME Init PROVE SerialInv
  OBVIOUS
<1>1. \A c \in Command : command[c].status = "ABSENT" /\ alert[c] = "NONE"
  BY DEF Init, NoRow
<1>2. \A s \in Slot : CheckHolds(request[s])
  BY DEF Init, CheckHolds, Idle
<1>3. QED
  BY <1>1, <1>2 DEF SerialInv, NoDuplicateInstall, InstallHasPatch, AlertMatchesFailure

\* As long as requests do not overlap the handlers' checks hold where they are
\* relied upon, and the tables have what the checks are for.
THEOREM SerialCorrect == ASSUME OneAtATime PROVE Spec => []SerialInv
<1>1. TypeInv /\ SerialInv /\ [Next]_vars => SerialInv'
  BY CommandsAssumption, SerialStep
<1>2. TypeInv /\ [Next]_vars => TypeInv'
  BY CommandsAssumption, TypeStep
<1>3. QED  BY CommandsAssumption, TypeInit, SerialInit, <1>1, <1>2, PTL DEF Spec

\* The read of the commands in flight keeps a device from being sent the same
\* install twice, as long as requests do not overlap.
THEOREM NoDuplicates == ASSUME OneAtATime PROVE Spec => []NoDuplicateInstall
<1>1. SerialInv => NoDuplicateInstall
  BY DEF SerialInv
<1>2. QED  BY <1>1, SerialCorrect, PTL

\* The count before DELETE /patches/:id keeps the patch of every queued
\* install, as long as requests do not overlap.
THEOREM InstallsKeepPatch == ASSUME OneAtATime PROVE Spec => []InstallHasPatch
<1>1. SerialInv => InstallHasPatch
  BY DEF SerialInv
<1>2. QED  BY <1>1, SerialCorrect, PTL

\* A COMMAND_FAILED alert is about a command that failed and stays failed, as
\* long as requests do not overlap.
THEOREM AlertsMatch == ASSUME OneAtATime PROVE Spec => []AlertMatchesFailure
<1>1. SerialInv => AlertMatchesFailure
  BY DEF SerialInv
<1>2. QED  BY <1>1, SerialCorrect, PTL

-----------------------------------------------------------------------------
\* No statement of a handler that is alone changes a settled status: the
\* cancellation and the result transaction write to a command that is not.
LEMMA SettledStep ==
    ASSUME CommandsAssumption, TypeInv, SerialInv, [Next]_vars,
           NEW c \in Command, command[c].status \in Outcome
    PROVE  command'[c].status = command[c].status
<1>0. command[c] # NoRow
  BY DEF NoRow, Outcome
<1>1. ASSUME NEW s \in Slot, NEW d \in Device, NEW t \in IssuedTypes, CreateCommand(s, d, t)
      PROVE  command'[c] = command[c]
  <2>1. PICK place \in Placements({d}) :
          command' = [b \in Command |-> IF b \in DOMAIN place THEN QueuedRow(d, t, None)
                                        ELSE command[b]]
    BY <1>1 DEF CreateCommand
  <2>2. c \notin DOMAIN place
    BY <1>0, PlacementFacts DEF Fresh
  <2>3. QED  BY <2>1, <2>2
<1>2. ASSUME NEW s \in Slot, QueueRows(s) PROVE command'[c] = command[c]
  <2>1. PICK place \in Placements(request[s].targets) :
          command' = [b \in Command |->
                        IF b \in DOMAIN place
                        THEN QueuedRow(place[b], request[s].type, request[s].item)
                        ELSE command[b]]
    BY <1>2 DEF QueueRows
  <2>2. c \notin DOMAIN place
    BY <1>0, PlacementFacts DEF Fresh
  <2>3. QED  BY <2>1, <2>2
<1>3. ASSUME NEW s \in Slot, CancelWrite(s) PROVE command'[c] = command[c]
  BY <1>3 DEF CancelWrite, SerialInv, CheckHolds, Outcome, TypeInv, TypeOK
<1>4. ASSUME NEW s \in Slot, NEW p \in Patch, CancelPatch(s, p) PROVE command'[c] = command[c]
  BY <1>4 DEF CancelPatch, Outcome
<1>5. ASSUME NEW s \in Slot, ResultCommit(s) PROVE command'[c] = command[c]
  BY <1>5 DEF ResultCommit, SerialInv, CheckHolds, TypeInv, TypeOK
<1>6. ASSUME NEW s \in Slot,
             \/ \E k \in Command : CancelRead(s, k)
             \/ \E p \in Patch : CreatePatch(s, p)
             \/ \E p \in Patch, D \in SUBSET Device : DeployPatch(s, p, D)
             \/ \E p \in Patch : RetryPatch(s, p)
             \/ \E t \in SoftwareTypes, a \in Application, D \in SUBSET Device :
                  DeploySoftware(s, t, a, D)
             \/ \E p \in Patch : DeletePatchCheck(s, p)
             \/ ReadStates(s) \/ ReadActive(s) \/ TableFull(s) \/ DeletePatch(s)
      PROVE  command'[c] = command[c]
  BY <1>6 DEF CancelRead, CreatePatch, DeployPatch, RetryPatch, DeploySoftware,
              DeletePatchCheck, ReadStates, ReadActive, TableFull, DeletePatch, tables
<1>7. ASSUME NEW s \in Slot,
             \/ \E d \in Device, todo \in {{}, {"sync"}} : HeartbeatArrives(s, d, todo)
             \/ \E k \in delivered, o \in Outcome : ReportArrives(s, k, o)
             \/ \E reported \in SUBSET Patch : SyncPatches(s, reported)
             \/ HeartbeatAnswer(s) \/ ResultRead(s) \/ ResultReject(s)
             \/ RaiseAlert(s) \/ ResolveAlerts(s) \/ RequestFails(s)
      PROVE  command'[c] = command[c]
  BY <1>7 DEF HeartbeatArrives, ReportArrives, SyncPatches, HeartbeatAnswer, ResultRead,
              ResultReject, RaiseAlert, ResolveAlerts, RequestFails, tables
<1>8. CASE UNCHANGED vars
  BY <1>8 DEF vars
<1>9. QED
  BY <1>1, <1>2, <1>3, <1>4, <1>5, <1>6, <1>7, <1>8
     DEF Next, Console, ConsoleSteps, AgentRequests, AgentSteps

\* The early return for settled commands, and the 409 of the cancellation, keep
\* a COMPLETED or FAILED command as it is, as long as requests do not overlap.
THEOREM SettledStays == ASSUME OneAtATime PROVE Spec => TerminalIsFinal
<1>1. TypeInv /\ SerialInv /\ [Next]_vars =>
        [\A c \in Command : command[c].status \in Outcome
                            => command'[c].status = command[c].status]_vars
  BY CommandsAssumption, SettledStep
<1>2. Spec => []TypeInv
  <2>1. TypeInv /\ [Next]_vars => TypeInv'
    BY CommandsAssumption, TypeStep
  <2>2. QED  BY CommandsAssumption, TypeInit, <2>1, PTL DEF Spec
<1>3. QED  BY <1>1, <1>2, SerialCorrect, PTL DEF Spec, TerminalIsFinal

-----------------------------------------------------------------------------
(* The loop of the agents *)

\* A report in flight, from its arrival to the handling of its alerts.
ReportOps == {"report", "result", "raise", "recover"}

\* Where the loop of device d stands: it works on commands of its device that it
\* has been handed, and reports an outcome it produced.
LoopOK(d, a) ==
    /\ a.pc \in {"idle", "heartbeat"} => a.batch = {}
    /\ \A c \in a.batch : c \in delivered /\ command[c].device = d
    /\ a.pc \in {"report", "reporting"} =>
         /\ a.cmd \in delivered /\ a.cmd \notin a.batch
         /\ command[a.cmd].device = d
         /\ a.outcome \in ran[a.cmd]
    /\ a.pc \notin {"report", "reporting"} => a.cmd = None

\* The results it keeps are of that kind, too.
QueueOK(a, p) ==
    /\ \A i \in DOMAIN p : p[i].cmd \in delivered /\ p[i].outcome \in ran[p[i].cmd]
    /\ a.pc = "flushing" => p # <<>>

\* The request the loop awaits is the one it has sent.
ConnOK(d, a) ==
    a.conn # None =>
      \/ a.pc = "heartbeat" /\ request[a.conn].op = "heartbeat" /\ request[a.conn].device = d
      \/ a.pc = "flushing" /\ request[a.conn].op \in ReportOps
      \/ a.pc = "reporting" /\ request[a.conn].op \in ReportOps /\ request[a.conn].cmd = a.cmd

\* No two loops await the same request.
Alone == \A d, e \in Device : agent[d].conn # None /\ agent[d].conn = agent[e].conn => d = e

\* A report in flight tells an outcome the command produced.
ReportOK(r) ==
    /\ r.op \in ReportOps => r.cmd \in delivered /\ r.outcome \in ran[r.cmd]
    /\ r.op \in {"raise", "recover"} => command[r.cmd].status # "QUEUED"

ReportsOK == \A s \in Slot : ReportOK(request[s])

\* Only what has been handed out has run.  A command that has run, none of whose
\* reports failed, is about to be reported or queued no more.
Ended ==
    \A c \in Command : ran[c] # {} =>
      /\ c \in delivered
      /\ c \notin excused =>
           /\ \A d \in Device : c \notin agent[d].batch
           /\ command[c].status = "QUEUED" => \E d \in Device : agent[d].cmd = c

LoopTypes ==
    /\ agent \in [Device -> Loop] /\ pendingResults \in [Device -> Seq(Result)]
    /\ ran \in [Command -> SUBSET Outcome]

OneLoopOK(d) == /\ LoopOK(d, agent[d])
                /\ ConnOK(d, agent[d])
                /\ QueueOK(agent[d], pendingResults[d])

LoopInv ==
    /\ LoopTypes
    /\ \A d \in Device : OneLoopOK(d)
    /\ ReportsOK
    /\ Alone /\ Ended /\ FailureGenuine

DeliveryInv == TypeInv /\ LoopInv /\ (OneAtATime => SerialInv)

-----------------------------------------------------------------------------
(* What a step does to the rows *)

\* Commands that exist keep their device and their item, one that has left the
\* queue does not return to it; what was handed out or has run stays so.
Grows ==
    /\ delivered \subseteq delivered'
    /\ \A c \in Command : ran[c] \subseteq ran'[c]
    /\ \A c \in Command : command[c] # NoRow =>
         /\ command'[c] # NoRow
         /\ command'[c].device = command[c].device
         /\ command'[c].item = command[c].item
         /\ command'[c].status = "QUEUED" => command[c].status = "QUEUED"

\* The rows of S are queued.
Queueing(S) ==
    /\ \A c \in S : command[c] = NoRow /\ command'[c].status = "QUEUED" /\ command'[c] # NoRow
    /\ \A c \in Command \ S : command'[c] = command[c]
    /\ UNCHANGED <<devicePatch, delivered>>

\* The rows of S are cancelled, each because it is queued or was when a handler
\* read it.
Cancelling(S) ==
    /\ \A c \in S :
         /\ command[c] # NoRow
         /\ command'[c] = [command[c] EXCEPT !.status = "CANCELLED"]
         /\ \/ command[c].status = "QUEUED"
            \/ \E s \in Slot : request[s].op = "cancel" /\ request[s].cmd = c
    /\ \A c \in Command \ S : command'[c] = command[c]
    /\ UNCHANGED <<devicePatch, delivered>>

\* The commands stay as they are, and no device becomes listed as failed.
Keeping ==
    /\ UNCHANGED <<command, delivered>>
    /\ \A d \in Device, p \in Patch : devicePatch'[d][p] = "FAILED" => devicePatch[d][p] = "FAILED"

\* A step of the server queues rows, cancels rows, records a result, answers a
\* heartbeat or leaves the commands alone.
LEMMA RowKinds ==
    ASSUME CommandsAssumption, TypeInv, [Next]_vars
    PROVE  \/ \E S \in SUBSET Command : Queueing(S) \/ Cancelling(S)
           \/ \E s \in Slot : ResultCommit(s) \/ HeartbeatAnswer(s)
           \/ Keeping
<1> DEFINE Goal == \/ \E S \in SUBSET Command : Queueing(S) \/ Cancelling(S)
                   \/ \E s \in Slot : ResultCommit(s) \/ HeartbeatAnswer(s)
                   \/ Keeping
<1> HIDE DEF Goal
<1>0. command \in [Command -> Row]
  BY DEF TypeInv, TypeOK
<1>1. ASSUME NEW s \in Slot, NEW d \in Device, NEW t \in IssuedTypes, CreateCommand(s, d, t)
      PROVE  Goal
  <2>1. PICK place \in Placements({d}) :
          command' = [b \in Command |-> IF b \in DOMAIN place THEN QueuedRow(d, t, None)
                                        ELSE command[b]]
    BY <1>1 DEF CreateCommand
  <2>2. PICK S : S = DOMAIN place
    OBVIOUS
  <2>3. S \subseteq Command /\ \A c \in S : command[c] = NoRow
    BY <2>1, <2>2, PlacementFacts DEF Fresh
  <2>4. Queueing(S)
    BY <1>1, <2>1, <2>2, <2>3 DEF Queueing, CreateCommand, QueuedRow, NoRow
  <2>5. QED  BY <2>3, <2>4 DEF Goal
<1>2. ASSUME NEW s \in Slot, QueueRows(s) PROVE Goal
  <2>1. PICK place \in Placements(request[s].targets) :
          command' = [b \in Command |->
                        IF b \in DOMAIN place
                        THEN QueuedRow(place[b], request[s].type, request[s].item)
                        ELSE command[b]]
    BY <1>2 DEF QueueRows
  <2>2. PICK S : S = DOMAIN place
    OBVIOUS
  <2>3. S \subseteq Command /\ \A c \in S : command[c] = NoRow
    BY <2>1, <2>2, PlacementFacts DEF Fresh
  <2>4. Queueing(S)
    BY <1>2, <2>1, <2>2, <2>3 DEF Queueing, QueueRows, QueuedRow, NoRow
  <2>5. QED  BY <2>3, <2>4 DEF Goal
<1>3. ASSUME NEW s \in Slot, CancelWrite(s) PROVE Goal
  <2>1. PICK k : k = request[s].cmd
    OBVIOUS
  <2>2. k \in Command /\ command[k] # NoRow /\ request[s].op = "cancel"
    BY <1>3, <2>1 DEF CancelWrite, TypeInv, RequestOK, HandlerOK
  <2>3. command' = [command EXCEPT ![k].status = "CANCELLED"]
    BY <1>3, <2>1 DEF CancelWrite
  <2>4. Cancelling({k})
    BY <1>0, <1>3, <2>1, <2>2, <2>3 DEF Cancelling, CancelWrite
  <2>5. QED  BY <2>2, <2>4 DEF Goal
<1>4. ASSUME NEW s \in Slot, NEW p \in Patch, CancelPatch(s, p) PROVE Goal
  <2>1. PICK S \in SUBSET Command :
          S = {c \in Command : command[c].item = p /\ command[c].status = "QUEUED"}
    OBVIOUS
  <2>2. \A c \in S : command[c] # NoRow
    BY <2>1 DEF NoRow
  <2>3. Cancelling(S)
    BY <1>4, <2>1, <2>2 DEF Cancelling, CancelPatch
  <2>4. QED  BY <2>3 DEF Goal
<1>5. ASSUME NEW s \in Slot, ResultCommit(s) \/ HeartbeatAnswer(s) PROVE Goal
  BY <1>5 DEF Goal
<1>6. ASSUME NEW s \in Slot,
             \/ \E k \in Command : CancelRead(s, k)
             \/ \E p \in Patch : CreatePatch(s, p)
             \/ \E p \in Patch, D \in SUBSET Device : DeployPatch(s, p, D)
             \/ \E p \in Patch : RetryPatch(s, p)
             \/ \E t \in SoftwareTypes, a \in Application, D \in SUBSET Device :
                  DeploySoftware(s, t, a, D)
             \/ \E p \in Patch : DeletePatchCheck(s, p)
             \/ ReadStates(s) \/ ReadActive(s) \/ TableFull(s)
      PROVE  Goal
  BY <1>6 DEF Goal, Keeping, CancelRead, CreatePatch, DeployPatch, RetryPatch, DeploySoftware,
              DeletePatchCheck, ReadStates, ReadActive, TableFull, tables
<1>7. ASSUME NEW s \in Slot,
             \/ \E d \in Device, todo \in {{}, {"sync"}} : HeartbeatArrives(s, d, todo)
             \/ \E k \in delivered, o \in Outcome : ReportArrives(s, k, o)
             \/ ResultRead(s) \/ ResultReject(s)
             \/ RaiseAlert(s) \/ ResolveAlerts(s) \/ RequestFails(s)
      PROVE  Goal
  BY <1>7 DEF Goal, Keeping, HeartbeatArrives, ReportArrives, ResultRead,
              ResultReject, RaiseAlert, ResolveAlerts, RequestFails, tables
<1>8. ASSUME NEW s \in Slot, DeletePatch(s) PROVE Goal
  <2>1. devicePatch \in [Device -> [Patch -> {"NONE", "MISSING", "INSTALLED", "FAILED"}]]
    BY DEF TypeInv, TypeOK
  <2>2. \A d \in Device, q \in Patch : devicePatch'[d][q] = "FAILED" => devicePatch[d][q] = "FAILED"
    BY <1>8, <2>1 DEF DeletePatch
  <2>3. QED  BY <1>8, <2>2 DEF Goal, Keeping, DeletePatch
<1>9. ASSUME NEW s \in Slot, NEW reported \in SUBSET Patch, SyncPatches(s, reported) PROVE Goal
  <2>1. devicePatch \in [Device -> [Patch -> {"NONE", "MISSING", "INSTALLED", "FAILED"}]]
    BY DEF TypeInv, TypeOK
  <2>2. PICK e : e = request[s].device
    OBVIOUS
  <2>3. ASSUME NEW d \in Device, NEW q \in Patch
        PROVE  devicePatch'[d][q] = "FAILED" => devicePatch[d][q] = "FAILED"
    <3>1. CASE d # e
      BY <1>9, <2>1, <2>2, <3>1 DEF SyncPatches
    <3>2. CASE d = e
      <4>1. devicePatch'[d] =
              [p \in Patch |-> CASE p \in reported -> "INSTALLED"
                 [] p \notin reported /\ devicePatch[d][p] = "INSTALLED" -> "MISSING"
                 [] OTHER -> devicePatch[d][p]]
        BY <1>9, <2>1, <2>2, <3>2 DEF SyncPatches
      <4>2. QED  BY <4>1
    <3>3. QED  BY <3>1, <3>2
  <2>4. QED  BY <1>9, <2>3 DEF Goal, Keeping, SyncPatches
<1>10. ASSUME UNCHANGED vars PROVE Goal
  BY <1>10 DEF Goal, Keeping, vars
<1>11. ASSUME NEW s \in Slot, Console(s) \/ ConsoleSteps(s) PROVE Goal
  BY <1>1, <1>2, <1>3, <1>4, <1>6, <1>8, <1>11 DEF Console, ConsoleSteps
<1>12. ASSUME NEW s \in Slot, AgentRequests(s) \/ AgentSteps(s) \/ RequestFails(s) PROVE Goal
  BY <1>5, <1>7, <1>9, <1>12 DEF AgentRequests, AgentSteps
<1>13. Goal
  BY <1>10, <1>11, <1>12 DEF Next
<1>14. QED  BY <1>13 DEF Goal

\* A request in flight has a command that exists and an outcome to report.
LEMMA HandlerFacts ==
    ASSUME TypeInv, NEW s \in Slot, request[s].op \in {"cancel", "report", "result", "raise", "recover"}
    PROVE  /\ request[s].cmd \in Command /\ command[request[s].cmd] # NoRow
           /\ request[s].op # "cancel" => request[s].outcome \in Outcome
  BY DEF TypeInv, RequestOK, HandlerOK

\* What the transaction of a result writes.
LEMMA CommitFacts ==
    ASSUME CommandsAssumption, TypeInv, NEW s \in Slot, ResultCommit(s),
           NEW k \in Command, k = request[s].cmd, NEW o \in Outcome, o = request[s].outcome
    PROVE  /\ command[k] # NoRow
           /\ \A c \in Command : c # k => command'[c] = command[c]
           /\ command'[k].status = o /\ command'[k] # NoRow
           /\ command'[k].device = command[k].device
           /\ command'[k].item = command[k].item
           /\ delivered' = delivered
<1>1. command[k] # NoRow /\ o \in {"QUEUED", "CANCELLED"} \cup Outcome
  BY HandlerFacts DEF ResultCommit
<1>2. command' = [command EXCEPT ![k] = [command[k] EXCEPT !.status = o]] /\ command \in [Command -> Row]
  BY DEF ResultCommit, TypeInv, TypeOK
<1>3. PICK r \in Row : r = command[k]
  BY <1>2
<1>4. PICK q : q = [r EXCEPT !.status = o]
  OBVIOUS
<1>5. q \in Row \ {NoRow} /\ q.status = o /\ q.device = r.device /\ q.item = r.item
  BY <1>1, <1>3, <1>4, StatusRow
<1>6. command' = [command EXCEPT ![k] = q]
  BY <1>2, <1>3, <1>4
<1>7. delivered' = delivered
  BY DEF ResultCommit
<1>8. QED  BY <1>1, <1>2, <1>3, <1>5, <1>6, <1>7

\* A cancelled row.
LEMMA CancelFacts ==
    ASSUME CommandsAssumption, TypeInv, NEW S \in SUBSET Command, Cancelling(S), NEW c \in S
    PROVE  /\ command'[c] # NoRow /\ command'[c].status = "CANCELLED"
           /\ command'[c].device = command[c].device
           /\ command'[c].item = command[c].item
<1>1. command[c] \in Row /\ command[c] # NoRow
  BY DEF TypeInv, TypeOK, Cancelling
<1>2. command'[c] = [command[c] EXCEPT !.status = "CANCELLED"]
  BY DEF Cancelling
<1>3. QED  BY <1>1, <1>2, StatusRow

LEMMA GrowsStep ==
    ASSUME CommandsAssumption, TypeInv, [Next]_vars, \A c \in Command : ran[c] \subseteq ran'[c]
    PROVE  Grows
<1>1. CASE \E S \in SUBSET Command : Queueing(S)
  BY <1>1 DEF Queueing, Grows
<1>2. CASE \E S \in SUBSET Command : Cancelling(S)
  <2>1. PICK S \in SUBSET Command : Cancelling(S)
    BY <1>2
  <2>2. \A c \in S : /\ command'[c] # NoRow /\ command'[c].status = "CANCELLED"
                     /\ command'[c].device = command[c].device
                     /\ command'[c].item = command[c].item
    BY <2>1, CancelFacts
  <2>3. \A c \in Command \ S : command'[c] = command[c]
    BY <2>1 DEF Cancelling
  <2>4. delivered' = delivered
    BY <2>1 DEF Cancelling
  <2>5. QED  BY <2>2, <2>3, <2>4 DEF Grows
<1>3. CASE \E s \in Slot : ResultCommit(s)
  <2>1. PICK s \in Slot : ResultCommit(s)
    BY <1>3
  <2>2. PICK k \in Command, o \in Outcome : k = request[s].cmd /\ o = request[s].outcome
    BY <2>1, HandlerFacts DEF ResultCommit
  <2>3. /\ command[k] # NoRow
        /\ \A c \in Command : c # k => command'[c] = command[c]
        /\ command'[k].status = o /\ command'[k] # NoRow
        /\ command'[k].device = command[k].device
        /\ command'[k].item = command[k].item
        /\ delivered' = delivered
    BY <2>1, <2>2, CommitFacts
  <2>4. QED  BY <2>3 DEF Grows, Outcome
<1>4. CASE \E s \in Slot : HeartbeatAnswer(s)
  BY <1>4 DEF HeartbeatAnswer, tables, Grows
<1>5. CASE Keeping
  BY <1>5 DEF Keeping, Grows
<1>6. QED  BY <1>1, <1>2, <1>3, <1>4, <1>5, RowKinds

-----------------------------------------------------------------------------
(* The loop's steps, as the command tables see them *)

\* A failed report's agent keeps what it ran.
LEMMA ErrorRan == ASSUME NEW d, NEW b, Error(d, b) PROVE ran' = ran
  BY DEF Error, FlushError, ReportError, HeartbeatError

LEMMA ReportOkRan == ASSUME NEW d, ReportOk(d) PROVE ran' = ran
  BY DEF ReportOk

\* The oldest of the results an agent keeps.
LEMMA HeadFacts ==
    ASSUME LoopInv, NEW d \in Device, pendingResults[d] # <<>>
    PROVE  /\ Head(pendingResults[d]).cmd \in delivered
           /\ Head(pendingResults[d]).cmd \in Command
           /\ Head(pendingResults[d]).outcome \in Outcome
           /\ Head(pendingResults[d]).outcome \in ran[Head(pendingResults[d]).cmd]
<1>1. PICK q \in Seq(Result) : q = pendingResults[d]
  BY DEF LoopInv, LoopTypes
<1>2. Head(q) = q[1] /\ 1 \in DOMAIN q /\ q[1] \in Result
  BY <1>1
<1>3. q[1].cmd \in delivered /\ q[1].outcome \in ran[q[1].cmd]
  BY <1>1, <1>2 DEF LoopInv, OneLoopOK, QueueOK
<1>4. QED  BY <1>1, <1>2, <1>3 DEF Result

\* Every step of the composition is one the command tables allow: an agent
\* reports only what it has been handed.
LEMMA TablesStep ==
    ASSUME DeliveryAssumption, DeliveryInv, [DeliveryNext]_allVars
    PROVE  [Next]_vars
<1>1. ASSUME NEW s \in Slot, Console(s) \/ ConsoleSteps(s) \/ AgentSteps(s) \/ RequestFails(s)
      PROVE  [Next]_vars
  BY <1>1 DEF Next
<1>2. ASSUME NEW d \in Device, AgentNext(d) PROVE [Next]_vars
  <2>1. ASSUME NEW s \in Slot, SendHeartbeat(d, s) PROVE [Next]_vars
    BY <2>1 DEF SendHeartbeat, Next, AgentRequests
  <2>2. ASSUME NEW s \in Slot, SendFlush(d, s) PROVE [Next]_vars
    <3>1. PICK c, o : /\ c = Head(pendingResults[d]).cmd /\ o = Head(pendingResults[d]).outcome
                      /\ pendingResults[d] # <<>> /\ ReportArrives(s, c, o)
      BY <2>2 DEF SendFlush
    <3>2. c \in delivered /\ o \in Outcome
      BY <3>1, HeadFacts DEF DeliveryInv
    <3>3. QED  BY <3>1, <3>2 DEF Next, AgentRequests
  <2>3. ASSUME NEW s \in Slot, SendReport(d, s) PROVE [Next]_vars
    <3>1. PICK c, o : c = agent[d].cmd /\ o = agent[d].outcome /\ ReportArrives(s, c, o)
      BY <2>3 DEF SendReport
    <3>2. c \in delivered /\ o \in ran[c]
      BY <2>3, <3>1 DEF SendReport, DeliveryInv, LoopInv, OneLoopOK, LoopOK
    <3>3. o \in Outcome
      BY <3>2 DEF DeliveryInv, LoopInv, LoopTypes, TypeInv, TypeOK
    <3>4. QED  BY <3>1, <3>2, <3>3 DEF Next, AgentRequests
  <2>4. FlushDone(d) \/ Execute(d) \/ LoopDone(d) => UNCHANGED vars
    BY DEF FlushDone, Execute, LoopDone
  <2>5. QED  BY <1>2, <2>1, <2>2, <2>3, <2>4 DEF AgentNext
<1>3. ASSUME NEW s \in Slot, ServerNext(s) PROVE [Next]_vars
  BY <1>1, <1>3 DEF ServerNext, HeartbeatAnswered, ReportAnswered, ReportRejected, AgentSteps
<1>4. ASSUME FaultNext PROVE [Next]_vars
  BY <1>1, <1>4 DEF FaultNext, HandlerFails, AlertFails, Timeout, Restart
<1>5. QED  BY <1>1, <1>2, <1>3, <1>4 DEF DeliveryNext, allVars

-----------------------------------------------------------------------------
(* What a step does to the requests *)

\* The server goes on with a request of an agent without answering it.
Goes(r, q) ==
    \/ r.op = "heartbeat" /\ q.op = "heartbeat" /\ q.device = r.device
    \/ /\ r.op \in ReportOps /\ q.op \in ReportOps
       /\ q.cmd = r.cmd /\ q.outcome = r.outcome
       /\ q.op \in {"raise", "recover"} => command'[r.cmd].status # "QUEUED"

AgentOps == ReportOps \cup {"heartbeat"}

Elsewhere(s) == \A t \in Slot : t # s => request'[t] = request[t]

\* The handler in slot s does a step, answers no agent and takes no request of one.
Serves(s) ==
    /\ Elsewhere(s)
    /\ \/ request[s].op \notin AgentOps /\ request'[s].op \notin AgentOps
       \/ Goes(request[s], request'[s])

\* The handler in slot s is done.
Ends(s) == Elsewhere(s) /\ request'[s] = Idle

LEMMA FinishEnds ==
    ASSUME TypeInv, NEW s \in Slot, Finish(s)
    PROVE  Ends(s)
  BY DEF Finish, Ends, Elsewhere, TypeInv, TypeOK

LEMMA BeginOther ==
    ASSUME TypeInv, NEW s \in Slot, NEW r, Begin(s, r), r.op \notin AgentOps
    PROVE  Serves(s)
<1>1. request' = [request EXCEPT ![s] = r] /\ request[s] = Idle /\ request \in [Slot -> Request]
  BY DEF Begin, TypeInv, TypeOK
<1>2. Idle.op \notin AgentOps
  BY DEF Idle, AgentOps, ReportOps
<1>3. QED  BY <1>1, <1>2 DEF Serves, Elsewhere

\* The admins' handlers neither answer the agents nor stand for one.
LEMMA ConsoleServes ==
    ASSUME TypeInv, NEW s \in Slot, Console(s) \/ ConsoleSteps(s)
    PROVE  Serves(s)
<1>1. Idle.op \notin AgentOps
  BY DEF Idle, AgentOps, ReportOps
<1>2. ASSUME request[s] = Idle, UNCHANGED request PROVE Serves(s)
  BY <1>1, <1>2 DEF Serves, Elsewhere
<1>3. ASSUME NEW op \in {"cancel", "queue", "delete"}, NEW r, r.op = op, Begin(s, r)
      PROVE  Serves(s)
  BY <1>3, BeginOther DEF AgentOps, ReportOps
<1>4. ASSUME Finish(s), request[s].op \notin AgentOps PROVE Serves(s)
  BY <1>1, <1>4, FinishEnds DEF Ends, Serves
<1>5. ASSUME NEW c, CancelRead(s, c) PROVE Serves(s)
  <2>1. [Idle EXCEPT !.op = "cancel", !.cmd = c].op = "cancel"
    BY DEF Idle
  <2>2. QED  BY <1>3, <1>5, <2>1 DEF CancelRead
<1>6. ASSUME NEW p, NEW D, DeployPatch(s, p, D) PROVE Serves(s)
  <2>1. [Idle EXCEPT !.op = "queue", !.type = "INSTALL_PATCH", !.item = p,
                     !.targets = D, !.todo = {"states", "active"}].op = "queue"
    BY DEF Idle
  <2>2. QED  BY <1>3, <1>6, <2>1 DEF DeployPatch
<1>7. ASSUME NEW p, RetryPatch(s, p) PROVE Serves(s)
  <2>1. PICK D : D = {d \in Device : devicePatch[d][p] = "FAILED"}
    OBVIOUS
  <2>2. [Idle EXCEPT !.op = "queue", !.type = "INSTALL_PATCH", !.item = p,
                     !.targets = D, !.todo = {"active"}].op = "queue"
    BY DEF Idle
  <2>3. QED  BY <1>3, <1>7, <2>1, <2>2 DEF RetryPatch
<1>8. ASSUME NEW t, NEW a, NEW D, DeploySoftware(s, t, a, D) PROVE Serves(s)
  <2>1. [Idle EXCEPT !.op = "queue", !.type = t, !.item = a,
                     !.targets = D, !.todo = {"active"}].op = "queue"
    BY DEF Idle
  <2>2. QED  BY <1>3, <1>8, <2>1 DEF DeploySoftware
<1>9. ASSUME NEW p, DeletePatchCheck(s, p) PROVE Serves(s)
  <2>1. [Idle EXCEPT !.op = "delete", !.item = p].op = "delete"
    BY DEF Idle
  <2>2. QED  BY <1>3, <1>9, <2>1 DEF DeletePatchCheck
<1>10. ASSUME NEW d, NEW t, CreateCommand(s, d, t) PROVE Serves(s)
  BY <1>2, <1>10 DEF CreateCommand
<1>11. ASSUME NEW p, CreatePatch(s, p) \/ CancelPatch(s, p) PROVE Serves(s)
  BY <1>2, <1>11 DEF CreatePatch, CancelPatch
<1>12. ASSUME CancelWrite(s) \/ QueueRows(s) \/ TableFull(s) \/ DeletePatch(s) PROVE Serves(s)
  BY <1>4, <1>12 DEF CancelWrite, QueueRows, TableFull, DeletePatch, AgentOps, ReportOps
<1>13. ASSUME ReadStates(s) \/ ReadActive(s) PROVE Serves(s)
  <2>1. request[s].op = "queue" /\ request \in [Slot -> Request] /\ request[s] \in Request
    BY <1>13 DEF ReadStates, ReadActive, TypeInv, TypeOK, RequestOK, HandlerOK
  <2>2. PICK T, D : request' = [request EXCEPT ![s].todo = T, ![s].targets = D]
    <3>1. ASSUME ReadStates(s)
          PROVE  request' = [request EXCEPT ![s].todo = @ \ {"states"},
                   ![s].targets = @ \ {d \in request[s].targets :
                                         devicePatch[d][request[s].item] = "INSTALLED"}]
      BY <3>1 DEF ReadStates
    <3>2. ASSUME ReadActive(s)
          PROVE  request' = [request EXCEPT ![s].todo = @ \ {"active"},
                   ![s].targets = @ \ InFlight(request[s].type, request[s].item)]
      BY <3>2 DEF ReadActive
    <3>3. QED  BY <1>13, <2>1, <3>1, <3>2 DEF Request
  <2>3. Elsewhere(s) /\ request'[s].op = "queue"
    BY <2>1, <2>2 DEF Elsewhere, Request
  <2>4. QED  BY <2>1, <2>3 DEF Serves, AgentOps, ReportOps
<1>14. QED
  BY <1>5, <1>6, <1>7, <1>8, <1>9, <1>10, <1>11, <1>12, <1>13 DEF Console, ConsoleSteps

\* The steps of a heartbeat or a report that do not answer it.
LEMMA AgentServes ==
    ASSUME CommandsAssumption, TypeInv, NEW s \in Slot,
           \/ \E reported \in SUBSET Patch : SyncPatches(s, reported)
           \/ ResultCommit(s)
           \/ ResultRead(s) /\ request'[s] # Idle
    PROVE  Serves(s)
<1>0. request \in [Slot -> Request] /\ request[s] \in Request
  BY DEF TypeInv, TypeOK
<1>1. ASSUME NEW reported \in SUBSET Patch, SyncPatches(s, reported) PROVE Serves(s)
  <2>1. request[s].op = "heartbeat" /\ request' = [request EXCEPT ![s].todo = {}]
    BY <1>1 DEF SyncPatches, TypeInv, RequestOK, HandlerOK
  <2>2. request'[s].op = "heartbeat" /\ request'[s].device = request[s].device
    BY <1>0, <2>1 DEF Request
  <2>3. QED  BY <1>0, <2>1, <2>2 DEF Serves, Elsewhere, Goes
<1>2. ASSUME NEW op \in ReportOps, request' = [request EXCEPT ![s].op = op],
             request[s].op \in ReportOps,
             op \in {"raise", "recover"} => command'[request[s].cmd].status # "QUEUED"
      PROVE  Serves(s)
  <2>1. /\ request'[s].op = op /\ request'[s].cmd = request[s].cmd
        /\ request'[s].outcome = request[s].outcome
    BY <1>0, <1>2 DEF Request
  <2>2. Elsewhere(s)
    BY <1>0, <1>2 DEF Elsewhere
  <2>3. QED  BY <1>2, <2>1, <2>2 DEF Serves, Goes
<1>3. ASSUME ResultRead(s), request'[s] # Idle PROVE Serves(s)
  <2>1. ~Finish(s)
    BY <1>3, FinishEnds DEF Ends
  <2>2. request' = [request EXCEPT ![s].op = "result"] /\ request[s].op = "report"
    BY <1>3, <2>1 DEF ResultRead
  <2>3. QED  BY <1>2, <2>2 DEF ReportOps
<1>4. ASSUME ResultCommit(s) PROVE Serves(s)
  <2>1. PICK k \in Command, o \in Outcome : k = request[s].cmd /\ o = request[s].outcome
    BY <1>4, HandlerFacts DEF ResultCommit
  <2>2. command'[k].status # "QUEUED"
    BY <1>4, <2>1, CommitFacts DEF Outcome
  <2>3. PICK op \in ReportOps : request' = [request EXCEPT ![s].op = op]
    BY <1>4 DEF ResultCommit, ReportOps
  <2>4. request[s].op \in ReportOps
    BY <1>4 DEF ResultCommit, ReportOps
  <2>5. QED  BY <1>2, <2>1, <2>2, <2>3, <2>4
<1>5. QED  BY <1>1, <1>3, <1>4

\* The steps that answer it.
LEMMA AgentEnds ==
    ASSUME TypeInv, NEW s \in Slot,
           \/ HeartbeatAnswer(s) \/ ResultReject(s) \/ RaiseAlert(s) \/ ResolveAlerts(s)
           \/ RequestFails(s)
           \/ ResultRead(s) /\ request'[s] = Idle
    PROVE  Ends(s)
<1>1. ASSUME ResultRead(s), request'[s] = Idle PROVE Ends(s)
  <2>1. PICK r : request' = [request EXCEPT ![s] = r]
    BY <1>1 DEF ResultRead, Finish
  <2>2. QED  BY <1>1, <2>1 DEF Ends, Elsewhere, TypeInv, TypeOK
<1>2. QED
  BY <1>1, FinishEnds
     DEF HeartbeatAnswer, ResultReject, RaiseAlert, ResolveAlerts, RequestFails

-----------------------------------------------------------------------------
(* What the loops rely on stays *)

LEMMA LoopKept ==
    ASSUME TypeInv, Grows, NEW d \in Device, NEW a, LoopOK(d, a)
    PROVE  LoopOK(d, a)'
<1>1. \A c \in delivered : /\ c \in Command /\ c \in delivered'
                           /\ command'[c].device = command[c].device
                           /\ ran[c] \subseteq ran'[c]
  BY DEF TypeInv, TypeOK, DeliveredIssued, Grows
<1>2. QED  BY <1>1 DEF LoopOK

LEMMA QueueKept ==
    ASSUME TypeInv, Grows, NEW a, NEW p, QueueOK(a, p)
    PROVE  QueueOK(a, p)'
<1>1. \A c \in delivered : c \in delivered' /\ ran[c] \subseteq ran'[c]
  BY DEF TypeInv, TypeOK, Grows
<1>2. QED  BY <1>1 DEF QueueOK

LEMMA ReportKept ==
    ASSUME TypeInv, Grows, NEW r, ReportOK(r)
    PROVE  ReportOK(r)'
<1>1. \A c \in delivered : /\ c \in delivered' /\ ran[c] \subseteq ran'[c]
                           /\ command'[c].status = "QUEUED" => command[c].status = "QUEUED"
  BY DEF TypeInv, TypeOK, DeliveredIssued, Grows
<1>2. QED  BY <1>1 DEF ReportOK, ReportOps

\* A report the server goes on with.
LEMMA ReportGoes ==
    ASSUME TypeInv, Grows, NEW r, NEW q, ReportOK(r), Goes(r, q)
    PROVE  ReportOK(q)'
<1>1. \A c \in delivered : c \in delivered' /\ ran[c] \subseteq ran'[c]
  BY DEF TypeInv, TypeOK, Grows
<1>2. CASE r.op = "heartbeat" /\ q.op = "heartbeat"
  BY <1>2 DEF ReportOK, ReportOps
<1>3. CASE /\ r.op \in ReportOps /\ q.op \in ReportOps
           /\ q.cmd = r.cmd /\ q.outcome = r.outcome
           /\ q.op \in {"raise", "recover"} => command'[r.cmd].status # "QUEUED"
  BY <1>1, <1>3 DEF ReportOK
<1>4. QED  BY <1>2, <1>3 DEF Goes

\* The other requests in flight are as they were.
LEMMA OtherReports ==
    ASSUME TypeInv, Grows, ReportsOK, NEW s \in Slot, Elsewhere(s), ReportOK(request[s])'
    PROVE  ReportsOK'
<1>1. ASSUME NEW t \in Slot, t # s PROVE ReportOK(request[t])'
  <2>1. PICK r : r = request[t] /\ request'[t] = r
    BY <1>1 DEF Elsewhere
  <2>2. ReportOK(r)'
    BY <2>1, ReportKept DEF ReportsOK
  <2>3. QED  BY <2>1, <2>2 DEF ReportOK
<1>2. QED  BY <1>1 DEF ReportsOK

LEMMA ReportsServe ==
    ASSUME TypeInv, Grows, ReportsOK, NEW s \in Slot, Serves(s) \/ Ends(s)
    PROVE  ReportsOK'
<1>1. PICK q : q = request'[s]
  OBVIOUS
<1>2. ReportOK(q)'
  <2>1. CASE q.op \notin AgentOps
    BY <2>1 DEF ReportOK, AgentOps, ReportOps
  <2>2. CASE Goes(request[s], q)
    BY <2>2, ReportGoes DEF ReportsOK
  <2>3. Ends(s) => q.op \notin AgentOps
    BY <1>1 DEF Ends, Idle, AgentOps, ReportOps
  <2>4. QED  BY <1>1, <2>1, <2>2, <2>3 DEF Serves
<1>3. ReportOK(request[s])'
  BY <1>1, <1>2 DEF ReportOK
<1>4. QED  BY <1>3, OtherReports DEF Serves, Ends

\* A device becomes listed as failed by a report of a failure it produced.
LEMMA FailureStep ==
    ASSUME CommandsAssumption, TypeInv, LoopInv, Grows, [Next]_vars
    PROVE  FailureGenuine'
<1> SUFFICES ASSUME NEW d \in Device, NEW p \in Patch, devicePatch'[d][p] = "FAILED"
             PROVE  \E c \in Command : /\ command'[c].device = d
                                       /\ command'[c].item = p
                                       /\ "FAILED" \in ran'[c]
  BY DEF FailureGenuine
<1>1. CASE devicePatch[d][p] = "FAILED"
  <2>1. PICK c \in Command : command[c].device = d /\ command[c].item = p /\ "FAILED" \in ran[c]
    BY <1>1 DEF LoopInv, FailureGenuine
  <2>2. command[c] # NoRow
    BY <2>1 DEF NoRow, CommandsAssumption
  <2>3. QED  BY <2>1, <2>2 DEF Grows
<1>2. CASE devicePatch[d][p] # "FAILED"
  <2>1. PICK s \in Slot : ResultCommit(s)
    BY <1>2, RowKinds DEF Queueing, Cancelling, Keeping, HeartbeatAnswer, tables
  <2>2. PICK k \in Command, o \in Outcome : k = request[s].cmd /\ o = request[s].outcome
    BY <2>1, HandlerFacts DEF ResultCommit
  <2>3. devicePatch' = IF command[k].type = "INSTALL_PATCH" /\ command[k].item \in Patch
                       THEN [devicePatch EXCEPT ![command[k].device][command[k].item] =
                               IF o = "COMPLETED" THEN "INSTALLED" ELSE "FAILED"]
                       ELSE devicePatch
    BY <2>1, <2>2 DEF ResultCommit
  <2>4. devicePatch \in [Device -> [Patch -> {"NONE", "MISSING", "INSTALLED", "FAILED"}]]
    BY DEF TypeInv, TypeOK
  <2>5. PICK e, i : e = command[k].device /\ i = command[k].item
    OBVIOUS
  <2>6. e = d /\ i = p /\ o = "FAILED"
    <3>1. devicePatch' = [devicePatch EXCEPT ![e] = [devicePatch[e] EXCEPT ![i] =
                            IF o = "COMPLETED" THEN "INSTALLED" ELSE "FAILED"]]
      BY <1>2, <2>3, <2>5
    <3>2. e = d
      BY <1>2, <2>4, <3>1
    <3>3. devicePatch'[d] = [devicePatch[d] EXCEPT ![i] = IF o = "COMPLETED" THEN "INSTALLED" ELSE "FAILED"]
      BY <2>4, <3>1, <3>2
    <3>4. i = p
      BY <1>2, <2>4, <3>3
    <3>5. o # "COMPLETED"
      BY <2>4, <3>3, <3>4
    <3>6. QED  BY <3>2, <3>4, <3>5 DEF Outcome
  <2>7. o \in ran[k]
    BY <2>1, <2>2 DEF ResultCommit, LoopInv, ReportsOK, ReportOK, ReportOps
  <2>8. command'[k].device = d /\ command'[k].item = p
    BY <2>1, <2>2, <2>5, <2>6, CommitFacts
  <2>9. QED  BY <2>6, <2>7, <2>8 DEF Grows
<1>3. QED  BY <1>1, <1>2

-----------------------------------------------------------------------------
(* Steps that leave a loop alone *)

\* A loop that does nothing, while the request it awaits goes on.
LEMMA OtherLoop ==
    ASSUME TypeInv, Grows, NEW d \in Device, OneLoopOK(d),
           agent'[d] = agent[d], pendingResults'[d] = pendingResults[d],
           agent[d].conn # None =>
             \/ request'[agent[d].conn] = request[agent[d].conn]
             \/ Goes(request[agent[d].conn], request'[agent[d].conn])
    PROVE  OneLoopOK(d)'
<1>1. PICK a, p : /\ a = agent[d] /\ a = agent'[d]
                  /\ p = pendingResults[d] /\ p = pendingResults'[d]
  OBVIOUS
<1>2. LoopOK(d, a)'
  BY <1>1, LoopKept DEF OneLoopOK
<1>3. QueueOK(a, p)'
  BY <1>1, QueueKept DEF OneLoopOK
<1>4. ConnOK(d, a)'
  BY <1>1 DEF OneLoopOK, ConnOK, Goes, ReportOps
<1>5. QED  BY <1>1, <1>2, <1>3, <1>4 DEF OneLoopOK, LoopOK, QueueOK, ConnOK

\* Nothing has run anew, and a command whose result is no longer on its way to
\* the server has been settled or its report has failed.
LEMMA EndedKept ==
    ASSUME TypeInv, LoopInv, Grows, ran' = ran, excused \subseteq excused',
           \A d \in Device, c \in Command :
             c \in agent'[d].batch => ran[c] = {} \/ c \in excused \/ c \in agent[d].batch,
           \A d \in Device : \/ agent'[d].cmd = agent[d].cmd
                             \/ agent[d].cmd = None
                             \/ agent[d].cmd \in excused'
                             \/ command'[agent[d].cmd].status # "QUEUED"
    PROVE  Ended'
<1> SUFFICES ASSUME NEW c \in Command, ran'[c] # {}
             PROVE  /\ c \in delivered'
                    /\ c \notin excused' =>
                         /\ \A d \in Device : c \notin agent'[d].batch
                         /\ command'[c].status = "QUEUED" => \E d \in Device : agent'[d].cmd = c
  BY DEF Ended
<1>1. /\ c \in delivered
      /\ c \notin excused =>
           /\ \A d \in Device : c \notin agent[d].batch
           /\ command[c].status = "QUEUED" => \E d \in Device : agent[d].cmd = c
  BY DEF LoopInv, Ended
<1>2. c \in delivered' /\ (command'[c].status = "QUEUED" => command[c].status = "QUEUED")
  BY <1>1 DEF Grows, TypeInv, DeliveredIssued
<1>3. ASSUME c \notin excused' PROVE \A d \in Device : c \notin agent'[d].batch
  BY <1>1, <1>3
<1>4. ASSUME c \notin excused', command'[c].status = "QUEUED" PROVE \E d \in Device : agent'[d].cmd = c
  <2>1. PICK d \in Device : agent[d].cmd = c
    BY <1>1, <1>2, <1>4
  <2>2. c # None
    BY DeliveryAssumption
  <2>3. QED  BY <1>4, <2>1, <2>2
<1>5. QED  BY <1>2, <1>3, <1>4

\* The server does a step that answers no agent.
LEMMA ServerStep ==
    ASSUME TypeInv, LoopInv, Grows, FailureGenuine', UNCHANGED agentVars,
           NEW s \in Slot, Serves(s) \/ (Ends(s) /\ Abandoned(s))
    PROVE  LoopInv'
<1>1. UNCHANGED <<agent, pendingResults, ran, excused>>
  BY DEF agentVars
<1>2. LoopTypes' /\ Alone'
  BY <1>1 DEF LoopInv, LoopTypes, Alone
<1>3. ReportsOK'
  BY ReportsServe DEF LoopInv
<1>4. Ended'
  BY <1>1, EndedKept
<1>5. ASSUME NEW d \in Device PROVE OneLoopOK(d)'
  <2>1. OneLoopOK(d)
    BY DEF LoopInv
  <2>2. ASSUME agent[d].conn # None
        PROVE  \/ request'[agent[d].conn] = request[agent[d].conn]
               \/ Goes(request[agent[d].conn], request'[agent[d].conn])
    <3>1. agent[d].conn \in Slot
      BY <2>2 DEF LoopInv, LoopTypes, Loop
    <3>2. CASE agent[d].conn # s
      BY <3>1, <3>2 DEF Serves, Ends, Elsewhere
    <3>3. CASE agent[d].conn = s
      <4>1. Serves(s)
        BY <3>3 DEF Abandoned, Awaits
      <4>2. request[s].op \in AgentOps
        BY <2>1, <2>2, <3>3 DEF OneLoopOK, ConnOK, AgentOps
      <4>3. QED  BY <3>3, <4>1, <4>2 DEF Serves
    <3>4. QED  BY <3>2, <3>3
  <2>3. QED  BY <1>1, <2>1, <2>2, OtherLoop
<1>6. QED  BY <1>2, <1>3, <1>4, <1>5 DEF LoopInv

\* The loop of device d does a step, alone or with the server.
LEMMA LoopStep ==
    ASSUME TypeInv, LoopInv, Grows, FailureGenuine', ReportsOK', Ended',
           ran' \in [Command -> SUBSET Outcome],
           NEW d \in Device, NEW b \in Loop, NEW p \in Seq(Result),
           agent' = [agent EXCEPT ![d] = b],
           pendingResults' = [pendingResults EXCEPT ![d] = p],
           LoopOK(d, b)', QueueOK(b, p)', ConnOK(d, b)',
           \A e \in Device : e # d /\ agent[e].conn # None =>
             /\ agent[e].conn # b.conn
             /\ request'[agent[e].conn] = request[agent[e].conn]
    PROVE  LoopInv'
<1>1. agent \in [Device -> Loop] /\ pendingResults \in [Device -> Seq(Result)]
  BY DEF LoopInv, LoopTypes
<1>2. LoopTypes'
  BY <1>1 DEF LoopTypes
<1>3. \A e \in Device : e # d => agent'[e] = agent[e] /\ pendingResults'[e] = pendingResults[e]
  BY <1>1
<1>4. agent'[d] = b /\ pendingResults'[d] = p
  BY <1>1
<1>5. Alone'
  BY <1>3, <1>4 DEF LoopInv, Alone
<1>6. ASSUME NEW e \in Device PROVE OneLoopOK(e)'
  <2>1. CASE e = d
    BY <1>4, <2>1 DEF OneLoopOK, LoopOK, QueueOK, ConnOK
  <2>2. CASE e # d
    BY <1>3, <2>2, OtherLoop DEF LoopInv
  <2>3. QED  BY <2>1, <2>2
<1>7. QED  BY <1>2, <1>5, <1>6 DEF LoopInv

-----------------------------------------------------------------------------
(* Steps of a loop *)

\* Nobody awaits a slot that is free.
LEMMA FreeSlot ==
    ASSUME LoopInv, NEW s \in Slot, request[s] = Idle, NEW e \in Device
    PROVE  agent[e].conn # s
<1>1. s # None
  BY DeliveryAssumption
<1>2. Idle.op \notin AgentOps
  BY DEF Idle, AgentOps, ReportOps
<1>3. QED  BY <1>1, <1>2 DEF LoopInv, OneLoopOK, ConnOK, AgentOps

\* The loop sends a request.
LEMMA SendStep ==
    ASSUME TypeInv, LoopInv, Grows, FailureGenuine',
           NEW d \in Device, NEW s \in Slot, NEW r, Begin(s, r), ReportOK(r)',
           NEW pc \in {"heartbeat", "flushing", "reporting"},
           agent' = [agent EXCEPT ![d].pc = pc, ![d].conn = s],
           UNCHANGED <<pendingResults, ran, excused>>,
           \/ pc = "heartbeat" /\ agent[d].pc = "idle" /\ r.op = "heartbeat" /\ r.device = d
           \/ /\ pc = "flushing" /\ agent[d].pc = "flush" /\ pendingResults[d] # <<>>
              /\ r.op \in ReportOps
           \/ /\ pc = "reporting" /\ agent[d].pc = "report"
              /\ r.op \in ReportOps /\ r.cmd = agent[d].cmd
    PROVE  LoopInv'
<1>1. PICK a \in Loop : a = agent[d]
  BY DEF LoopInv, LoopTypes
<1>2. PICK b : b = [a EXCEPT !.pc = pc, !.conn = s]
  OBVIOUS
<1>3. /\ b \in Loop /\ b.pc = pc /\ b.conn = s /\ b.batch = a.batch
      /\ b.cmd = a.cmd /\ b.outcome = a.outcome
  BY <1>2 DEF Loop
<1>4. agent' = [agent EXCEPT ![d] = b]
  BY <1>1, <1>2 DEF LoopInv, LoopTypes
<1>5. PICK p \in Seq(Result) : p = pendingResults[d]
  BY DEF LoopInv, LoopTypes
<1>6. pendingResults' = [pendingResults EXCEPT ![d] = p]
  BY <1>5 DEF LoopInv, LoopTypes
<1>7. request'[s] = r /\ Elsewhere(s) /\ request[s] = Idle
  BY DEF Begin, Elsewhere, TypeInv, TypeOK
<1>8. ReportsOK'
  <2>1. ReportOK(request[s])'
    BY <1>7 DEF ReportOK
  <2>2. QED  BY <2>1, <1>7, OtherReports DEF LoopInv
<1>9. ran' \in [Command -> SUBSET Outcome]
  BY DEF LoopInv, LoopTypes
<1>10. Ended'
  <2>1. agent'[d] = b
    BY <1>4 DEF LoopInv, LoopTypes
  <2>2. \A e \in Device : e # d => agent'[e] = agent[e]
    BY <1>4 DEF LoopInv, LoopTypes
  <2>3. \A e \in Device : agent'[e].batch = agent[e].batch /\ agent'[e].cmd = agent[e].cmd
    BY <1>1, <1>3, <2>1, <2>2
  <2>4. QED  BY <2>3, EndedKept
<1>11. LoopOK(d, a) /\ QueueOK(a, p)
  BY <1>1, <1>5 DEF LoopInv, OneLoopOK
<1>12. LoopOK(d, b)'
  <2>1. LoopOK(d, b)
    BY <1>1, <1>3, <1>11 DEF LoopOK
  <2>2. QED  BY <2>1, LoopKept
<1>13. QueueOK(b, p)'
  <2>1. QueueOK(b, p)
    BY <1>3, <1>5, <1>11 DEF QueueOK
  <2>2. QED  BY <2>1, QueueKept
<1>14. ConnOK(d, b)'
  BY <1>1, <1>3, <1>7 DEF ConnOK
<1>15. ASSUME NEW e \in Device, e # d, agent[e].conn # None
       PROVE  /\ agent[e].conn # b.conn
              /\ request'[agent[e].conn] = request[agent[e].conn]
  <2>1. agent[e].conn \in Slot
    BY <1>15 DEF LoopInv, LoopTypes, Loop
  <2>2. agent[e].conn # s
    BY <1>7, FreeSlot
  <2>3. QED  BY <1>3, <1>7, <2>1, <2>2 DEF Elsewhere
<1>16. \A e \in Device : e # d /\ agent[e].conn # None =>
         /\ agent[e].conn # b.conn
         /\ request'[agent[e].conn] = request[agent[e].conn]
  BY <1>15
<1>17. b \in Loop
  BY <1>3
<1>18. QED
  BY <1>4, <1>6, <1>8, <1>9, <1>10, <1>12, <1>13, <1>14, <1>16, <1>17, LoopStep

\* The loop goes on without awaiting anything; the request it awaited is answered
\* or given up.
LEMMA QuietLoop ==
    ASSUME TypeInv, LoopInv, Grows, FailureGenuine', Ended',
           ran' \in [Command -> SUBSET Outcome],
           NEW d \in Device, NEW b \in Loop, NEW p \in Seq(Result),
           agent' = [agent EXCEPT ![d] = b],
           pendingResults' = [pendingResults EXCEPT ![d] = p],
           LoopOK(d, b)', QueueOK(b, p)', b.conn = None,
           \/ UNCHANGED request
           \/ \E s \in Slot : Ends(s) /\ Awaits(d, s)
    PROVE  LoopInv'
<1>1. ReportsOK'
  <2>1. CASE UNCHANGED request
    <3>1. ASSUME NEW s \in Slot PROVE ReportOK(request[s])'
      <4>1. PICK r : r = request[s] /\ r = request'[s]
        BY <2>1
      <4>2. ReportOK(r)'
        BY <4>1, ReportKept DEF LoopInv, ReportsOK
      <4>3. QED  BY <4>1, <4>2 DEF ReportOK
    <3>2. QED  BY <3>1 DEF ReportsOK
  <2>2. CASE \E s \in Slot : Ends(s) /\ Awaits(d, s)
    BY <2>2, ReportsServe DEF LoopInv
  <2>3. QED  BY <2>1, <2>2
<1>2. ConnOK(d, b)'
  BY DEF ConnOK
<1>3. ASSUME NEW e \in Device, e # d, agent[e].conn # None
      PROVE  /\ agent[e].conn # b.conn
             /\ request'[agent[e].conn] = request[agent[e].conn]
  <2>1. agent[e].conn \in Slot /\ agent[e].conn # agent[d].conn
    BY <1>3 DEF LoopInv, LoopTypes, Loop, Alone
  <2>2. QED  BY <1>3, <2>1 DEF Ends, Elsewhere, Awaits
<1>4. QED  BY <1>1, <1>2, <1>3, LoopStep

\* The same for a step that executes nothing.
LEMMA IdleLoop ==
    ASSUME TypeInv, LoopInv, Grows, FailureGenuine', ran' = ran, excused \subseteq excused',
           NEW d \in Device, NEW b \in Loop, NEW p \in Seq(Result),
           agent' = [agent EXCEPT ![d] = b],
           pendingResults' = [pendingResults EXCEPT ![d] = p],
           LoopOK(d, b), QueueOK(b, p), b.conn = None,
           b.batch \subseteq agent[d].batch,
           \/ b.cmd = agent[d].cmd
           \/ agent[d].cmd = None
           \/ agent[d].cmd \in excused'
           \/ command'[agent[d].cmd].status # "QUEUED",
           \/ UNCHANGED request
           \/ \E s \in Slot : Ends(s) /\ Awaits(d, s)
    PROVE  LoopInv'
<1>1. agent \in [Device -> Loop] /\ ran' \in [Command -> SUBSET Outcome]
  BY DEF LoopInv, LoopTypes
<1>2. agent'[d] = b /\ \A e \in Device : e # d => agent'[e] = agent[e]
  BY <1>1
<1>3. \A e \in Device, c \in Command :
        c \in agent'[e].batch => ran[c] = {} \/ c \in excused \/ c \in agent[e].batch
  BY <1>2
<1>4. \A e \in Device : \/ agent'[e].cmd = agent[e].cmd
                        \/ agent[e].cmd = None
                        \/ agent[e].cmd \in excused'
                        \/ command'[agent[e].cmd].status # "QUEUED"
  BY <1>2
<1>5. Ended'
  BY <1>3, <1>4, EndedKept
<1>6. LoopOK(d, b)' /\ QueueOK(b, p)'
  BY LoopKept, QueueKept
<1>7. QED  BY <1>1, <1>5, <1>6, QuietLoop

\* A sleeping loop has nothing to do.
LEMMA AsleepFacts ==
    /\ Asleep \in Loop
    /\ Asleep.conn = None /\ Asleep.batch = {} /\ Asleep.cmd = None
    /\ \A d, p : LoopOK(d, Asleep) /\ (QueueOK(Asleep, p) <=>
         \A i \in DOMAIN p : p[i].cmd \in delivered /\ p[i].outcome \in ran[p[i].cmd])
<1>1. /\ Asleep \in Loop /\ Asleep.pc = "idle"
      /\ Asleep.conn = None /\ Asleep.batch = {} /\ Asleep.cmd = None
  BY DeliveryAssumption DEF Asleep, Loop
<1>2. QED  BY <1>1 DEF LoopOK, QueueOK

LEMMA TailFacts ==
    ASSUME NEW q \in Seq(Result), q # <<>>
    PROVE  /\ Tail(q) \in Seq(Result)
           /\ \A i \in DOMAIN Tail(q) : \E j \in DOMAIN q : Tail(q)[i] = q[j]
<1>1. Tail(q) \in Seq(Result)
  OBVIOUS
<1>2. ASSUME NEW i \in DOMAIN Tail(q) PROVE \E j \in DOMAIN q : Tail(q)[i] = q[j]
  <2>1. i + 1 \in DOMAIN q /\ Tail(q)[i] = q[i + 1]
    OBVIOUS
  <2>2. QED  BY <2>1
<1>3. QED  BY <1>1, <1>2

\* What Keep keeps is the new result and results that were kept before.
LEMMA KeepFacts ==
    ASSUME NEW q \in Seq(Result), NEW item \in Result
    PROVE  /\ Keep(q, item) \in Seq(Result)
           /\ \A i \in DOMAIN Keep(q, item) :
                Keep(q, item)[i] = item \/ \E j \in DOMAIN q : Keep(q, item)[i] = q[j]
<1>1. ASSUME NEW t \in Seq(Result), NEW i \in DOMAIN Append(t, item)
      PROVE  Append(t, item)[i] = item \/ (i \in DOMAIN t /\ Append(t, item)[i] = t[i])
  OBVIOUS
<1>2. CASE Len(q) < MaxPendingResults
  <2>1. Keep(q, item) = Append(q, item)
    BY <1>2 DEF Keep
  <2>2. QED  BY <1>1, <2>1
<1>3. CASE ~(Len(q) < MaxPendingResults)
  <2>1. PICK t : t = Tail(q)
    OBVIOUS
  <2>2. q # <<>>
    BY <1>3, DeliveryAssumption
  <2>3. t \in Seq(Result) /\ \A i \in DOMAIN t : \E j \in DOMAIN q : t[i] = q[j]
    BY <2>1, <2>2, TailFacts
  <2>4. Keep(q, item) = Append(t, item)
    BY <1>3, <2>1 DEF Keep
  <2>5. Append(t, item) \in Seq(Result)
    BY <2>3
  <2>6. QED  BY <1>1, <2>3, <2>4, <2>5
<1>4. QED  BY <1>2, <1>3

\* A queue whose results come from q, or are one the loop has produced.
LEMMA QueueFrom ==
    ASSUME NEW a, NEW q, QueueOK(a, q), NEW b, b.pc # "flushing", NEW p,
           NEW item, item.cmd \in delivered, item.outcome \in ran[item.cmd],
           \A i \in DOMAIN p : p[i] = item \/ \E j \in DOMAIN q : p[i] = q[j]
    PROVE  QueueOK(b, p)
  BY DEF QueueOK

LEMMA QueueSub ==
    ASSUME NEW a, NEW q, QueueOK(a, q), NEW b, b.pc # "flushing", NEW p,
           \A i \in DOMAIN p : \E j \in DOMAIN q : p[i] = q[j]
    PROVE  QueueOK(b, p)
  BY DEF QueueOK

\* A request that fails, or whose answer the loop gives up.
LEMMA ErrorStep ==
    ASSUME TypeInv, LoopInv, Grows, FailureGenuine',
           NEW d \in Device, NEW retryable \in BOOLEAN, Error(d, retryable),
           \/ UNCHANGED request
           \/ \E s \in Slot : Ends(s) /\ Awaits(d, s)
    PROVE  LoopInv'
<1>1. PICK a \in Loop : a = agent[d]
  BY DEF LoopInv, LoopTypes
<1>2. PICK p \in Seq(Result) : p = pendingResults[d]
  BY DEF LoopInv, LoopTypes
<1>3. LoopOK(d, a) /\ QueueOK(a, p)
  BY <1>1, <1>2 DEF LoopInv, OneLoopOK
<1>4. agent \in [Device -> Loop] /\ pendingResults \in [Device -> Seq(Result)]
  BY DEF LoopInv, LoopTypes
<1>5. CASE FlushError(d, retryable)
  <2>1. PICK b : b = [a EXCEPT !.pc = "execute", !.conn = None]
    OBVIOUS
  <2>2. PICK q : q = IF retryable THEN p ELSE Tail(p)
    OBVIOUS
  <2>3. /\ b \in Loop /\ b.pc = "execute" /\ b.conn = None
        /\ b.batch = a.batch /\ b.cmd = a.cmd /\ b.outcome = a.outcome
    BY <2>1 DEF Loop
  <2>4. agent' = [agent EXCEPT ![d] = b]
    BY <1>1, <1>4, <1>5, <2>1 DEF FlushError
  <2>5. pendingResults' = [pendingResults EXCEPT ![d] = q]
    BY <1>2, <1>4, <1>5, <2>2 DEF FlushError
  <2>6. a.pc = "flushing" /\ ran' = ran /\ excused \subseteq excused'
    BY <1>1, <1>5 DEF FlushError
  <2>7. LoopOK(d, b)
    BY <1>3, <2>3, <2>6 DEF LoopOK
  <2>8. p # <<>>
    BY <1>3, <2>6 DEF QueueOK
  <2>9. q \in Seq(Result) /\ \A i \in DOMAIN q : \E j \in DOMAIN p : q[i] = p[j]
    <3>1. CASE retryable
      BY <2>2, <3>1
    <3>2. CASE ~retryable
      BY <2>2, <2>8, <3>2, TailFacts
    <3>3. QED  BY <3>1, <3>2
  <2>10. QueueOK(b, q)
    BY <1>3, <2>3, <2>9, QueueSub
  <2>11. b.batch \subseteq agent[d].batch /\ b.cmd = agent[d].cmd
    BY <1>1, <2>3
  <2>12. QED  BY <2>3, <2>4, <2>5, <2>6, <2>7, <2>9, <2>10, <2>11, IdleLoop
<1>6. CASE ReportError(d, retryable)
  <2>1. a.pc = "reporting" /\ ran' = ran /\ excused' = excused \cup {a.cmd}
    BY <1>1, <1>6 DEF ReportError
  <2>2. a.cmd \in delivered /\ a.outcome \in ran[a.cmd]
    BY <1>3, <2>1 DEF LoopOK
  <2>3. CASE retryable /\ a.attempt < CommandResultRetries
    <3>1. PICK b : b = [a EXCEPT !.pc = "report", !.conn = None, !.attempt = a.attempt + 1]
      OBVIOUS
    <3>2. a.attempt + 1 \in 0 .. CommandResultRetries
      BY <2>3, DeliveryAssumption DEF Loop
    <3>3. /\ b \in Loop /\ b.pc = "report" /\ b.conn = None
          /\ b.batch = a.batch /\ b.cmd = a.cmd /\ b.outcome = a.outcome
      BY <3>1, <3>2 DEF Loop
    <3>4. agent' = [agent EXCEPT ![d] = b]
      BY <1>1, <1>4, <1>6, <2>3, <3>1 DEF ReportError
    <3>5. pendingResults' = [pendingResults EXCEPT ![d] = p]
      BY <1>1, <1>2, <1>4, <1>6, <2>3 DEF ReportError
    <3>6. LoopOK(d, b)
      BY <1>3, <2>1, <3>3 DEF LoopOK
    <3>7. QueueOK(b, p)
      BY <1>3, <3>3, QueueSub
    <3>8. b.batch \subseteq agent[d].batch /\ b.cmd = agent[d].cmd /\ excused \subseteq excused'
      BY <1>1, <2>1, <3>3
    <3>9. QED  BY <2>1, <3>3, <3>4, <3>5, <3>6, <3>7, <3>8, IdleLoop
  <2>4. CASE ~(retryable /\ a.attempt < CommandResultRetries)
    <3>1. PICK b : b = [a EXCEPT !.pc = "execute", !.conn = None, !.attempt = 0,
                                 !.cmd = None, !.outcome = "NONE"]
      OBVIOUS
    <3>2. /\ b \in Loop /\ b.pc = "execute" /\ b.conn = None
          /\ b.batch = a.batch /\ b.cmd = None
      <4>1. 0 \in 0 .. CommandResultRetries
        BY DeliveryAssumption
      <4>2. b.pc = "execute" /\ b.conn = None /\ b.batch = a.batch /\ b.cmd = None
        BY <3>1 DEF Loop
      <4>3. b \in Loop
        BY <3>1, <4>1 DEF Loop
      <4>4. QED  BY <4>2, <4>3
    <3>3. PICK item : item = [cmd |-> a.cmd, outcome |-> a.outcome]
      OBVIOUS
    <3>4. item \in Result /\ item.cmd \in delivered /\ item.outcome \in ran[item.cmd]
      <4>1. a.cmd \in Command /\ a.outcome \in Outcome
        BY <2>2 DEF TypeInv, TypeOK, LoopInv, LoopTypes
      <4>2. QED  BY <2>2, <3>3, <4>1 DEF Result
    <3>5. PICK q : q = Keep(p, item)
      OBVIOUS
    <3>6. /\ q \in Seq(Result)
          /\ \A i \in DOMAIN q : q[i] = item \/ \E j \in DOMAIN p : q[i] = p[j]
      BY <3>4, <3>5, KeepFacts
    <3>7. agent' = [agent EXCEPT ![d] = b]
      BY <1>1, <1>4, <1>6, <2>4, <3>1 DEF ReportError
    <3>8. pendingResults' = [pendingResults EXCEPT ![d] = q]
      BY <1>1, <1>2, <1>4, <1>6, <2>4, <3>3, <3>5 DEF ReportError
    <3>9. LoopOK(d, b)
      BY <1>3, <2>1, <3>2 DEF LoopOK
    <3>10. QueueOK(b, q)
      BY <1>3, <3>2, <3>4, <3>6, QueueFrom
    <3>11. b.batch \subseteq agent[d].batch /\ agent[d].cmd \in excused' /\ excused \subseteq excused'
      BY <1>1, <2>1, <3>2
    <3>12. QED  BY <2>1, <3>2, <3>6, <3>7, <3>8, <3>9, <3>10, <3>11, IdleLoop
  <2>5. QED  BY <2>3, <2>4
<1>7. CASE HeartbeatError(d)
  <2>1. agent' = [agent EXCEPT ![d] = Asleep] /\ a.pc = "heartbeat"
    BY <1>1, <1>7 DEF HeartbeatError
  <2>2. pendingResults' = [pendingResults EXCEPT ![d] = p] /\ ran' = ran /\ excused' = excused
    BY <1>2, <1>4, <1>7 DEF HeartbeatError
  <2>3. QueueOK(Asleep, p) /\ LoopOK(d, Asleep)
    BY <1>3, AsleepFacts DEF QueueOK
  <2>4. agent[d].cmd = None
    BY <1>1, <1>3, <2>1 DEF LoopOK
  <2>5. QED  BY <2>1, <2>2, <2>3, <2>4, AsleepFacts, IdleLoop
<1>8. QED  BY <1>5, <1>6, <1>7 DEF Error

\* A report that was answered: the command is queued no more.
LEMMA ReportOkStep ==
    ASSUME TypeInv, LoopInv, Grows, FailureGenuine',
           NEW d \in Device, ReportOk(d),
           NEW s \in Slot, Ends(s), Awaits(d, s), request[s].op \in ReportOps,
           command'[request[s].cmd].status # "QUEUED"
    PROVE  LoopInv'
<1>1. PICK a \in Loop : a = agent[d]
  BY DEF LoopInv, LoopTypes
<1>2. PICK p \in Seq(Result) : p = pendingResults[d]
  BY DEF LoopInv, LoopTypes
<1>3. LoopOK(d, a) /\ QueueOK(a, p) /\ ConnOK(d, a)
  BY <1>1, <1>2 DEF LoopInv, OneLoopOK
<1>4. agent \in [Device -> Loop] /\ pendingResults \in [Device -> Seq(Result)]
  BY DEF LoopInv, LoopTypes
<1>5. a.pc = "flushing" \/ (a.pc = "reporting" /\ request[s].cmd = a.cmd)
  <2>1. a.conn = s /\ s # None
    BY <1>1, DeliveryAssumption DEF Awaits
  <2>2. QED  BY <1>3, <2>1 DEF ConnOK, ReportOps
<1>6. PICK pc : pc = IF a.pc = "flushing" THEN "flush" ELSE "execute"
  OBVIOUS
<1>7. PICK b : b = [a EXCEPT !.pc = pc, !.conn = None, !.attempt = 0,
                             !.cmd = None, !.outcome = "NONE"]
  OBVIOUS
<1>8. /\ b \in Loop /\ b.pc = pc /\ b.conn = None
      /\ b.batch = a.batch /\ b.cmd = None
  <2>1. 0 \in 0 .. CommandResultRetries
    BY DeliveryAssumption
  <2>2. b.pc = pc /\ b.conn = None /\ b.batch = a.batch /\ b.cmd = None
    BY <1>7 DEF Loop
  <2>3. b \in Loop
    BY <1>6, <1>7, <2>1 DEF Loop
  <2>4. QED  BY <2>2, <2>3
<1>9. PICK q : q = IF a.pc = "flushing" THEN Tail(p) ELSE p
  OBVIOUS
<1>10. agent' = [agent EXCEPT ![d] = b]
  BY <1>1, <1>4, <1>6, <1>7 DEF ReportOk
<1>11. pendingResults' = [pendingResults EXCEPT ![d] = q]
  BY <1>1, <1>2, <1>4, <1>9 DEF ReportOk
<1>12. ran' = ran /\ excused \subseteq excused'
  BY DEF ReportOk
<1>13. q \in Seq(Result) /\ \A i \in DOMAIN q : \E j \in DOMAIN p : q[i] = p[j]
  <2>1. CASE a.pc = "flushing"
    BY <1>3, <1>9, <2>1, TailFacts DEF QueueOK
  <2>2. CASE a.pc # "flushing"
    BY <1>9, <2>2
  <2>3. QED  BY <2>1, <2>2
<1>14. pc \in {"flush", "execute"}
  BY <1>6
<1>15. LoopOK(d, b)
  BY <1>3, <1>8, <1>14 DEF LoopOK
<1>16. QueueOK(b, q)
  BY <1>3, <1>8, <1>13, <1>14, QueueSub
<1>17. agent[d].cmd = None \/ command'[agent[d].cmd].status # "QUEUED"
  BY <1>1, <1>3, <1>5 DEF LoopOK
<1>18. b.batch \subseteq agent[d].batch
  BY <1>1, <1>8
<1>19. QED
  BY <1>8, <1>10, <1>11, <1>12, <1>13, <1>15, <1>16, <1>17, <1>18, IdleLoop

\* The agent takes the commands of the answer.
LEMMA TakeStep ==
    ASSUME TypeInv, LoopInv, Grows, FailureGenuine',
           NEW d \in Device, NEW s \in Slot, HeartbeatAnswer(s), Awaits(d, s),
           agent' = [agent EXCEPT ![d].pc = "flush", ![d].conn = None, ![d].batch = Pending(d)],
           UNCHANGED <<pendingResults, ran, excused>>
    PROVE  LoopInv'
<1>1. PICK a \in Loop : a = agent[d]
  BY DEF LoopInv, LoopTypes
<1>2. PICK p \in Seq(Result) : p = pendingResults[d]
  BY DEF LoopInv, LoopTypes
<1>3. LoopOK(d, a) /\ QueueOK(a, p) /\ ConnOK(d, a)
  BY <1>1, <1>2 DEF LoopInv, OneLoopOK
<1>4. agent \in [Device -> Loop] /\ pendingResults \in [Device -> Seq(Result)]
  BY DEF LoopInv, LoopTypes
<1>5. a.pc = "heartbeat" /\ request[s].device = d
  <2>1. a.conn = s /\ s # None /\ request[s].op = "heartbeat"
    BY <1>1, DeliveryAssumption DEF Awaits, HeartbeatAnswer
  <2>2. QED  BY <1>3, <2>1 DEF ConnOK, ReportOps
<1>6. PICK B \in SUBSET Command : B = Pending(d)
  BY DEF Pending
<1>7. \A c \in B : command[c].status = "QUEUED" /\ command[c].device = d
  BY <1>6 DEF Pending
<1>8. command' = command /\ delivered' = delivered \cup B
  BY <1>5, <1>6 DEF HeartbeatAnswer, tables
<1>9. PICK b : b = [a EXCEPT !.pc = "flush", !.conn = None, !.batch = B]
  OBVIOUS
<1>10. /\ b \in Loop /\ b.pc = "flush" /\ b.conn = None
       /\ b.batch = B /\ b.cmd = a.cmd
  BY <1>9 DEF Loop
<1>11. agent' = [agent EXCEPT ![d] = b]
  BY <1>1, <1>4, <1>6, <1>9
<1>12. pendingResults' = [pendingResults EXCEPT ![d] = p]
  BY <1>2, <1>4
<1>13. a.cmd = None
  BY <1>3, <1>5 DEF LoopOK
<1>14. LoopOK(d, b)'
  BY <1>7, <1>8, <1>10, <1>13 DEF LoopOK
<1>15. QueueOK(b, p)'
  <2>1. QueueOK(b, p)
    BY <1>3, <1>10, QueueSub
  <2>2. QED  BY <2>1, QueueKept
<1>16. agent'[d] = b /\ \A e \in Device : e # d => agent'[e] = agent[e]
  BY <1>4, <1>11
<1>17. ASSUME NEW c \in B PROVE ran[c] = {} \/ c \in excused
  <2>1. SUFFICES ASSUME ran[c] # {}, c \notin excused PROVE FALSE
    OBVIOUS
  <2>2. PICK e \in Device : agent[e].cmd = c
    BY <1>7, <2>1 DEF LoopInv, Ended
  <2>3. agent[e].pc \in {"report", "reporting"}
    BY <2>2, DeliveryAssumption DEF LoopInv, OneLoopOK, LoopOK
  <2>4. command[c].device = e
    BY <2>2, <2>3 DEF LoopInv, OneLoopOK, LoopOK
  <2>5. QED  BY <1>1, <1>5, <1>7, <2>3, <2>4
<1>18. \A e \in Device, c \in Command :
         c \in agent'[e].batch => ran[c] = {} \/ c \in excused \/ c \in agent[e].batch
  BY <1>10, <1>16, <1>17
<1>19. \A e \in Device : agent'[e].cmd = agent[e].cmd
  BY <1>1, <1>10, <1>16
<1>20. Ended'
  BY <1>18, <1>19, EndedKept
<1>21. ran' \in [Command -> SUBSET Outcome]
  BY DEF LoopInv, LoopTypes
<1>22. Ends(s)
  BY AgentEnds
<1>23. QED
  BY <1>10, <1>11, <1>12, <1>14, <1>15, <1>20, <1>21, <1>22, QuietLoop

\* The agent executes a command.
LEMMA ExecuteStep ==
    ASSUME TypeInv, LoopInv, Grows, FailureGenuine', NEW d \in Device, Execute(d)
    PROVE  LoopInv'
<1>1. PICK a \in Loop : a = agent[d]
  BY DEF LoopInv, LoopTypes
<1>2. PICK p \in Seq(Result) : p = pendingResults[d]
  BY DEF LoopInv, LoopTypes
<1>3. LoopOK(d, a) /\ QueueOK(a, p) /\ ConnOK(d, a)
  BY <1>1, <1>2 DEF LoopInv, OneLoopOK
<1>4. /\ agent \in [Device -> Loop] /\ pendingResults \in [Device -> Seq(Result)]
      /\ ran \in [Command -> SUBSET Outcome]
  BY DEF LoopInv, LoopTypes
<1>5. PICK c \in a.batch, o \in Outcome :
        /\ agent' = [agent EXCEPT ![d].pc = "report", ![d].batch = @ \ {c},
                                  ![d].cmd = c, ![d].outcome = o]
        /\ ran' = [ran EXCEPT ![c] = @ \cup {o}]
  BY <1>1 DEF Execute
<1>6. PICK B : B = a.batch \ {c}
  OBVIOUS
<1>7. PICK b : b = [a EXCEPT !.pc = "report", !.batch = B, !.cmd = c, !.outcome = o]
  OBVIOUS
<1>8. c \in Command /\ c \in delivered /\ command[c].device = d
  BY <1>3 DEF LoopOK, TypeInv, TypeOK
<1>9. /\ b.pc = "report" /\ b.conn = a.conn /\ b.batch = B /\ b.cmd = c /\ b.outcome = o
  BY <1>7 DEF Loop
<1>10. b \in Loop
  BY <1>6, <1>7, <1>8 DEF Loop
<1>11. agent' = [agent EXCEPT ![d] = b]
  BY <1>1, <1>4, <1>5, <1>6, <1>7
<1>12. UNCHANGED <<vars, pendingResults, excused>> /\ a.pc = "execute"
  BY <1>1 DEF Execute
<1>13. pendingResults' = [pendingResults EXCEPT ![d] = p]
  BY <1>2, <1>4, <1>12
<1>14. b.conn = None
  BY <1>3, <1>9, <1>12 DEF ConnOK
<1>15. /\ ran' \in [Command -> SUBSET Outcome] /\ o \in ran'[c]
       /\ \A k \in Command : k # c => ran'[k] = ran[k]
  BY <1>4, <1>5, <1>8
<1>16. LoopOK(d, b)'
  <2>1. command' = command /\ delivered' = delivered
    BY <1>12 DEF vars
  <2>2. \A k \in B : k \in delivered /\ command[k].device = d
    BY <1>3, <1>6 DEF LoopOK
  <2>3. QED  BY <1>6, <1>8, <1>9, <1>15, <2>1, <2>2 DEF LoopOK
<1>17. QueueOK(b, p)'
  <2>1. QueueOK(b, p)
    BY <1>3, <1>9, QueueSub
  <2>2. QED  BY <2>1, QueueKept
<1>18. agent'[d] = b /\ \A e \in Device : e # d => agent'[e] = agent[e]
  BY <1>4, <1>11
<1>19. Ended'
  <2> SUFFICES ASSUME NEW k \in Command, ran'[k] # {}
               PROVE  /\ k \in delivered'
                      /\ k \notin excused' =>
                           /\ \A e \in Device : k \notin agent'[e].batch
                           /\ command'[k].status = "QUEUED" => \E e \in Device : agent'[e].cmd = k
    BY DEF Ended
  <2>1. command' = command /\ delivered' = delivered /\ excused' = excused
    BY <1>12 DEF vars
  <2>2. CASE k = c
    <3>1. \A e \in Device : k \notin agent'[e].batch
      <4>1. ASSUME NEW e \in Device, k \in agent'[e].batch PROVE FALSE
        <5>1. e # d
          BY <1>6, <1>9, <1>18, <2>2, <4>1
        <5>2. k \in agent[e].batch
          BY <1>18, <4>1, <5>1
        <5>3. command[k].device = e
          BY <5>2 DEF LoopInv, OneLoopOK, LoopOK
        <5>4. QED  BY <1>8, <2>2, <5>1, <5>3
      <4>2. QED  BY <4>1
    <3>2. agent'[d].cmd = k
      BY <1>9, <1>18, <2>2
    <3>3. QED  BY <1>8, <2>1, <2>2, <3>1, <3>2
  <2>3. CASE k # c
    <3>1. ran[k] # {}
      BY <1>15, <2>3
    <3>2. /\ k \in delivered
          /\ k \notin excused =>
               /\ \A e \in Device : k \notin agent[e].batch
               /\ command[k].status = "QUEUED" => \E e \in Device : agent[e].cmd = k
      BY <3>1 DEF LoopInv, Ended
    <3>3. \A e \in Device : k \notin agent[e].batch => k \notin agent'[e].batch
      BY <1>1, <1>6, <1>9, <1>18
    <3>4. ASSUME NEW e \in Device, agent[e].cmd = k PROVE agent'[e].cmd = k
      <4>1. a.cmd = None
        BY <1>3, <1>12 DEF LoopOK
      <4>2. k # None
        BY DeliveryAssumption
      <4>3. QED  BY <1>1, <1>18, <3>4, <4>1, <4>2
    <3>5. QED  BY <2>1, <3>2, <3>3, <3>4
  <2>4. QED  BY <2>2, <2>3
<1>20. UNCHANGED request
  BY <1>12 DEF vars
<1>21. QED
  BY <1>10, <1>11, <1>13, <1>14, <1>15, <1>16, <1>17, <1>19, <1>20, QuietLoop

\* The steps of a loop that only change its place: what it has kept is flushed,
\* the answer worked off, or the agent restarted.
LEMMA PlaceStep ==
    ASSUME TypeInv, LoopInv, Grows, FailureGenuine',
           NEW d \in Device, FlushDone(d) \/ LoopDone(d) \/ Restart(d)
    PROVE  LoopInv'
<1>1. PICK a \in Loop : a = agent[d]
  BY DEF LoopInv, LoopTypes
<1>2. PICK p \in Seq(Result) : p = pendingResults[d]
  BY DEF LoopInv, LoopTypes
<1>3. LoopOK(d, a) /\ QueueOK(a, p) /\ ConnOK(d, a)
  BY <1>1, <1>2 DEF LoopInv, OneLoopOK
<1>4. agent \in [Device -> Loop] /\ pendingResults \in [Device -> Seq(Result)]
  BY DEF LoopInv, LoopTypes
<1>5. CASE FlushDone(d)
  <2>1. PICK b : b = [a EXCEPT !.pc = "execute"]
    OBVIOUS
  <2>2. /\ b \in Loop /\ b.pc = "execute" /\ b.conn = a.conn
        /\ b.batch = a.batch /\ b.cmd = a.cmd
    BY <2>1 DEF Loop
  <2>3. agent' = [agent EXCEPT ![d] = b] /\ a.pc = "flush"
    BY <1>1, <1>4, <1>5, <2>1 DEF FlushDone
  <2>4. UNCHANGED <<vars, pendingResults, ran, excused>>
    BY <1>5 DEF FlushDone
  <2>5. pendingResults' = [pendingResults EXCEPT ![d] = p]
    BY <1>2, <1>4, <2>4
  <2>6. b.conn = None
    BY <1>3, <2>2, <2>3 DEF ConnOK
  <2>7. LoopOK(d, b) /\ QueueOK(b, p)
    BY <1>3, <2>2, <2>3 DEF LoopOK, QueueOK
  <2>8. b.batch \subseteq agent[d].batch /\ b.cmd = agent[d].cmd
    BY <1>1, <2>2
  <2>9. UNCHANGED request
    BY <2>4 DEF vars
  <2>10. QED  BY <2>2, <2>3, <2>4, <2>5, <2>6, <2>7, <2>8, <2>9, IdleLoop
<1>6. CASE LoopDone(d)
  <2>1. agent' = [agent EXCEPT ![d] = Asleep] /\ a.pc = "execute"
    BY <1>1, <1>6 DEF LoopDone
  <2>2. UNCHANGED <<vars, pendingResults, ran, excused>>
    BY <1>6 DEF LoopDone
  <2>3. pendingResults' = [pendingResults EXCEPT ![d] = p]
    BY <1>2, <1>4, <2>2
  <2>4. QueueOK(Asleep, p) /\ LoopOK(d, Asleep)
    BY <1>3, AsleepFacts DEF QueueOK
  <2>5. agent[d].cmd = None
    BY <1>1, <1>3, <2>1 DEF LoopOK
  <2>6. UNCHANGED request
    BY <2>2 DEF vars
  <2>7. QED  BY <2>1, <2>2, <2>3, <2>4, <2>5, <2>6, AsleepFacts, IdleLoop
<1>7. CASE Restart(d)
  <2>1. agent' = [agent EXCEPT ![d] = Asleep] /\ UNCHANGED <<vars, ran>>
    BY <1>7 DEF Restart
  <2>2. PICK q : q = <<>>
    OBVIOUS
  <2>3. q \in Seq(Result) /\ DOMAIN q = {}
    BY <2>2
  <2>4. pendingResults' = [pendingResults EXCEPT ![d] = q]
    BY <1>7, <2>2 DEF Restart
  <2>5. QueueOK(Asleep, q) /\ LoopOK(d, Asleep)
    BY <2>3, AsleepFacts
  <2>6. excused \subseteq excused' /\ (agent[d].cmd = None \/ agent[d].cmd \in excused')
    BY <1>7 DEF Restart
  <2>7. UNCHANGED request
    BY <2>1 DEF vars
  <2>8. QED  BY <2>1, <2>3, <2>4, <2>5, <2>6, <2>7, AsleepFacts, IdleLoop
<1>8. QED  BY <1>5, <1>6, <1>7

-----------------------------------------------------------------------------
(* The inductive invariant *)

\* Every step keeps what the loops rely on.
LEMMA LoopInvStep ==
    ASSUME CommandsAssumption, TypeInv, LoopInv, Grows, FailureGenuine', [DeliveryNext]_allVars
    PROVE  LoopInv'
<1>1. ASSUME NEW s \in Slot, Console(s) \/ ConsoleSteps(s), UNCHANGED agentVars PROVE LoopInv'
  BY <1>1, ConsoleServes, ServerStep
<1>2. ASSUME NEW s \in Slot,
             (\E reported \in SUBSET Patch : SyncPatches(s, reported)) \/ ResultCommit(s),
             UNCHANGED agentVars
      PROVE  LoopInv'
  BY <1>2, AgentServes, ServerStep
<1>3. ASSUME NEW s \in Slot, HeartbeatAnswered(s) PROVE LoopInv'
  <2>1. HeartbeatAnswer(s)
    BY <1>3 DEF HeartbeatAnswered
  <2>2. ASSUME Abandoned(s), UNCHANGED agentVars PROVE LoopInv'
    BY <2>1, <2>2, AgentEnds, ServerStep
  <2>3. QED  BY <1>3, <2>1, <2>2, TakeStep DEF HeartbeatAnswered
<1>4. ASSUME NEW s \in Slot, ReportAnswered(s) PROVE LoopInv'
  <2>1. CASE request'[s] = Idle
    <3>1. Ends(s)
      BY <1>4, <2>1, AgentEnds DEF ReportAnswered
    <3>2. ASSUME Abandoned(s), UNCHANGED agentVars PROVE LoopInv'
      BY <3>1, <3>2, ServerStep
    <3>3. ASSUME NEW d \in Device, Awaits(d, s), ReportOk(d) PROVE LoopInv'
      <4>1. request[s].op \in {"report", "raise", "recover"}
        BY <1>4 DEF ReportAnswered, ResultRead, RaiseAlert, ResolveAlerts
      <4>2. command' = command
        BY <1>4 DEF ReportAnswered, ResultRead, RaiseAlert, ResolveAlerts, tables
      <4>3. CASE request[s].op = "report"
        <5>1. ResultRead(s)
          BY <1>4, <4>3 DEF ReportAnswered, RaiseAlert, ResolveAlerts
        <5>2. ASSUME request' = [request EXCEPT ![s].op = "result"] PROVE FALSE
          <6>1. request \in [Slot -> Request] /\ request[s] \in Request
            BY DEF TypeInv, TypeOK
          <6>2. request'[s].op = "result"
            BY <5>2, <6>1 DEF Request
          <6>3. QED  BY <2>1, <6>2 DEF Idle
        <5>3. command[request[s].cmd].status \in Outcome
          BY <5>1, <5>2 DEF ResultRead
        <5>4. command'[request[s].cmd].status # "QUEUED"
          BY <4>2, <5>3 DEF Outcome
        <5>5. QED  BY <3>1, <3>3, <4>3, <5>4, ReportOkStep DEF ReportOps
      <4>4. CASE request[s].op \in {"raise", "recover"}
        <5>1. command'[request[s].cmd].status # "QUEUED"
          BY <4>2, <4>4 DEF LoopInv, ReportsOK, ReportOK
        <5>2. QED  BY <3>1, <3>3, <4>4, <5>1, ReportOkStep DEF ReportOps
      <4>5. QED  BY <4>1, <4>3, <4>4
    <3>4. QED  BY <1>4, <2>1, <3>2, <3>3 DEF ReportAnswered
  <2>2. CASE request'[s] # Idle
    <3>1. ~Ends(s) /\ UNCHANGED agentVars
      BY <1>4, <2>2 DEF ReportAnswered, Ends
    <3>2. ResultRead(s)
      BY <1>4, <3>1, AgentEnds DEF ReportAnswered
    <3>3. QED  BY <2>2, <3>1, <3>2, AgentServes, ServerStep
  <2>3. QED  BY <2>1, <2>2
<1>5. ASSUME NEW s \in Slot, ReportRejected(s) PROVE LoopInv'
  <2>1. Ends(s)
    BY <1>5, AgentEnds DEF ReportRejected
  <2>2. QED  BY <1>5, <2>1, ServerStep, ErrorStep DEF ReportRejected
<1>6. ASSUME NEW s \in Slot, HandlerFails(s) PROVE LoopInv'
  <2>1. Ends(s)
    BY <1>6, AgentEnds DEF HandlerFails
  <2>2. QED  BY <1>6, <2>1, ServerStep, ErrorStep DEF HandlerFails
<1>7. ASSUME NEW s \in Slot, AlertFails(s) PROVE LoopInv'
  <2>1. Ends(s) /\ command' = command /\ request[s].op \in {"raise", "recover"}
    BY <1>7, AgentEnds DEF AlertFails, RequestFails, tables
  <2>2. command'[request[s].cmd].status # "QUEUED" /\ request[s].op \in ReportOps
    BY <2>1 DEF LoopInv, ReportsOK, ReportOK, ReportOps
  <2>3. QED  BY <1>7, <2>1, <2>2, ServerStep, ReportOkStep DEF AlertFails
<1>8. ASSUME NEW d \in Device, Timeout(d) PROVE LoopInv'
  <2>1. UNCHANGED request /\ Error(d, TRUE)
    BY <1>8 DEF Timeout, vars
  <2>2. QED  BY <2>1, ErrorStep
<1>9. ASSUME NEW d \in Device, NEW s \in Slot, SendHeartbeat(d, s) PROVE LoopInv'
  <2>1. PICK todo \in {{}, {"sync"}} : HeartbeatArrives(s, d, todo)
    BY <1>9 DEF SendHeartbeat
  <2>2. PICK r : r = [Idle EXCEPT !.op = "heartbeat", !.device = d, !.todo = todo]
    OBVIOUS
  <2>3. r.op = "heartbeat" /\ r.device = d
    BY <2>2 DEF Idle
  <2>4. Begin(s, r)
    BY <2>1, <2>2 DEF HeartbeatArrives
  <2>5. ReportOK(r)'
    BY <2>3 DEF ReportOK, ReportOps
  <2>6. /\ agent' = [agent EXCEPT ![d].pc = "heartbeat", ![d].conn = s]
        /\ UNCHANGED <<pendingResults, ran, excused>> /\ agent[d].pc = "idle"
    BY <1>9 DEF SendHeartbeat
  <2>7. QED  BY <2>3, <2>4, <2>5, <2>6, SendStep
<1>10. ASSUME NEW d \in Device, NEW s \in Slot, SendFlush(d, s) PROVE LoopInv'
  <2>1. PICK c, o : /\ c = Head(pendingResults[d]).cmd /\ o = Head(pendingResults[d]).outcome
                    /\ ReportArrives(s, c, o)
    BY <1>10 DEF SendFlush
  <2>2. PICK r : r = [Idle EXCEPT !.op = "report", !.cmd = c, !.outcome = o]
    OBVIOUS
  <2>3. r.op = "report" /\ r.cmd = c /\ r.outcome = o
    BY <2>2 DEF Idle
  <2>4. Begin(s, r)
    BY <2>1, <2>2 DEF ReportArrives
  <2>5. /\ agent' = [agent EXCEPT ![d].pc = "flushing", ![d].conn = s]
        /\ UNCHANGED <<pendingResults, ran, excused>>
        /\ agent[d].pc = "flush" /\ pendingResults[d] # <<>>
    BY <1>10 DEF SendFlush
  <2>6. c \in delivered /\ o \in ran[c]
    BY <2>1, <2>5, HeadFacts
  <2>7. ReportOK(r)'
    <3>1. ReportOK(r)
      BY <2>3, <2>6 DEF ReportOK
    <3>2. QED  BY <3>1, ReportKept
  <2>8. r.op \in ReportOps
    BY <2>3 DEF ReportOps
  <2>9. QED  BY <2>4, <2>5, <2>7, <2>8, SendStep
<1>11. ASSUME NEW d \in Device, NEW s \in Slot, SendReport(d, s) PROVE LoopInv'
  <2>1. PICK c, o : c = agent[d].cmd /\ o = agent[d].outcome /\ ReportArrives(s, c, o)
    BY <1>11 DEF SendReport
  <2>2. PICK r : r = [Idle EXCEPT !.op = "report", !.cmd = c, !.outcome = o]
    OBVIOUS
  <2>3. r.op = "report" /\ r.cmd = c /\ r.outcome = o
    BY <2>2 DEF Idle
  <2>4. Begin(s, r)
    BY <2>1, <2>2 DEF ReportArrives
  <2>5. /\ agent' = [agent EXCEPT ![d].pc = "reporting", ![d].conn = s]
        /\ UNCHANGED <<pendingResults, ran, excused>> /\ agent[d].pc = "report"
    BY <1>11 DEF SendReport
  <2>6. c \in delivered /\ o \in ran[c]
    BY <2>1, <2>5 DEF LoopInv, OneLoopOK, LoopOK
  <2>7. ReportOK(r)'
    <3>1. ReportOK(r)
      BY <2>3, <2>6 DEF ReportOK
    <3>2. QED  BY <3>1, ReportKept
  <2>8. r.op \in ReportOps
    BY <2>3 DEF ReportOps
  <2>9. QED  BY <2>1, <2>3, <2>4, <2>5, <2>7, <2>8, SendStep
<1>12. ASSUME NEW d \in Device, Execute(d) PROVE LoopInv'
  BY <1>12, ExecuteStep
<1>13. ASSUME NEW d \in Device, FlushDone(d) \/ LoopDone(d) \/ Restart(d) PROVE LoopInv'
  BY <1>13, PlaceStep
<1>14. ASSUME UNCHANGED allVars PROVE LoopInv'
  BY <1>14 DEF allVars, vars, agentVars, LoopInv, LoopTypes, OneLoopOK, LoopOK, ConnOK, QueueOK,
              ReportsOK, ReportOK, Alone, Ended
<1>15. ASSUME NEW s \in Slot, ServerNext(s) PROVE LoopInv'
  BY <1>1, <1>2, <1>3, <1>4, <1>5, <1>15 DEF ServerNext
<1>16. ASSUME NEW d \in Device, AgentNext(d) PROVE LoopInv'
  BY <1>9, <1>10, <1>11, <1>12, <1>13, <1>16 DEF AgentNext
<1>17. ASSUME FaultNext PROVE LoopInv'
  BY <1>6, <1>7, <1>8, <1>13, <1>17 DEF FaultNext
<1>18. QED  BY <1>1, <1>14, <1>15, <1>16, <1>17 DEF DeliveryNext

\* Only the execution of a command produces an outcome.
LEMMA RanKept ==
    ASSUME [DeliveryNext]_allVars, \A d \in Device : ~Execute(d)
    PROVE  ran' = ran
<1>1. ASSUME NEW d \in Device, AgentNext(d) PROVE ran' = ran
  BY <1>1 DEF AgentNext, SendHeartbeat, SendFlush, SendReport, FlushDone, LoopDone
<1>2. ASSUME NEW s \in Slot, ServerNext(s) PROVE ran' = ran
  BY <1>2, ErrorRan, ReportOkRan
     DEF ServerNext, HeartbeatAnswered, ReportAnswered, ReportRejected, agentVars
<1>3. ASSUME FaultNext PROVE ran' = ran
  BY <1>3, ErrorRan, ReportOkRan
     DEF FaultNext, HandlerFails, AlertFails, Timeout, Restart, agentVars
<1>4. QED  BY <1>1, <1>2, <1>3 DEF DeliveryNext, allVars, agentVars

LEMMA RanGrows ==
    ASSUME LoopInv, [DeliveryNext]_allVars, NEW c \in Command
    PROVE  ran[c] \subseteq ran'[c]
<1>1. ASSUME NEW d \in Device, Execute(d) PROVE ran[c] \subseteq ran'[c]
  BY <1>1 DEF Execute, LoopInv, LoopTypes
<1>2. QED  BY <1>1, RanKept

LEMMA DeliveryGrows ==
    ASSUME DeliveryInv, [DeliveryNext]_allVars
    PROVE  Grows
  BY CommandsAssumption, DeliveryAssumption, TablesStep, RanGrows, GrowsStep DEF DeliveryInv

LEMMA DeliveryInvStep ==
    ASSUME DeliveryInv, [DeliveryNext]_allVars
    PROVE  DeliveryInv'
<1>1. [Next]_vars
  BY DeliveryAssumption, TablesStep
<1>2. Grows
  BY DeliveryGrows
<1>3. TypeInv'
  BY <1>1, CommandsAssumption, TypeStep DEF DeliveryInv
<1>4. FailureGenuine'
  BY <1>1, <1>2, CommandsAssumption, FailureStep DEF DeliveryInv
<1>5. LoopInv'
  BY <1>2, <1>4, CommandsAssumption, LoopInvStep DEF DeliveryInv
<1>6. OneAtATime => SerialInv'
  BY <1>1, CommandsAssumption, SerialStep DEF DeliveryInv
<1>7. QED  BY <1>3, <1>5, <1>6 DEF DeliveryInv, OneAtATime

LEMMA DeliveryInvInit == DeliveryInit => DeliveryInv
<1> SUFFICES ASSUME DeliveryInit PROVE DeliveryInv
  OBVIOUS
<1>1. Init
  BY DEF DeliveryInit
<1>2. TypeInv /\ SerialInv
  BY <1>1, CommandsAssumption, TypeInit, SerialInit
<1>3. /\ agent = [d \in Device |-> Asleep]
      /\ pendingResults = [d \in Device |-> <<>>]
      /\ ran = [c \in Command |-> {}]
  BY DEF DeliveryInit
<1>4. LoopTypes /\ Ended /\ Alone
  BY <1>3, AsleepFacts DEF LoopTypes, Ended, Alone
<1>5. ASSUME NEW d \in Device PROVE OneLoopOK(d)
  <2>1. QueueOK(Asleep, <<>>) /\ LoopOK(d, Asleep) /\ ConnOK(d, Asleep)
    BY AsleepFacts DEF ConnOK
  <2>2. QED  BY <1>3, <2>1 DEF OneLoopOK
<1>6. ReportsOK
  BY <1>1 DEF Init, ReportsOK, ReportOK, ReportOps, Idle
<1>7. FailureGenuine
  BY <1>1 DEF Init, FailureGenuine
<1>8. QED  BY <1>2, <1>4, <1>5, <1>6, <1>7 DEF DeliveryInv, LoopInv

THEOREM DeliveryInvariant == DeliverySpec => []DeliveryInv
  BY DeliveryInvInit, DeliveryInvStep, PTL DEF DeliverySpec

-----------------------------------------------------------------------------
(* What the loops achieve *)

\* With the agents in their place the tables do what Commands says of them, so
\* what is proved of Commands holds of the composition.
THEOREM ImplementsCommands == DeliverySpec => Spec
<1>1. DeliveryInit => Init
  BY DEF DeliveryInit
<1>2. DeliveryInv /\ [DeliveryNext]_allVars => [Next]_vars
  BY DeliveryAssumption, TablesStep
<1>3. QED  BY <1>1, <1>2, DeliveryInvariant, PTL DEF DeliverySpec, Spec

\* A deployment shows the outcome of its command, whatever the network, the
\* agents and the other handlers do.
THEOREM DeliveredDeploymentsMirror == DeliverySpec => []DeploymentMirrors
  BY CommandsAssumption, ImplementsCommands, DeploymentsMirror, PTL

\* A device is listed as failed for a patch only by an install of it that its
\* agent ran and that failed, whatever is lost, retried or forgotten.
THEOREM FailuresGenuine == DeliverySpec => []FailureGenuine
<1>1. DeliveryInv => FailureGenuine
  BY DEF DeliveryInv, LoopInv
<1>2. QED  BY <1>1, DeliveryInvariant, PTL

\* Only the execution of a command makes a loop report one it does not report yet.
LEMMA RerunStep ==
    ASSUME LoopTypes, DeliveryNext, NEW d \in Device,
           agent[d].pc = "execute", agent'[d].pc = "report"
    PROVE  Execute(d)
<1>1. agent \in [Device -> Loop] /\ agent[d] \in Loop
  BY DEF LoopTypes
<1>2. ASSUME UNCHANGED agent PROVE FALSE
  BY <1>2
<1>3. ASSUME NEW e \in Device, NEW b \in Loop, agent' = [agent EXCEPT ![e] = b],
             b.pc # "report" \/ agent[e].pc # "execute"
      PROVE  FALSE
  BY <1>1, <1>3
<1>4. ASSUME NEW e \in Device, ReportOk(e) PROVE FALSE
  <2>1. agent'[d].pc \in {"execute", "flush"}
    BY <1>1, <1>4 DEF ReportOk, Loop
  <2>2. QED  BY <2>1
<1>5. ASSUME NEW e \in Device, NEW f, agent[e].pc # "execute", agent' = [agent EXCEPT ![e] = f]
      PROVE  FALSE
  BY <1>1, <1>5
<1>6. ASSUME NEW e \in Device, NEW retryable, Error(e, retryable) PROVE FALSE
  <2>1. agent[e].pc # "execute"
    BY <1>6 DEF Error, FlushError, ReportError, HeartbeatError
  <2>2. PICK f : agent' = [agent EXCEPT ![e] = f]
    BY <1>6 DEF Error, FlushError, ReportError, HeartbeatError
  <2>3. QED  BY <1>5, <2>1, <2>2
<1>7. ASSUME NEW e \in Device, AgentNext(e), ~Execute(e) PROVE FALSE
  <2>1. CASE LoopDone(e)
    <3>1. agent' = [agent EXCEPT ![e] = Asleep] /\ Asleep.pc = "idle"
      BY <2>1 DEF LoopDone, Asleep
    <3>2. QED  BY <1>3, <3>1, AsleepFacts
  <2>2. CASE ~LoopDone(e)
    <3>1. agent[e].pc # "execute"
      BY <1>7, <2>2 DEF AgentNext, SendHeartbeat, SendFlush, SendReport, FlushDone
    <3>2. PICK f : agent' = [agent EXCEPT ![e] = f]
      BY <1>7, <2>2 DEF AgentNext, SendHeartbeat, SendFlush, SendReport, FlushDone
    <3>3. QED  BY <1>5, <3>1, <3>2
  <2>3. QED  BY <2>1, <2>2
<1>8. ASSUME NEW s \in Slot, HeartbeatAnswered(s) PROVE FALSE
  <2>1. ASSUME NEW e \in Device,
               agent' = [agent EXCEPT ![e].pc = "flush", ![e].conn = None, ![e].batch = Pending(e)]
        PROVE  FALSE
    <3>1. agent'[d].pc \in {"execute", "flush"}
      BY <1>1, <2>1 DEF Loop
    <3>2. QED  BY <3>1
  <2>2. QED  BY <1>2, <1>8, <2>1 DEF HeartbeatAnswered, agentVars
<1>9. ASSUME NEW s \in Slot, ServerNext(s) PROVE FALSE
  BY <1>2, <1>4, <1>6, <1>8, <1>9 DEF ServerNext, ReportAnswered, ReportRejected, agentVars
<1>10. ASSUME FaultNext PROVE FALSE
  <2>1. ASSUME NEW e \in Device, Restart(e) PROVE FALSE
    <3>1. agent' = [agent EXCEPT ![e] = Asleep] /\ Asleep.pc = "idle"
      BY <2>1 DEF Restart, Asleep
    <3>2. QED  BY <1>3, <3>1, AsleepFacts
  <2>2. QED
    BY <1>2, <1>4, <1>6, <1>10, <2>1 DEF FaultNext, HandlerFails, AlertFails, Timeout, agentVars
<1>11. ASSUME NEW e \in Device, e # d, Execute(e) PROVE FALSE
  <2>1. PICK f : agent' = [agent EXCEPT ![e] = f]
    BY <1>11 DEF Execute
  <2>2. QED  BY <1>1, <1>11, <2>1
<1>12. QED
  BY <1>2, <1>7, <1>9, <1>10, <1>11 DEF DeliveryNext, agentVars

\* An agent runs a command again only when a report of it failed or a restart
\* forgot it.
THEOREM RerunsExcused == DeliverySpec => RerunExcused
<1>1. DeliveryInv /\ [DeliveryNext]_allVars =>
        [\A d \in Device :
           /\ agent[d].pc = "execute" /\ agent'[d].pc = "report"
           /\ ran[agent'[d].cmd] # {}
           => agent'[d].cmd \in excused]_allVars
  <2> SUFFICES ASSUME DeliveryInv, DeliveryNext, NEW d \in Device,
                      agent[d].pc = "execute", agent'[d].pc = "report",
                      ran[agent'[d].cmd] # {}
               PROVE  agent'[d].cmd \in excused
    OBVIOUS
  <2>1. agent \in [Device -> Loop] /\ agent[d] \in Loop
    BY DEF DeliveryInv, LoopInv, LoopTypes
  <2>2. PICK c \in agent[d].batch, o \in Outcome :
          agent' = [agent EXCEPT ![d].pc = "report", ![d].batch = @ \ {c},
                                 ![d].cmd = c, ![d].outcome = o]
    <3>1. Execute(d)
      BY RerunStep DEF DeliveryInv, LoopInv
    <3>2. QED  BY <3>1 DEF Execute
  <2>3. agent'[d].cmd = c
    BY <2>1, <2>2 DEF Loop
  <2>4. c \in Command
    BY <2>1 DEF Loop
  <2>5. QED  BY <2>3, <2>4 DEF DeliveryInv, LoopInv, Ended
<1>2. QED  BY <1>1, DeliveryInvariant, PTL DEF DeliverySpec, RerunExcused

\* What the loops leave alone of a cancelled command.
LEMMA CancelStep ==
    ASSUME DeliveryInv, [DeliveryNext]_allVars, NEW c \in Command,
           command[c].status = "CANCELLED", c \notin delivered
    PROVE  command'[c] = command[c] /\ c \notin delivered' /\ ran'[c] = ran[c]
<1>1. command[c] \in Row /\ command[c] # NoRow
  BY DEF DeliveryInv, TypeInv, TypeOK, NoRow
<1>2. \/ \E S \in SUBSET Command : Queueing(S) \/ Cancelling(S)
      \/ \E s \in Slot : ResultCommit(s) \/ HeartbeatAnswer(s)
      \/ Keeping
  BY DeliveryAssumption, CommandsAssumption, TablesStep, RowKinds DEF DeliveryInv
<1>3. command'[c] = command[c] /\ c \notin delivered'
  <2>1. CASE \E S \in SUBSET Command : Queueing(S)
    BY <1>1, <2>1 DEF Queueing
  <2>2. CASE \E S \in SUBSET Command : Cancelling(S)
    <3>1. PICK r \in Row : r = command[c] /\ r # NoRow /\ r.status = "CANCELLED"
      BY <1>1
    <3>2. [r EXCEPT !.status = "CANCELLED"] = r
      BY <3>1 DEF Row, NoRow
    <3>3. QED  BY <2>2, <3>1, <3>2 DEF Cancelling
  <2>3. CASE \E s \in Slot : ResultCommit(s)
    <3>1. PICK s \in Slot : ResultCommit(s)
      BY <2>3
    <3>2. PICK k \in Command, o \in Outcome : k = request[s].cmd /\ o = request[s].outcome
      BY <3>1, HandlerFacts DEF ResultCommit, DeliveryInv
    <3>3. k \in delivered
      BY <3>1, <3>2 DEF ResultCommit, DeliveryInv, LoopInv, ReportsOK, ReportOK, ReportOps
    <3>4. /\ \A b \in Command : b # k => command'[b] = command[b]
          /\ delivered' = delivered
      BY <3>1, <3>2, CommandsAssumption, CommitFacts DEF DeliveryInv
    <3>5. QED  BY <3>3, <3>4
  <2>4. CASE \E s \in Slot : HeartbeatAnswer(s)
    BY <2>4 DEF HeartbeatAnswer, tables, Pending
  <2>5. CASE Keeping
    BY <2>5 DEF Keeping
  <2>6. QED  BY <1>2, <2>1, <2>2, <2>3, <2>4, <2>5
<1>4. ran'[c] = ran[c]
  <2>1. ASSUME NEW d \in Device, Execute(d) PROVE ran'[c] = ran[c]
    <3>1. PICK k \in agent[d].batch, o \in Outcome : ran' = [ran EXCEPT ![k] = @ \cup {o}]
      BY <2>1 DEF Execute
    <3>2. k \in delivered
      BY DEF DeliveryInv, LoopInv, OneLoopOK, LoopOK
    <3>3. QED  BY <3>1, <3>2 DEF DeliveryInv, LoopInv, LoopTypes
  <2>2. QED  BY <2>1, RanKept
<1>5. QED  BY <1>3, <1>4

\* A command cancelled before an answer held it stays cancelled, is never handed
\* out and never runs, however many handlers and agents are at work.
THEOREM CancelsInTime == DeliverySpec => CancelInTime
<1>1. DeliveryInv /\ [DeliveryNext]_allVars =>
        [\A c \in Command : command[c].status = "CANCELLED" /\ c \notin delivered
           => /\ command'[c] = command[c]
              /\ c \notin delivered'
              /\ ran'[c] = ran[c]]_allVars
  BY CancelStep
<1>2. QED  BY <1>1, DeliveryInvariant, PTL DEF DeliverySpec, CancelInTime

-----------------------------------------------------------------------------
(* The contract *)

\* One request at a time means that requests do not overlap.
LEMMA StrictFacts == Cardinality(Slot) = 1 => OneAtATime
  BY DeliveryAssumption, FS_Singleton DEF OneAtATime

\* A row as the contract sees it.
LEMMA StatusFacts ==
    ASSUME CommandsAssumption, TypeInv, NEW c \in Command
    PROVE  /\ command[c].status = "ABSENT" <=> command[c] = NoRow
           /\ command[c] # NoRow => command[c].status \in {"QUEUED", "CANCELLED"} \cup Outcome
<1>1. command[c] \in Row
  BY DEF TypeInv, TypeOK
<1>2. QED  BY <1>1, RowFacts

\* Each step of the composition is one of the contract, or one it does not see.
LEMMA ContractStep ==
    ASSUME DeliveryInv, [DeliveryNext]_allVars
    PROVE  [Contract!Next]_(Contract!vars)
<1>0. TypeInv /\ [Next]_vars
  BY DeliveryAssumption, TablesStep DEF DeliveryInv
<1>1. Contract!Outcome = Outcome
  BY DEF Contract!Outcome, Outcome
<1>2. ASSUME NEW d \in Device, Execute(d) PROVE [Contract!Next]_(Contract!vars)
  <2>1. PICK c \in agent[d].batch, o \in Outcome : ran' = [ran EXCEPT ![c] = @ \cup {o}]
    BY <1>2 DEF Execute
  <2>2. c \in delivered /\ c \in Command
    BY DEF DeliveryInv, LoopInv, OneLoopOK, LoopOK, TypeInv, TypeOK
  <2>3. command' = command /\ delivered' = delivered
    BY <1>2 DEF Execute, vars
  <2>4. Contract!Run(c, o)
    BY <2>1, <2>2, <2>3 DEF Contract!Run
  <2>5. QED  BY <1>1, <2>2, <2>4 DEF Contract!Next
<1>3. ASSUME ran' = ran PROVE [Contract!Next]_(Contract!vars)
  <2>1. ASSUME NEW S \in SUBSET Command, Queueing(S) PROVE Contract!Issue(S)
    <3>1. \A c \in S : [b \in Command |-> command[b].status][c] = "ABSENT"
      BY <1>0, <2>1, CommandsAssumption, StatusFacts DEF Queueing
    <3>2. [c \in Command |-> command'[c].status] =
            [c \in Command |-> IF c \in S THEN "QUEUED" ELSE [b \in Command |-> command[b].status][c]]
      BY <2>1 DEF Queueing
    <3>3. QED  BY <1>3, <2>1, <3>1, <3>2 DEF Contract!Issue, Queueing
  <2>2. ASSUME NEW S \in SUBSET Command, Cancelling(S) PROVE Contract!Cancel(S)
    <3>1. \A c \in S : command'[c].status = "CANCELLED"
      BY <1>0, <2>2, CommandsAssumption, CancelFacts
    <3>2. ASSUME NEW c \in S PROVE command[c].status \in Contract!Cancellable
      <4>1. command[c].status \in {"QUEUED", "CANCELLED"} \cup Outcome
        BY <1>0, <2>2, CommandsAssumption, StatusFacts DEF Cancelling
      <4>2. ASSUME OneAtATime PROVE command[c].status = "QUEUED"
        <5>1. \/ command[c].status = "QUEUED"
              \/ \E s \in Slot : request[s].op = "cancel" /\ request[s].cmd = c
          BY <2>2 DEF Cancelling
        <5>2. ASSUME NEW s \in Slot, request[s].op = "cancel"
              PROVE  command[request[s].cmd].status = "QUEUED"
          BY <4>2, <5>2 DEF DeliveryInv, SerialInv, CheckHolds
        <5>3. QED  BY <5>1, <5>2
      <4>3. QED  BY <1>1, <4>1, <4>2, StrictFacts DEF Contract!Cancellable
    <3>3. [c \in Command |-> command'[c].status] =
            [c \in Command |-> IF c \in S THEN "CANCELLED"
                               ELSE [b \in Command |-> command[b].status][c]]
      BY <2>2, <3>1 DEF Cancelling
    <3>4. QED  BY <1>3, <2>2, <3>2, <3>3 DEF Contract!Cancel, Cancelling
  <2>3. ASSUME NEW s \in Slot, ResultCommit(s)
        PROVE  \E k \in Command, o \in Outcome : Contract!Settle(k, o)
    <3>1. PICK k \in Command, o \in Outcome : k = request[s].cmd /\ o = request[s].outcome
      BY <1>0, <2>3, HandlerFacts DEF ResultCommit
    <3>2. /\ command[k] # NoRow
          /\ \A c \in Command : c # k => command'[c] = command[c]
          /\ command'[k].status = o
          /\ delivered' = delivered
      BY <1>0, <2>3, <3>1, CommandsAssumption, CommitFacts
    <3>3. o \in ran[k]
      BY <2>3, <3>1 DEF ResultCommit, DeliveryInv, LoopInv, ReportsOK, ReportOK, ReportOps
    <3>4. command[k].status \in Contract!Settleable
      <4>1. command[k].status \in {"QUEUED", "CANCELLED"} \cup Outcome
        BY <1>0, <3>2, CommandsAssumption, StatusFacts
      <4>2. ASSUME OneAtATime PROVE command[k].status \notin Outcome
        BY <2>3, <3>1, <4>2 DEF ResultCommit, DeliveryInv, SerialInv, CheckHolds
      <4>3. QED  BY <1>1, <4>1, <4>2, StrictFacts DEF Contract!Settleable
    <3>5. [c \in Command |-> command'[c].status] =
            [[c \in Command |-> command[c].status] EXCEPT ![k] = o]
      BY <3>2
    <3>6. Contract!Settle(k, o)
      BY <1>3, <3>2, <3>3, <3>4, <3>5 DEF Contract!Settle
    <3>7. QED  BY <3>6
  <2>4. ASSUME NEW s \in Slot, HeartbeatAnswer(s)
        PROVE  \E S \in SUBSET Command : Contract!Offer(S)
    <3>1. PICK S \in SUBSET Command : S = Pending(request[s].device)
      BY DEF Pending
    <3>2. \A c \in S : command[c].status = "QUEUED"
      BY <3>1 DEF Pending
    <3>3. delivered' = delivered \cup S /\ command' = command
      BY <2>4, <3>1 DEF HeartbeatAnswer, tables
    <3>4. Contract!Offer(S)
      BY <1>3, <3>2, <3>3 DEF Contract!Offer
    <3>5. QED  BY <3>4
  <2>5. ASSUME Keeping PROVE UNCHANGED Contract!vars
    BY <1>3, <2>5 DEF Keeping, Contract!vars
  <2>6. QED
    BY <1>0, <1>1, <2>1, <2>2, <2>3, <2>4, <2>5, CommandsAssumption, RowKinds DEF Contract!Next
<1>4. QED  BY <1>2, <1>3, RanKept

LEMMA ContractInit == DeliveryInit => Contract!Init
<1> SUFFICES ASSUME DeliveryInit PROVE Contract!Init
  OBVIOUS
<1>1. \A c \in Command : command[c].status = "ABSENT"
  BY DEF DeliveryInit, Init, NoRow
<1>2. delivered = {} /\ ran = [c \in Command |-> {}]
  BY DEF DeliveryInit, Init
<1>3. QED  BY <1>1, <1>2 DEF Contract!Init

\* An admin can rely on the contract whatever is lost, repeated, reordered or
\* forgotten: a command reaches its device only while it is queued, and is settled
\* with an outcome the device has produced; a settled command is final where
\* requests do not overlap.
THEOREM ImplementsContract == DeliverySpec => ContractSpec
<1>1. DeliveryInv /\ [DeliveryNext]_allVars => [Contract!Next]_(Contract!vars)
  BY ContractStep
<1>2. QED
  BY <1>1, ContractInit, DeliveryInvariant, PTL DEF DeliverySpec, ContractSpec, Contract!Spec
=============================================================================
