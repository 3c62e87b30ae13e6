------------------------------ MODULE Commands ------------------------------
(***************************************************************************)
(* The command tables of the API server: the Command, Deployment,          *)
(* DevicePatch and Patch rows, the COMMAND_FAILED alerts, and every        *)
(* handler that changes a command.                                         *)
(*                                                                         *)
(* A handler is an async function: it runs one database statement (or one  *)
(* $transaction) at a time and any other handler may run between two of    *)
(* them.  A Slot is a request in flight; request[s] holds what its handler *)
(* has read so far, and each action below is one statement of a handler    *)
(* with the code that follows it.                                          *)
(*                                                                         *)
(* The agent is left open here: it may report any outcome of a command it  *)
(* has been handed.  CommandDelivery puts the agent in its place.          *)
(***************************************************************************)
EXTENDS Naturals, FiniteSets, Functions

CONSTANTS
    MaxCommands,   \* bound: rows the command table ever holds
    Device,
    Patch,         \* ids of Patch rows, those not created yet included
    Application,   \* managed applications
    Slot,          \* requests in flight at once
    IssuedTypes,   \* command types an admin issues one by one
    PendingTake,   \* PENDING_COMMAND_TAKE
    None

SoftwareTypes == {"INSTALL_APPLICATION", "UNINSTALL_APPLICATION"}
Types == {"REFRESH_INVENTORY", "SYNC_POLICY", "LOCK_DEVICE", "RESTART_DEVICE",
          "SHUTDOWN_DEVICE", "INSTALL_PATCH"} \cup SoftwareTypes
Outcome == {"COMPLETED", "FAILED"}

ASSUME CommandsAssumption ==
    /\ MaxCommands \in Nat
    /\ PendingTake \in Nat \ {0}
    /\ IssuedTypes \subseteq Types
    /\ Patch \cap Application = {}
    /\ None \notin Device \cup Patch \cup Application

VARIABLES
    command,      \* the Command rows, ids in creation order
    deployment,   \* status of the Deployment row a command drives
    catalog,      \* the Patch rows
    devicePatch,  \* status of each DevicePatch row
    alert,        \* the COMMAND_FAILED alert with dedupKey command:<id>
    request,      \* the handlers in flight
    delivered     \* history: commands some pendingCommands answer has held

vars == <<command, deployment, catalog, devicePatch, alert, request, delivered>>
tables == <<command, deployment, catalog, devicePatch, alert>>

Command == 1 .. MaxCommands
Item == Patch \cup Application

-----------------------------------------------------------------------------
(* Rows *)

\* A row that does not exist yet.
NoRow == [status |-> "ABSENT", device |-> None, type |-> "NONE", item |-> None]

\* item is the patchId of a patch install, or the application of the linked
\* deployment; a command issued one by one has neither.
QueuedRow(d, t, i) == [status |-> "QUEUED", device |-> d, type |-> t, item |-> i]

Row == [status: {"QUEUED", "CANCELLED"} \cup Outcome, device: Device,
        type: Types, item: Item \cup {None}] \cup {NoRow}

\* Faulty variant: only a command the agent has taken counts as in flight.
FaultyActive(c) == command[c].status \in {"SENT", "RUNNING"}

\* ACTIVE_COMMAND_STATUSES
Active(c) == command[c].status \in {"QUEUED", "SENT", "RUNNING"}

Fresh == {c \in Command : command[c] = NoRow}

\* The next rows of the table, one for each device of D.
Placements(D) ==
    UNION {Bijection(ids, D) :
             ids \in {I \in SUBSET Fresh : \A c \in I, b \in Fresh \ I : c < b}}

\* Faulty variant: the filter on the status is missing.
FaultyPending(d) ==
    LET rows == {c \in Command : command[c].device = d}
    IN  {c \in rows : Cardinality({b \in rows : b < c}) < PendingTake}

\* The query of the heartbeat answer: oldest QUEUED rows of the device first.
Pending(d) ==
    LET queued == {c \in Command : command[c].status = "QUEUED"
                                   /\ command[c].device = d}
    IN  {c \in queued : Cardinality({b \in queued : b < c}) < PendingTake}

-----------------------------------------------------------------------------
(* Requests *)

Idle == [op |-> "idle", cmd |-> None, outcome |-> "NONE", type |-> "NONE",
         item |-> None, device |-> None, targets |-> {}, todo |-> {}]

Op == {"idle", "cancel", "queue", "delete", "heartbeat",
       "report", "result", "raise", "recover"}

Request == [op: Op, cmd: Command \cup {None}, outcome: Outcome \cup {"NONE"},
            type: Types \cup {"NONE"}, item: Item \cup {None},
            device: Device \cup {None}, targets: SUBSET Device,
            todo: SUBSET {"states", "active", "sync"}]

Begin(s, r) == /\ request[s] = Idle
               /\ request' = [request EXCEPT ![s] = r]
Finish(s) == request' = [request EXCEPT ![s] = Idle]

Init ==
    /\ command = [c \in Command |-> NoRow]
    /\ deployment = [c \in Command |-> "NONE"]
    /\ catalog = [p \in Patch |-> "NEW"]
    /\ devicePatch = [d \in Device |-> [p \in Patch |-> "NONE"]]
    /\ alert = [c \in Command |-> "NONE"]
    /\ request = [s \in Slot |-> Idle]
    /\ delivered = {}

-----------------------------------------------------------------------------
(* Issuing and cancelling commands one by one: commands.routes.ts *)

\* POST /commands: one create, in one statement.
CreateCommand(s, d, t) ==
    /\ request[s] = Idle
    /\ \E place \in Placements({d}) :
         command' = [c \in Command |-> IF c \in DOMAIN place
                                       THEN QueuedRow(d, t, None)
                                       ELSE command[c]]
    /\ UNCHANGED <<deployment, catalog, devicePatch, alert, request, delivered>>

\* Faulty variant: any command that has not been cancelled may be.
FaultyCancelRead(s, c) ==
    /\ command[c].status \notin {"ABSENT", "CANCELLED"}
    /\ Begin(s, [Idle EXCEPT !.op = "cancel", !.cmd = c])
    /\ UNCHANGED <<tables, delivered>>

\* POST /commands/:id/cancel reads the row; 409 unless it is QUEUED.
CancelRead(s, c) ==
    /\ command[c].status = "QUEUED"
    /\ Begin(s, [Idle EXCEPT !.op = "cancel", !.cmd = c])
    /\ UNCHANGED <<tables, delivered>>

\* ... and then updates it by id, whatever its status has become.
CancelWrite(s) ==
    /\ request[s].op = "cancel"
    /\ command' = [command EXCEPT ![request[s].cmd].status = "CANCELLED"]
    /\ Finish(s)
    /\ UNCHANGED <<deployment, catalog, devicePatch, alert, delivered>>

-----------------------------------------------------------------------------
(* Rolling out patches and software: patches.routes.ts and                 *)
(* software-catalog.routes.ts.  The three deployments share their shape:   *)
(* read who has the item or has it in flight, then queue the others.       *)

\* POST /patches: the approval status of a patch is left out, no command
\* depends on it.
CreatePatch(s, p) ==
    /\ request[s] = Idle
    /\ catalog[p] = "NEW"
    /\ catalog' = [catalog EXCEPT ![p] = "LISTED"]
    /\ UNCHANGED <<command, deployment, devicePatch, alert, request, delivered>>

\* POST /patches/:id/deploy on a device list, groups or the whole organization.
DeployPatch(s, p, D) ==
    /\ catalog[p] = "LISTED"
    /\ Begin(s, [Idle EXCEPT !.op = "queue", !.type = "INSTALL_PATCH", !.item = p,
                             !.targets = D, !.todo = {"states", "active"}])
    /\ UNCHANGED <<tables, delivered>>

\* POST /patches/:id/retry reads the devices whose install failed.
RetryPatch(s, p) ==
    LET failed == {d \in Device : devicePatch[d][p] = "FAILED"} IN
    /\ catalog[p] = "LISTED"
    /\ failed # {}
    /\ Begin(s, [Idle EXCEPT !.op = "queue", !.type = "INSTALL_PATCH", !.item = p,
                             !.targets = failed, !.todo = {"active"}])
    /\ UNCHANGED <<tables, delivered>>

\* POST /software/deploy, INSTALL or UNINSTALL, on a device or a group.
DeploySoftware(s, t, a, D) ==
    /\ Begin(s, [Idle EXCEPT !.op = "queue", !.type = t, !.item = a,
                             !.targets = D, !.todo = {"active"}])
    /\ UNCHANGED <<tables, delivered>>

\* Skips the devices that already have the patch.
ReadStates(s) ==
    /\ "states" \in request[s].todo
    /\ LET has == {d \in request[s].targets :
                     devicePatch[d][request[s].item] = "INSTALLED"}
       IN  request' = [request EXCEPT ![s].todo = @ \ {"states"},
                                      ![s].targets = @ \ has]
    /\ UNCHANGED <<tables, delivered>>

\* The devices that have the same command in flight.
InFlight(t, i) ==
    {command[c].device : c \in {b \in Command : /\ Active(b)
                                                /\ command[b].type = t
                                                /\ command[b].item = i}}

ReadActive(s) ==
    /\ "active" \in request[s].todo
    /\ LET busy == InFlight(request[s].type, request[s].item)
       IN  request' = [request EXCEPT ![s].todo = @ \ {"active"},
                                      ![s].targets = @ \ busy]
    /\ UNCHANGED <<tables, delivered>>

\* createMany, or the transaction that also creates the PENDING deployments.
\* Command.patchId has no foreign key: the patch may be gone.
QueueRows(s) ==
    /\ request[s].op = "queue"
    /\ request[s].todo = {}
    /\ \E place \in Placements(request[s].targets) :
         /\ command' = [c \in Command |->
                          IF c \in DOMAIN place
                          THEN QueuedRow(place[c], request[s].type, request[s].item)
                          ELSE command[c]]
         /\ deployment' = [c \in Command |->
                             IF c \in DOMAIN place /\ request[s].type \in SoftwareTypes
                             THEN "PENDING"
                             ELSE deployment[c]]
    /\ Finish(s)
    /\ UNCHANGED <<catalog, devicePatch, alert, delivered>>

\* Bound: a table without room refuses the rows, as a failed statement would.
TableFull(s) ==
    /\ request[s].op = "queue"
    /\ request[s].todo = {}
    /\ Placements(request[s].targets) = {}
    /\ Finish(s)
    /\ UNCHANGED <<tables, delivered>>

\* POST /patches/:id/cancel: one guarded updateMany.
CancelPatch(s, p) ==
    /\ request[s] = Idle
    /\ catalog[p] = "LISTED"
    /\ command' = [c \in Command |->
                     IF command[c].item = p /\ command[c].status = "QUEUED"
                     THEN [command[c] EXCEPT !.status = "CANCELLED"]
                     ELSE command[c]]
    /\ UNCHANGED <<deployment, catalog, devicePatch, alert, request, delivered>>

\* Faulty variant: the check for installs in flight is missing.
FaultyDeletePatchCheck(s, p) ==
    /\ catalog[p] = "LISTED"
    /\ Begin(s, [Idle EXCEPT !.op = "delete", !.item = p])
    /\ UNCHANGED <<tables, delivered>>

\* DELETE /patches/:id counts the installs in flight; 409 if there is one.
DeletePatchCheck(s, p) ==
    /\ catalog[p] = "LISTED"
    /\ \A c \in Command : command[c].item = p => ~Active(c)
    /\ Begin(s, [Idle EXCEPT !.op = "delete", !.item = p])
    /\ UNCHANGED <<tables, delivered>>

\* ... and then deletes the row with its DevicePatch rows.
DeletePatch(s) ==
    LET p == request[s].item IN
    /\ request[s].op = "delete"
    /\ catalog[p] = "LISTED"
    /\ catalog' = [catalog EXCEPT ![p] = "DELETED"]
    /\ devicePatch' = [d \in Device |-> [devicePatch[d] EXCEPT ![p] = "NONE"]]
    /\ Finish(s)
    /\ UNCHANGED <<command, deployment, alert, delivered>>

-----------------------------------------------------------------------------
(* The agent's requests: agent.routes.ts *)

\* A heartbeat arrives, with the installed updates or without.
HeartbeatArrives(s, d, todo) ==
    /\ Begin(s, [Idle EXCEPT !.op = "heartbeat", !.device = d, !.todo = todo])
    /\ UNCHANGED <<tables, delivered>>

\* Faulty variant: a patch no longer reported is taken for a failed install.
FaultySyncPatches(s, reported) ==
    LET d == request[s].device IN
    /\ "sync" \in request[s].todo
    /\ \A p \in reported : catalog[p] # "DELETED"
    /\ catalog' = [p \in Patch |-> IF p \in reported THEN "LISTED" ELSE catalog[p]]
    /\ devicePatch' =
         [devicePatch EXCEPT ![d] =
            [p \in Patch |-> CASE p \in reported -> "INSTALLED"
                               [] p \notin reported /\ devicePatch[d][p] = "INSTALLED" -> "FAILED"
                               [] OTHER -> devicePatch[d][p]]]
    /\ request' = [request EXCEPT ![s].todo = {}]
    /\ UNCHANGED <<command, deployment, alert, delivered>>

\* The transaction that mirrors the reported updates: an unknown KB becomes a
\* new catalog row, and an installed patch no longer reported goes MISSING.
SyncPatches(s, reported) ==
    LET d == request[s].device IN
    /\ "sync" \in request[s].todo
    /\ \A p \in reported : catalog[p] # "DELETED"
    /\ catalog' = [p \in Patch |-> IF p \in reported THEN "LISTED" ELSE catalog[p]]
    /\ devicePatch' =
         [devicePatch EXCEPT ![d] =
            [p \in Patch |-> CASE p \in reported -> "INSTALLED"
                               [] p \notin reported /\ devicePatch[d][p] = "INSTALLED" -> "MISSING"
                               [] OTHER -> devicePatch[d][p]]]
    /\ request' = [request EXCEPT ![s].todo = {}]
    /\ UNCHANGED <<command, deployment, alert, delivered>>

\* Faulty variant: delivery marks the commands SENT.
FaultyHeartbeatAnswer(s) ==
    LET sent == Pending(request[s].device) IN
    /\ request[s].op = "heartbeat"
    /\ request[s].todo = {}
    /\ delivered' = delivered \cup sent
    /\ command' = [c \in Command |-> IF c \in sent
                                     THEN [command[c] EXCEPT !.status = "SENT"]
                                     ELSE command[c]]
    /\ Finish(s)
    /\ UNCHANGED <<deployment, catalog, devicePatch, alert>>

\* The answer lists the oldest QUEUED commands and leaves them QUEUED.
HeartbeatAnswer(s) ==
    /\ request[s].op = "heartbeat"
    /\ request[s].todo = {}
    /\ delivered' = delivered \cup Pending(request[s].device)
    /\ Finish(s)
    /\ UNCHANGED tables

\* POST /agent/commands/:id/result arrives.
ReportArrives(s, c, o) ==
    /\ Begin(s, [Idle EXCEPT !.op = "report", !.cmd = c, !.outcome = o])
    /\ UNCHANGED <<tables, delivered>>

\* Faulty variant: the early return for settled commands is missing.
FaultyResultRead(s) ==
    /\ request[s].op = "report"
    /\ request' = [request EXCEPT ![s].op = "result"]
    /\ UNCHANGED <<tables, delivered>>

\* The handler reads the row; a COMPLETED or FAILED one is answered as it is.
ResultRead(s) ==
    /\ request[s].op = "report"
    /\ IF command[request[s].cmd].status \in Outcome
       THEN Finish(s)
       ELSE request' = [request EXCEPT ![s].op = "result"]
    /\ UNCHANGED <<tables, delivered>>

\* A DevicePatch row of a deleted patch violates its foreign key.
ResultRejected(s) ==
    LET row == command[request[s].cmd]
    IN  row.type = "INSTALL_PATCH" /\ row.item \in Patch /\ catalog[row.item] = "DELETED"

\* Faulty variant: a failure leaves the deployment as it is.
FaultyResultCommit(s) ==
    LET c == request[s].cmd
        o == request[s].outcome
        row == command[c]
    IN
    /\ request[s].op = "result"
    /\ ~ResultRejected(s)
    /\ command' = [command EXCEPT ![c].status = o]
    /\ deployment' = [deployment EXCEPT ![c] =
         IF @ # "NONE" /\ o = "COMPLETED" THEN o ELSE @]
    /\ devicePatch' =
         IF row.type = "INSTALL_PATCH" /\ row.item \in Patch
         THEN [devicePatch EXCEPT ![row.device][row.item] =
                 IF o = "COMPLETED" THEN "INSTALLED" ELSE "FAILED"]
         ELSE devicePatch
    /\ request' = [request EXCEPT ![s].op = IF o = "FAILED" THEN "raise" ELSE "recover"]
    /\ UNCHANGED <<catalog, alert, delivered>>

\* The transaction: the command by id, the deployment it drives and the
\* DevicePatch row of a patch install all take the reported outcome.
ResultCommit(s) ==
    LET c == request[s].cmd
        o == request[s].outcome
        row == command[c]
    IN
    /\ request[s].op = "result"
    /\ ~ResultRejected(s)
    /\ command' = [command EXCEPT ![c].status = o]
    /\ deployment' = [deployment EXCEPT ![c] = IF @ = "NONE" THEN @ ELSE o]
    /\ devicePatch' =
         IF row.type = "INSTALL_PATCH" /\ row.item \in Patch
         THEN [devicePatch EXCEPT ![row.device][row.item] =
                 IF o = "COMPLETED" THEN "INSTALLED" ELSE "FAILED"]
         ELSE devicePatch
    /\ request' = [request EXCEPT ![s].op = IF o = "FAILED" THEN "raise" ELSE "recover"]
    /\ UNCHANGED <<catalog, alert, delivered>>

\* ... which is rolled back, and the report refused, when it cannot commit.
ResultReject(s) ==
    /\ request[s].op = "result"
    /\ ResultRejected(s)
    /\ Finish(s)
    /\ UNCHANGED <<tables, delivered>>

\* After the transaction a failure raises its alert, once while unresolved.
RaiseAlert(s) ==
    /\ request[s].op = "raise"
    /\ alert' = [alert EXCEPT ![request[s].cmd] = "UNRESOLVED"]
    /\ Finish(s)
    /\ UNCHANGED <<command, deployment, catalog, devicePatch, delivered>>

\* ... and a success resolves the alerts of its type on the device.
ResolveAlerts(s) ==
    LET row == command[request[s].cmd] IN
    /\ request[s].op = "recover"
    /\ alert' = [c \in Command |->
                   IF /\ alert[c] = "UNRESOLVED"
                      /\ command[c].device = row.device
                      /\ command[c].type = row.type
                   THEN "RESOLVED" ELSE alert[c]]
    /\ Finish(s)
    /\ UNCHANGED <<command, deployment, catalog, devicePatch, delivered>>

\* A statement that fails ends its handler; what it wrote before stays.  A
\* crash of the API process is the failure of every request in flight.
RequestFails(s) ==
    /\ request[s] # Idle
    /\ Finish(s)
    /\ UNCHANGED <<tables, delivered>>

-----------------------------------------------------------------------------
Console(s) ==
    \/ \E d \in Device, t \in IssuedTypes : CreateCommand(s, d, t)
    \/ \E c \in Command : CancelRead(s, c)
    \/ \E p \in Patch : CreatePatch(s, p)
    \/ \E p \in Patch, D \in (SUBSET Device) \ {{}} : DeployPatch(s, p, D)
    \/ \E p \in Patch : RetryPatch(s, p)
    \/ \E t \in SoftwareTypes, a \in Application, D \in (SUBSET Device) \ {{}} :
         DeploySoftware(s, t, a, D)
    \/ \E p \in Patch : CancelPatch(s, p)
    \/ \E p \in Patch : DeletePatchCheck(s, p)

ConsoleSteps(s) ==
    \/ CancelWrite(s)
    \/ ReadStates(s)
    \/ ReadActive(s)
    \/ QueueRows(s)
    \/ TableFull(s)
    \/ DeletePatch(s)

\* The agent, as far as the server can tell.
AgentRequests(s) ==
    \/ \E d \in Device, todo \in {{}, {"sync"}} : HeartbeatArrives(s, d, todo)
    \/ \E c \in delivered, o \in Outcome : ReportArrives(s, c, o)

AgentSteps(s) ==
    \/ \E reported \in SUBSET Patch : SyncPatches(s, reported)
    \/ HeartbeatAnswer(s)
    \/ ResultRead(s)
    \/ ResultCommit(s)
    \/ ResultReject(s)
    \/ RaiseAlert(s)
    \/ ResolveAlerts(s)

Next == \E s \in Slot :
    Console(s) \/ ConsoleSteps(s) \/ AgentRequests(s) \/ AgentSteps(s) \/ RequestFails(s)

Spec == Init /\ [][Next]_vars

-----------------------------------------------------------------------------
(* Properties *)

\* Every variable holds what the schema and the handlers allow; in particular
\* no row is ever SENT or RUNNING.
TypeOK ==
    /\ command \in [Command -> Row]
    /\ deployment \in [Command -> {"NONE", "PENDING"} \cup Outcome]
    /\ catalog \in [Patch -> {"NEW", "LISTED", "DELETED"}]
    /\ devicePatch \in [Device -> [Patch -> {"NONE", "MISSING", "INSTALLED", "FAILED"}]]
    /\ alert \in [Command -> {"NONE", "UNRESOLVED", "RESOLVED"}]
    /\ request \in [Slot -> Request]
    /\ delivered \subseteq Command

\* A deployment shows the outcome of the command that drives it, however many
\* reports of that command race: it is settled with it and never before it.
DeploymentMirrors ==
    \A c \in Command : deployment[c] # "NONE" =>
        /\ command[c].status \in Outcome => deployment[c] = command[c].status
        /\ command[c].status = "QUEUED" => deployment[c] = "PENDING"

\* The result handler's promise: a COMPLETED or FAILED command keeps its status.
\* It holds as long as requests do not overlap.
TerminalIsFinal ==
    [][\A c \in Command : command[c].status \in Outcome
                          => command'[c].status = command[c].status]_vars

\* The same promise for a cancelled command, which the handler leaves out.
CancelledIsFinal ==
    [][\A c \in Command : command[c].status = "CANCELLED"
                          => command'[c].status = "CANCELLED"]_vars

\* The skipping of devices that already have the same action for the same item
\* in flight.  It holds as long as requests do not overlap.
NoDuplicateInstall ==
    \A b, c \in Command :
        /\ command[b].status = "QUEUED" /\ command[c].status = "QUEUED"
        /\ command[b].item # None
        /\ command[b].item = command[c].item
        /\ command[b].type = command[c].type
        /\ command[b].device = command[c].device
        => b = c

\* A patch is not deleted while installs of it are in flight, so their results
\* can be recorded.  It holds as long as requests do not overlap.
InstallHasPatch ==
    \A c \in Command : command[c].status = "QUEUED" /\ command[c].item \in Patch
        => catalog[command[c].item] = "LISTED"

\* A failure alert belongs to a command that failed.  It holds as long as
\* requests do not overlap: nothing takes the failure back after the alert.
AlertMatchesFailure ==
    \A c \in Command : alert[c] # "NONE" => command[c].status = "FAILED"
=============================================================================
