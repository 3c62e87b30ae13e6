-------------------------- MODULE CommandDelivery ---------------------------
(***************************************************************************)
(* The agent's loop against the command tables: heartbeat, flush of the    *)
(* results kept from earlier failures, execution of the commands the       *)
(* heartbeat answered, and the report of each result with retries.         *)
(*                                                                         *)
(* The agent awaits one request at a time.  It gives a request up after a  *)
(* timeout while the server may still be handling it; a lost request and   *)
(* a lost answer look the same to it.  Queued results live in memory only, *)
(* a crash or restart of the agent forgets them.                           *)
(***************************************************************************)
EXTENDS Commands, Sequences

CONSTANTS
    CommandResultRetries,  \* config.commandResultRetries
    MaxPendingResults,     \* the cap of pendingResults
    MaxFaults              \* bound: failures in a behaviour

ASSUME DeliveryAssumption ==
    /\ CommandResultRetries \in Nat
    /\ MaxPendingResults \in Nat \ {0}
    /\ MaxFaults \in Nat
    /\ IsFiniteSet(Slot)
    /\ None \notin Slot \cup Command

VARIABLES
    agent,           \* where each agent's loop stands
    pendingResults,  \* results it could not report, oldest first
    ran,             \* history: outcomes each command produced when executed
    excused,         \* history: commands whose report failed or was forgotten
    faults           \* failures so far

agentVars == <<agent, pendingResults, ran, excused>>
allVars == <<vars, agentVars, faults>>

Result == [cmd: Command, outcome: Outcome]

\* conn is the request the agent awaits; batch the commands still to execute.
Loop == [pc: {"idle", "heartbeat", "flush", "flushing", "execute", "report", "reporting"},
         conn: Slot \cup {None}, batch: SUBSET Command, attempt: 0 .. CommandResultRetries,
         cmd: Command \cup {None}, outcome: Outcome \cup {"NONE"}]

Asleep == [pc |-> "idle", conn |-> None, batch |-> {}, attempt |-> 0,
           cmd |-> None, outcome |-> "NONE"]

DeliveryInit ==
    /\ Init
    /\ agent = [d \in Device |-> Asleep]
    /\ pendingResults = [d \in Device |-> <<>>]
    /\ ran = [c \in Command |-> {}]
    /\ excused = {}
    /\ faults = 0

Fault == faults < MaxFaults /\ faults' = faults + 1

\* The agent that awaits the request in slot s, if it has not given it up.
Awaits(d, s) == agent[d].conn = s
Abandoned(s) == \A d \in Device : ~Awaits(d, s)

-----------------------------------------------------------------------------
(* Requests of the loop *)

\* loop() wakes up and sends the heartbeat, with telemetry or without.
SendHeartbeat(d, s) ==
    /\ agent[d].pc = "idle"
    /\ \E todo \in {{}, {"sync"}} : HeartbeatArrives(s, d, todo)
    /\ agent' = [agent EXCEPT ![d].pc = "heartbeat", ![d].conn = s]
    /\ UNCHANGED <<pendingResults, ran, excused, faults>>

\* flushPendingResults() reports the oldest queued result.
SendFlush(d, s) ==
    /\ agent[d].pc = "flush"
    /\ pendingResults[d] # <<>>
    /\ LET item == Head(pendingResults[d]) IN ReportArrives(s, item.cmd, item.outcome)
    /\ agent' = [agent EXCEPT ![d].pc = "flushing", ![d].conn = s]
    /\ UNCHANGED <<pendingResults, ran, excused, faults>>

FlushDone(d) ==
    /\ agent[d].pc = "flush"
    /\ pendingResults[d] = <<>>
    /\ agent' = [agent EXCEPT ![d].pc = "execute"]
    /\ UNCHANGED <<vars, pendingResults, ran, excused, faults>>

\* processCommands() executes the next command of the answer ...
Execute(d) ==
    /\ agent[d].pc = "execute"
    /\ \E c \in agent[d].batch, o \in Outcome :
         /\ \A b \in agent[d].batch : c <= b
         /\ agent' = [agent EXCEPT ![d].pc = "report", ![d].batch = @ \ {c},
                                   ![d].cmd = c, ![d].outcome = o]
         /\ ran' = [ran EXCEPT ![c] = @ \cup {o}]
    /\ UNCHANGED <<vars, pendingResults, excused, faults>>

\* ... reports its result ...
SendReport(d, s) ==
    /\ agent[d].pc = "report"
    /\ ReportArrives(s, agent[d].cmd, agent[d].outcome)
    /\ agent' = [agent EXCEPT ![d].pc = "reporting", ![d].conn = s]
    /\ UNCHANGED <<pendingResults, ran, excused, faults>>

\* ... and the loop sleeps when the answer is worked off.
LoopDone(d) ==
    /\ agent[d].pc = "execute"
    /\ agent[d].batch = {}
    /\ agent' = [agent EXCEPT ![d] = Asleep]
    /\ UNCHANGED <<vars, pendingResults, ran, excused, faults>>

-----------------------------------------------------------------------------
(* Answers *)

\* pendingResults.push, and shift beyond the cap.
Keep(queue, item) ==
    IF Len(queue) < MaxPendingResults THEN Append(queue, item)
                                      ELSE Append(Tail(queue), item)

\* A report was recorded, or found settled.
ReportOk(d) ==
    /\ agent' = [agent EXCEPT
         ![d].pc = IF agent[d].pc = "flushing" THEN "flush" ELSE "execute",
         ![d].conn = None, ![d].attempt = 0, ![d].cmd = None, ![d].outcome = "NONE"]
    /\ pendingResults' = [pendingResults EXCEPT
         ![d] = IF agent[d].pc = "flushing" THEN Tail(@) ELSE @]
    /\ UNCHANGED <<ran, excused>>

\* Errors of flushPendingResults(): only a retryable one keeps the result.
FlushError(d, retryable) ==
    /\ agent[d].pc = "flushing"
    /\ agent' = [agent EXCEPT ![d].pc = "execute", ![d].conn = None]
    /\ pendingResults' = [pendingResults EXCEPT ![d] = IF retryable THEN @ ELSE Tail(@)]
    /\ excused' = excused \cup {Head(pendingResults[d]).cmd}
    /\ UNCHANGED ran

\* Errors of reportResultWithRetry(): try again, or queue the result.
ReportError(d, retryable) ==
    /\ agent[d].pc = "reporting"
    /\ excused' = excused \cup {agent[d].cmd}
    /\ IF retryable /\ agent[d].attempt < CommandResultRetries
       THEN /\ agent' = [agent EXCEPT ![d].pc = "report", ![d].conn = None,
                                      ![d].attempt = @ + 1]
            /\ UNCHANGED pendingResults
       ELSE /\ agent' = [agent EXCEPT ![d].pc = "execute", ![d].conn = None,
                           ![d].attempt = 0, ![d].cmd = None, ![d].outcome = "NONE"]
            /\ pendingResults' = [pendingResults EXCEPT
                 ![d] = Keep(@, [cmd |-> agent[d].cmd, outcome |-> agent[d].outcome])]
    /\ UNCHANGED ran

\* Faulty variant: the error path schedules no next turn.
FaultyHeartbeatError(d) ==
    /\ agent[d].pc = "heartbeat"
    /\ agent' = [agent EXCEPT ![d].conn = None]
    /\ UNCHANGED <<pendingResults, ran, excused>>

\* A heartbeat that fails leaves the loop to its next turn.
HeartbeatError(d) ==
    /\ agent[d].pc = "heartbeat"
    /\ agent' = [agent EXCEPT ![d] = Asleep]
    /\ UNCHANGED <<pendingResults, ran, excused>>

Error(d, retryable) ==
    FlushError(d, retryable) \/ ReportError(d, retryable) \/ HeartbeatError(d)

\* The last step of a handler answers the agent that still waits for it.
HeartbeatAnswered(s) ==
    /\ HeartbeatAnswer(s)
    /\ \/ \E d \in Device :
            /\ Awaits(d, s)
            /\ agent' = [agent EXCEPT ![d].pc = "flush", ![d].conn = None,
                                      ![d].batch = Pending(d)]
            /\ UNCHANGED <<pendingResults, ran, excused>>
       \/ Abandoned(s) /\ UNCHANGED agentVars
    /\ UNCHANGED faults

ReportAnswered(s) ==
    /\ ResultRead(s) \/ RaiseAlert(s) \/ ResolveAlerts(s)
    /\ IF request'[s] = Idle
       THEN \/ \E d \in Device : Awaits(d, s) /\ ReportOk(d)
            \/ Abandoned(s) /\ UNCHANGED agentVars
       ELSE UNCHANGED agentVars
    /\ UNCHANGED faults

\* The refusal carries the database's error code, which the agent never retries.
ReportRejected(s) ==
    /\ ResultReject(s)
    /\ \/ \E d \in Device : Awaits(d, s) /\ Error(d, FALSE)
       \/ Abandoned(s) /\ UNCHANGED agentVars
    /\ UNCHANGED faults

-----------------------------------------------------------------------------
(* Failures *)

\* A handler fails.  The answer carries the error's own code when it has one,
\* as database errors do, and only INTERNAL_ERROR is retried by the agent.
\* After the transaction only a crash of the server stops the handler.
HandlerFails(s) ==
    /\ Fault
    /\ RequestFails(s)
    /\ \/ \E d \in Device, retryable \in BOOLEAN :
            /\ Awaits(d, s)
            /\ request[s].op \in {"raise", "recover"} => retryable
            /\ Error(d, retryable)
       \/ Abandoned(s) /\ UNCHANGED agentVars

\* An error after the transaction is logged and the report still succeeds.
AlertFails(s) ==
    /\ Fault
    /\ request[s].op \in {"raise", "recover"}
    /\ RequestFails(s)
    /\ \/ \E d \in Device : Awaits(d, s) /\ ReportOk(d)
       \/ Abandoned(s) /\ UNCHANGED agentVars

\* The agent's request timed out, or its answer was lost.
Timeout(d) ==
    /\ Fault
    /\ agent[d].conn # None
    /\ Error(d, TRUE)
    /\ UNCHANGED vars

\* The agent is killed or stopped and starts again with its saved identity.
Restart(d) ==
    LET queued == {pendingResults[d][i].cmd : i \in DOMAIN pendingResults[d]} IN
    /\ Fault
    /\ agent' = [agent EXCEPT ![d] = Asleep]
    /\ pendingResults' = [pendingResults EXCEPT ![d] = <<>>]
    /\ excused' = excused \cup queued \cup ({agent[d].cmd} \ {None})
    /\ UNCHANGED <<vars, ran>>

-----------------------------------------------------------------------------
AgentNext(d) ==
    \/ \E s \in Slot : SendHeartbeat(d, s) \/ SendFlush(d, s) \/ SendReport(d, s)
    \/ FlushDone(d)
    \/ Execute(d)
    \/ LoopDone(d)

ServerNext(s) ==
    \/ ConsoleSteps(s) /\ UNCHANGED <<agentVars, faults>>
    \/ /\ (\E reported \in SUBSET Patch : SyncPatches(s, reported)) \/ ResultCommit(s)
       /\ UNCHANGED <<agentVars, faults>>
    \/ HeartbeatAnswered(s)
    \/ ReportAnswered(s)
    \/ ReportRejected(s)

FaultNext ==
    \/ \E s \in Slot : HandlerFails(s) \/ AlertFails(s)
    \/ \E d \in Device : Timeout(d) \/ Restart(d)

DeliveryNext ==
    \/ \E s \in Slot : Console(s) /\ UNCHANGED <<agentVars, faults>>
    \/ \E d \in Device : AgentNext(d)
    \/ \E s \in Slot : ServerNext(s)
    \/ FaultNext

DeliverySpec == DeliveryInit /\ [][DeliveryNext]_allVars

\* The event loops go on: the agent's timer fires and the server finishes what
\* it has begun.  Nothing is assumed of the admins, and failures only happen.
Fairness ==
    /\ \A d \in Device : WF_allVars(AgentNext(d))
    /\ \A s \in Slot : WF_allVars(ServerNext(s))

FairDeliverySpec == DeliverySpec /\ Fairness

-----------------------------------------------------------------------------
(* Properties *)

\* A device is listed as failed for a patch only if its agent ran an install of
\* that patch and the install failed.
FailureGenuine ==
    \A d \in Device, p \in Patch : devicePatch[d][p] = "FAILED" =>
        \E c \in Command : /\ command[c].device = d
                           /\ command[c].item = p
                           /\ "FAILED" \in ran[c]

\* A command cancelled before an answer held it stays cancelled, is never handed
\* out and never runs.
CancelInTime ==
    [][\A c \in Command : command[c].status = "CANCELLED" /\ c \notin delivered
         => /\ command'[c] = command[c]
            /\ c \notin delivered'
            /\ ran'[c] = ran[c]]_allVars

\* The agent runs a command again only when a report of it failed or a restart
\* forgot it: a report it saw accepted ends the command.
RerunExcused ==
    [][\A d \in Device :
         /\ agent[d].pc = "execute" /\ agent'[d].pc = "report"
         /\ ran[agent'[d].cmd] # {}
         => agent'[d].cmd \in excused]_allVars

\* The device is handed commands, runs them and settles them as the contract says.
Contract == INSTANCE CommandContract WITH
    Strict <- Cardinality(Slot) = 1,
    status <- [c \in Command |-> command[c].status],
    offered <- delivered,
    produced <- ran

ContractSpec == Contract!Spec

\* A queued command does not stay queued: it is cancelled, or delivered, run and
\* settled, once failures have ceased.
QueueDrains ==
    \A c \in Command : command[c].status = "QUEUED" ~> command[c].status # "QUEUED"
=============================================================================
