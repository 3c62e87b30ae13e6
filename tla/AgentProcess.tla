----------------------------- MODULE AgentProcess -----------------------------
(***************************************************************************)
(* AgentProcess: the life of one agent process: its two timers, the turns  *)
(* of its loop, its enrolment, and what survives in the state file when it *)
(* stops.  CommandDelivery models what a turn does with commands; here a   *)
(* turn is its heartbeat and the work that follows, and there may be more  *)
(* than one at a time.                                                     *)
(*                                                                         *)
(* The process is single-threaded: an action is the code that runs from    *)
(* one await, or timer, to the next.  Delays are left out: a timer that is *)
(* armed may fire at any time.                                             *)
(***************************************************************************)
EXTENDS Naturals, FiniteSets

CONSTANTS
    Turn,           \* invocations of loop() in flight at once
    Uses,           \* how often the configured enrollment token may be used
    MaxRevocations, \* bound: the server withdraws the credentials
    MaxFaults       \* bound: failures, and stops of the process

ASSUME AgentAssumption ==
    /\ Uses \in Nat /\ MaxRevocations \in Nat /\ MaxFaults \in Nat

VARIABLES
    mode,       \* a console to ask at, a configured token, or neither
    proc,       \* whether the process is up
    file,       \* the credentials in the state file
    state,      \* the credentials in memory
    attempt,    \* where attempt() stands; the flag enrolling is attempt # "NONE"
    boot,       \* the timer of main() is armed
    loopTimer,  \* loopTimer is armed
    turn,       \* the invocations of loop() that wait for something
    forceTelemetry, consecutiveFailures,
    issued,     \* credentials the server has issued, numbered
    live,       \* those it accepts, NoCred when they are withdrawn
    uses,       \* what is left of the enrollment token the agent has
    owed,       \* for checking: an inventory is called for and has not arrived
    raced,      \* for checking: an enrolment ended before the timer of main() fired
    revoked, faults

turnVars == <<boot, loopTimer, turn>>
telemetryVars == <<forceTelemetry, consecutiveFailures, owed>>
serverVars == <<issued, live, uses>>
boundVars == <<raced, revoked>>
agentProcessVars == <<mode, proc, file, state, attempt, turnVars, telemetryVars, serverVars, boundVars, faults>>

NoCred == 0

\* Bound: credentials issued.  One loop never gets there.
MaxIssued == 2 + MaxFaults + MaxRevocations
Cred == 0 .. MaxIssued

\* What a turn sends is FULL, PARTIAL (without the hardware) or NONE; current:
\* collected after the last event that calls for an inventory.
Idle == [pc |-> "idle", cred |-> NoCred, telemetry |-> "NONE", current |-> FALSE]
Sent(c, telemetry) == [pc |-> "sent", cred |-> c, telemetry |-> telemetry, current |-> TRUE]
TurnState == [pc: {"idle", "sent", "accepted", "rejected", "work"}, cred: Cred,
              telemetry: {"NONE", "PARTIAL", "FULL"}, current: BOOLEAN]
Busy == {t \in Turn : turn[t].pc # "idle"}

AgentInit ==
    /\ mode \in {"CONSOLE", "TOKEN", "BARE"}
    /\ proc = "down"
    /\ file \in IF mode = "BARE" THEN {1} ELSE {NoCred, 1} \* else it exits at once
    /\ issued = file /\ live = file
    /\ uses = IF mode = "TOKEN" THEN Uses ELSE 0
    /\ state = NoCred /\ attempt = "NONE"
    /\ boot = FALSE /\ loopTimer = FALSE /\ turn = [t \in Turn |-> Idle]
    /\ forceTelemetry = FALSE /\ consecutiveFailures = 0
    /\ owed = FALSE /\ raced = FALSE /\ revoked = 0 /\ faults = 0

Fault == faults < MaxFaults /\ faults' = faults + 1

\* An inventory is called for: what was collected before is not enough.
Owe == owed' = TRUE /\ turn' = [t \in Turn |-> [turn[t] EXCEPT !.current = FALSE]]

-----------------------------------------------------------------------------
(* The process starts and stops *)

\* main(): with saved credentials a fresh inventory is due, without them the
\* agent enrolls; either way the first turn comes when the timer fires.
Start ==
    /\ proc = "down"
    /\ file # NoCred \/ mode # "BARE"
    /\ proc' = "running" /\ state' = file /\ boot' = TRUE
    /\ attempt' = IF file # NoCred THEN "NONE" ELSE IF mode = "CONSOLE" THEN "PROMPT" ELSE "TRY"
    /\ forceTelemetry' = (file # NoCred) /\ owed' = (file # NoCred)
    /\ UNCHANGED <<mode, file, loopTimer, turn, consecutiveFailures, serverVars, boundVars, faults>>

\* The process ends, and what it had in memory is gone.
Ends ==
    /\ proc' = "down" /\ state' = NoCred /\ attempt' = "NONE"
    /\ boot' = FALSE /\ loopTimer' = FALSE /\ turn' = [t \in Turn |-> Idle]
    /\ forceTelemetry' = FALSE /\ consecutiveFailures' = 0 /\ owed' = FALSE

\* SIGINT or SIGTERM: no turn is scheduled any more, what is in flight goes on ...
Shutdown ==
    /\ proc = "running" /\ Fault
    /\ proc' = "stopping" /\ loopTimer' = FALSE
    /\ UNCHANGED <<mode, file, state, attempt, boot, turn, telemetryVars, serverVars, boundVars>>

\* ... until the process exits.
Exit ==
    /\ proc = "stopping" /\ Ends
    /\ UNCHANGED <<mode, file, serverVars, boundVars, faults>>

Crash ==
    /\ proc = "running" /\ Fault /\ Ends
    /\ UNCHANGED <<mode, file, serverVars, boundVars>>

-----------------------------------------------------------------------------
(* The loop *)

\* Faulty variant: the timer there is goes on.
FaultyScheduleNext == loopTimer' = (proc = "running" /\ Busy = {})

\* scheduleNext() replaces the loopTimer, and does nothing once the process stops.
ScheduleNext == loopTimer' = (proc = "running")

\* Faulty variant: the loop does not wait for an enrolment.
FaultyLoop(byBoot) ==
    /\ IF byBoot THEN boot /\ boot' = FALSE ELSE loopTimer /\ UNCHANGED boot
    /\ IF proc = "stopping"
       THEN ScheduleNext /\ UNCHANGED <<turn, faults>>
       ELSE /\ loopTimer' = (loopTimer /\ byBoot) /\ UNCHANGED faults
            /\ \E t \in Turn \ Busy : turn' = [turn EXCEPT ![t] = Sent(state, "FULL")]
    /\ UNCHANGED <<mode, proc, file, state, attempt, telemetryVars, serverVars, boundVars>>

\* loop(), called by the timer of main(), which scheduleNext() does not know of,
\* or by loopTimer: a turn sends its heartbeat, with an inventory when one is
\* forced or it is time, unless there is nothing to do yet.
Loop(byBoot) ==
    /\ IF byBoot THEN boot /\ boot' = FALSE ELSE loopTimer /\ UNCHANGED boot
    /\ IF state = NoCred \/ attempt # "NONE" \/ proc = "stopping"
       THEN ScheduleNext /\ UNCHANGED <<turn, faults>>
       ELSE /\ loopTimer' = (loopTimer /\ byBoot)
            /\ \E t \in Turn \ Busy, telemetry \in {"NONE", "PARTIAL", "FULL"} :
                 /\ forceTelemetry => telemetry # "NONE"
                 /\ IF telemetry = "PARTIAL" THEN Fault ELSE UNCHANGED faults
                 /\ turn' = [turn EXCEPT ![t] = Sent(state, telemetry)]
    /\ UNCHANGED <<mode, proc, file, state, attempt, telemetryVars, serverVars, boundVars>>

\* The server answers a heartbeat.
Judge(t) ==
    LET accepted == turn[t].cred = live IN
    /\ turn[t].pc = "sent"
    /\ turn' = [turn EXCEPT ![t].pc = IF accepted THEN "accepted" ELSE "rejected"]
    /\ owed' = (owed /\ ~(accepted /\ turn[t].telemetry = "FULL" /\ turn[t].current))
    /\ UNCHANGED <<mode, proc, file, state, attempt, boot, loopTimer, forceTelemetry,
                   consecutiveFailures, serverVars, boundVars, faults>>

\* Faulty variant: whatever was collected counts as an inventory.
FaultyAccepted(t) ==
    /\ turn[t].pc = "accepted"
    /\ turn' = [turn EXCEPT ![t].pc = "work"]
    /\ consecutiveFailures' = 0
    /\ forceTelemetry' = (turn[t].telemetry = "NONE" /\ forceTelemetry)
    /\ UNCHANGED <<mode, proc, file, state, attempt, boot, loopTimer, owed, serverVars, boundVars, faults>>

\* heartbeat() goes on: only an inventory with the hardware in it counts.
Accepted(t) ==
    /\ turn[t].pc = "accepted"
    /\ turn' = [turn EXCEPT ![t].pc = "work"]
    /\ consecutiveFailures' = 0
    /\ forceTelemetry' = CASE turn[t].telemetry = "FULL" -> FALSE
                           [] turn[t].telemetry = "PARTIAL" -> TRUE
                           [] OTHER -> forceTelemetry
    /\ UNCHANGED <<mode, proc, file, state, attempt, boot, loopTimer, owed, serverVars, boundVars, faults>>

\* processCommands() runs a REFRESH_INVENTORY ...
RefreshRuns(t) ==
    /\ turn[t].pc = "work" /\ proc = "running"
    /\ forceTelemetry' = TRUE /\ Owe
    /\ UNCHANGED <<mode, proc, file, state, attempt, boot, loopTimer, consecutiveFailures,
                   serverVars, boundVars, faults>>

\* ... and the turn is over when all commands are done with.
WorkDone(t) ==
    /\ turn[t].pc = "work"
    /\ turn' = [turn EXCEPT ![t] = Idle]
    /\ ScheduleNext
    /\ UNCHANGED <<mode, proc, file, state, attempt, boot, telemetryVars, serverVars, boundVars, faults>>

\* The heartbeat fails; after the second failure in a row that is worth a retry
\* an inventory goes with the next one.
TurnFails(t, retryable) ==
    /\ turn[t].pc \in {"sent", "accepted", "rejected"} /\ Fault
    /\ turn' = [turn EXCEPT ![t] = Idle]
    /\ consecutiveFailures' = IF consecutiveFailures = 2 THEN 2 ELSE consecutiveFailures + 1
    /\ forceTelemetry' = (forceTelemetry \/ (retryable /\ consecutiveFailures' = 2))
    /\ ScheduleNext
    /\ UNCHANGED <<mode, proc, file, state, attempt, boot, owed, serverVars, boundVars>>

-----------------------------------------------------------------------------
(* Enrolment *)

\* Faulty variant: the state in memory is not cleared.
FaultyStartEnrollment ==
    IF attempt # "NONE" THEN UNCHANGED <<file, state, attempt>>
    ELSE /\ file' = NoCred /\ UNCHANGED state
         /\ attempt' = IF proc = "stopping" THEN "OVER" ELSE IF mode = "CONSOLE" THEN "PROMPT" ELSE "TRY"

\* startEnrollment(): the credentials are cleared and attempt() begins.  A turn
\* that finds an enrolment under way leaves it alone; a stopping process clears
\* the credentials and never enrols.
StartEnrollment ==
    IF attempt # "NONE" THEN UNCHANGED <<file, state, attempt>>
    ELSE /\ file' = NoCred /\ state' = NoCred
         /\ attempt' = IF proc = "stopping" THEN "OVER" ELSE IF mode = "CONSOLE" THEN "PROMPT" ELSE "TRY"

\* loop() catches the rejection of its credentials.  With nowhere to get a token
\* from the process exits and the file stays as it is.
Rejected(t) ==
    /\ turn[t].pc = "rejected"
    /\ \/ /\ mode = "BARE" /\ attempt = "NONE"
          /\ Ends /\ UNCHANGED file
       \/ /\ mode # "BARE" \/ attempt # "NONE"
          /\ turn' = [turn EXCEPT ![t] = Idle]
          /\ StartEnrollment /\ ScheduleNext
          /\ UNCHANGED <<proc, boot, telemetryVars>>
    /\ UNCHANGED <<mode, serverVars, boundVars, faults>>

\* The server takes the token, or not.
Answer ==
    /\ attempt = "TRY"
    /\ IF uses > 0
       THEN /\ attempt' = "GRANTED"
            /\ uses' = uses - 1 /\ issued' = issued + 1 /\ live' = issued'
       ELSE attempt' = "DENIED" /\ UNCHANGED serverVars
    /\ issued' <= MaxIssued
    /\ UNCHANGED <<mode, proc, file, state, turnVars, telemetryVars, boundVars, faults>>

\* attempt() saves the credentials and a turn is due at once.
Granted ==
    /\ attempt = "GRANTED"
    /\ file' = issued /\ state' = issued /\ attempt' = "NONE"
    /\ consecutiveFailures' = 0 /\ forceTelemetry' = TRUE /\ Owe
    /\ ScheduleNext
    /\ raced' = (raced \/ boot)
    /\ UNCHANGED <<mode, proc, boot, serverVars, revoked, faults>>

\* The token is refused: the agent asks for another one, or exits.
Denied ==
    /\ attempt = "DENIED"
    /\ IF mode = "CONSOLE" \/ proc = "stopping"
       THEN /\ attempt' = IF proc = "stopping" THEN "OVER" ELSE "PROMPT"
            /\ UNCHANGED <<proc, state, turnVars, telemetryVars>>
       ELSE Ends
    /\ UNCHANGED <<mode, file, serverVars, boundVars, faults>>

\* Faulty variant: a failed attempt is the last one.
FaultyAttemptFails ==
    /\ attempt \in {"TRY", "GRANTED", "DENIED"} /\ Fault
    /\ attempt' = "OVER"
    /\ UNCHANGED <<mode, proc, file, state, turnVars, telemetryVars, serverVars, boundVars>>

\* The call, its answer or the write of the file is lost: tried again later.
AttemptFails ==
    /\ attempt \in {"TRY", "GRANTED", "DENIED"} /\ Fault
    /\ attempt' = IF proc = "stopping" THEN "OVER" ELSE "WAIT"
    /\ UNCHANGED <<mode, proc, file, state, turnVars, telemetryVars, serverVars, boundVars>>

WaitEnds ==
    /\ attempt = "WAIT"
    /\ attempt' = IF proc = "stopping" THEN "OVER" ELSE "TRY"
    /\ UNCHANGED <<mode, proc, file, state, turnVars, telemetryVars, serverVars, boundVars, faults>>

\* A token is typed in, one that can be used or one that cannot.  (An empty
\* answer is asked for again.)
PromptAnswered ==
    /\ attempt = "PROMPT"
    /\ attempt' = "TRY" /\ uses' \in {0, Uses}
    /\ UNCHANGED <<mode, proc, file, state, turnVars, telemetryVars, issued, live, boundVars, faults>>

\* An administrator retires or removes the device.
Revoke ==
    /\ live # NoCred /\ revoked < MaxRevocations
    /\ live' = NoCred /\ revoked' = revoked + 1
    /\ UNCHANGED <<mode, proc, file, state, attempt, turnVars, telemetryVars, issued, uses, raced, faults>>

TurnStep(t) == Judge(t) \/ Accepted(t) \/ WorkDone(t) \/ Rejected(t)
AttemptStep == Answer \/ Granted \/ Denied \/ WaitEnds

Next ==
    \/ Start \/ Shutdown \/ Exit \/ Crash \/ Revoke
    \/ Loop(TRUE) \/ Loop(FALSE)
    \/ \E t \in Turn : TurnStep(t) \/ RefreshRuns(t) \/ TurnFails(t, TRUE) \/ TurnFails(t, FALSE)
    \/ AttemptStep \/ AttemptFails \/ PromptAnswered

\* Timers fire, requests are answered or time out, and a batch of commands ends;
\* nothing is assumed of administrators or of the operator at the console.
Fairness ==
    /\ WF_agentProcessVars(Loop(TRUE)) /\ WF_agentProcessVars(Loop(FALSE))
    /\ \A t \in Turn : WF_agentProcessVars(TurnStep(t))
    /\ WF_agentProcessVars(AttemptStep)

Spec == AgentInit /\ [][Next]_agentProcessVars
FairSpec == Spec /\ Fairness

-----------------------------------------------------------------------------
(* Properties *)

\* A process that is not up holds nothing; what is sent, saved and accepted was
\* issued, and the credentials in memory are those in the file.
AgentTypeOK ==
    /\ mode \in {"CONSOLE", "TOKEN", "BARE"} /\ proc \in {"running", "stopping", "down"}
    /\ issued \in Cred /\ live \in {NoCred, issued} /\ uses \in 0 .. Uses
    /\ file \in 0 .. issued /\ state \in {NoCred, file}
    /\ attempt \in {"NONE", "PROMPT", "TRY", "GRANTED", "DENIED", "WAIT", "OVER"}
    /\ boot \in BOOLEAN /\ loopTimer \in BOOLEAN
    /\ turn \in [Turn -> TurnState] /\ \A t \in Turn : turn[t].cred <= issued
    /\ forceTelemetry \in BOOLEAN /\ consecutiveFailures \in 0 .. 2
    /\ owed \in BOOLEAN /\ raced \in BOOLEAN
    /\ revoked \in 0 .. MaxRevocations /\ faults \in 0 .. MaxFaults
    /\ proc = "down" => state = NoCred /\ attempt = "NONE" /\ Busy = {} /\ ~boot /\ ~loopTimer
    /\ attempt # "NONE" => state = NoCred

Threads == Cardinality(Busy) + (IF boot THEN 1 ELSE 0) + (IF loopTimer THEN 1 ELSE 0)

\* While the process runs its loop never dies, and there is one loop only:
\* whatever fails and however an enrolment and a turn interleave, one timer is
\* armed or one turn is under way.  The exception is an enrolment that ends
\* before the timer of main() fires; then there may be two, never more.
OneLoop == proc = "running" => Threads \in 1 .. (IF raced THEN 2 ELSE 1)

\* The agent registers no more often than it has to: once, once more for each
\* time its credentials are withdrawn and once for each failure.  (With two loops
\* there is no such bound: a rejection that comes late makes the agent drop the
\* credentials it has just got, while the other loop is using them.)
EnrolmentsAccounted == raced \/ issued <= 1 + faults + revoked

\* An inventory that is called for, by a start, an enrolment or a command, is
\* never forgotten: until the server has one that was collected afterwards, the
\* flag stays up, whatever collectors and calls fail.  With two loops the turn
\* of one may take down the flag that the other one raised.
TelemetryOwed == proc = "running" /\ owed => forceTelemetry \/ raced

\* An agent that goes on running comes to hold credentials the server accepts,
\* or asks for a token at its console (or the bound on credentials is reached).
Recovers ==
    proc = "running" ~> \/ proc # "running" \/ attempt = "PROMPT"
                        \/ live # NoCred /\ state = live
                        \/ issued = MaxIssued
=============================================================================
