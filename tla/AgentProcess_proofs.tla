-------------------------- MODULE AgentProcess_proofs --------------------------
(***************************************************************************)
(* Proofs about AgentProcess: the loop of a running agent never dies and   *)
(* is one loop, enrolments are accounted for, and an inventory that is     *)
(* called for is not forgotten.                                            *)
(***************************************************************************)
EXTENDS AgentProcess, FiniteSetTheorems, TLAPS

-----------------------------------------------------------------------------
(* What a step does to the turns *)

LEMMA CredNat == MaxIssued \in Nat /\ NoCred \in Cred /\ Cred \subseteq Nat
  BY AgentAssumption DEF MaxIssued, NoCred, Cred

LEMMA TurnIdle == Idle \in TurnState /\ Idle.pc = "idle" /\ Idle.cred = NoCred
  BY CredNat DEF Idle, TurnState

LEMMA TurnSent ==
    ASSUME NEW c \in Cred, NEW telemetry \in {"NONE", "PARTIAL", "FULL"}
    PROVE  /\ Sent(c, telemetry) \in TurnState /\ Sent(c, telemetry).pc = "sent"
           /\ Sent(c, telemetry).cred = c /\ Sent(c, telemetry).current
           /\ Sent(c, telemetry).telemetry = telemetry
  BY DEF Sent, TurnState

\* The turn goes on.
Goes(t, pc) == turn' = [turn EXCEPT ![t].pc = pc]

LEMMA TurnGoes ==
    ASSUME turn \in [Turn -> TurnState], NEW t \in Turn,
           NEW pc \in {"accepted", "rejected", "work"}, Goes(t, pc)
    PROVE  /\ turn' \in [Turn -> TurnState]
           /\ turn'[t].pc = pc
           /\ \A u \in Turn : /\ turn'[u].cred = turn[u].cred
                              /\ turn'[u].telemetry = turn[u].telemetry
                              /\ turn'[u].current = turn[u].current
                              /\ u # t => turn'[u].pc = turn[u].pc
  BY DEF Goes, TurnState

LEMMA TurnOwes ==
    ASSUME turn \in [Turn -> TurnState], Owe
    PROVE  /\ turn' \in [Turn -> TurnState]
           /\ \A u \in Turn : /\ turn'[u].pc = turn[u].pc /\ turn'[u].cred = turn[u].cred
                              /\ turn'[u].telemetry = turn[u].telemetry
           /\ Busy' = Busy
  BY DEF Owe, TurnState, Busy

\* The turn begins or ends.
Becomes(t, r) == turn' = [turn EXCEPT ![t] = r]

LEMMA TurnBecomes ==
    ASSUME turn \in [Turn -> TurnState], NEW t \in Turn, NEW r \in TurnState, Becomes(t, r)
    PROVE  /\ turn' \in [Turn -> TurnState] /\ turn'[t] = r
           /\ \A u \in Turn : u # t => turn'[u] = turn[u]
           /\ Busy' = IF r.pc = "idle" THEN Busy \ {t} ELSE Busy \cup {t}
<1>1. turn' \in [Turn -> TurnState] /\ turn'[t] = r /\ \A u \in Turn : u # t => turn'[u] = turn[u]
  BY DEF Becomes
<1>2. QED
  BY <1>1 DEF Busy

LEMMA BusyKept ==
    ASSUME turn \in [Turn -> TurnState], NEW t \in Busy,
           NEW pc \in {"accepted", "rejected", "work"}, Goes(t, pc)
    PROVE  Busy' = Busy
  BY TurnGoes DEF Busy

-----------------------------------------------------------------------------
(* Type correctness *)

LEMMA TypeInit == AgentInit => AgentTypeOK
<1>1. SUFFICES ASSUME AgentInit PROVE AgentTypeOK
  OBVIOUS
<1>2. turn \in [Turn -> TurnState] /\ (\A t \in Turn : turn[t] = Idle) /\ Busy = {}
  BY <1>1, TurnIdle DEF AgentInit, Busy
<1>3. file \in {0, 1} /\ issued \in Cred
  BY <1>1, AgentAssumption DEF AgentInit, NoCred, Cred, MaxIssued
<1>4. \A t \in Turn : turn[t].cred <= issued
  BY <1>2, <1>3, TurnIdle, CredNat DEF NoCred
<1>5. file \in 0 .. issued /\ uses \in 0 .. Uses
  BY <1>1, <1>3, AgentAssumption DEF AgentInit, NoCred
<1>6. {boot, loopTimer, forceTelemetry, owed, raced} \subseteq BOOLEAN /\ ~boot /\ ~loopTimer
  BY <1>1 DEF AgentInit
<1>7. QED
  BY <1>1, <1>2, <1>3, <1>4, <1>5, <1>6, AgentAssumption DEF AgentInit, AgentTypeOK

\* Everything of the process is gone.
LEMMA EndsType ==
    ASSUME AgentTypeOK, Ends, UNCHANGED <<mode, file, serverVars, boundVars>>, faults' \in 0 .. MaxFaults
    PROVE  AgentTypeOK'
<1>1. turn' \in [Turn -> TurnState] /\ (\A t \in Turn : turn'[t] = Idle) /\ Busy' = {}
  BY TurnIdle DEF Ends, Busy
<1>2. \A t \in Turn : turn'[t].cred <= issued'
  BY <1>1, TurnIdle, CredNat DEF AgentTypeOK, NoCred, serverVars
<1>3. {boot', loopTimer', forceTelemetry', owed'} \subseteq BOOLEAN /\ ~boot' /\ ~loopTimer'
  BY DEF Ends
<1>4. QED
  BY <1>1, <1>2, <1>3 DEF AgentTypeOK, Ends, serverVars, boundVars

LEMMA TypeStart == ASSUME AgentTypeOK, Start PROVE AgentTypeOK'
  BY DEF AgentTypeOK, Start, Busy, NoCred, serverVars, boundVars

LEMMA TypeStops == ASSUME AgentTypeOK, Shutdown \/ Exit \/ Crash PROVE AgentTypeOK'
<1>1. CASE Shutdown
  <2>1. loopTimer' \in BOOLEAN
    BY <1>1 DEF Shutdown
  <2>2. QED
    BY <1>1, <2>1, AgentAssumption DEF AgentTypeOK, Shutdown, Fault, Busy, telemetryVars, serverVars, boundVars
<1>2. CASE Exit
  BY <1>2, EndsType DEF Exit, AgentTypeOK
<1>3. CASE Crash
  BY <1>3, EndsType, AgentAssumption DEF Crash, Fault, AgentTypeOK
<1>4. QED
  BY <1>1, <1>2, <1>3

LEMMA TypeLoop == ASSUME AgentTypeOK, NEW b \in BOOLEAN, Loop(b) PROVE AgentTypeOK'
<1>1. proc # "down"
  BY DEF AgentTypeOK, Loop
<1>2. CASE state = NoCred \/ attempt # "NONE" \/ proc = "stopping"
  BY <1>1, <1>2 DEF AgentTypeOK, Loop, ScheduleNext, Busy, telemetryVars, serverVars, boundVars
<1>3. CASE ~(state = NoCred \/ attempt # "NONE" \/ proc = "stopping")
  <2>1. PICK t \in Turn \ Busy, telemetry \in {"NONE", "PARTIAL", "FULL"} :
           Becomes(t, Sent(state, telemetry)) /\ faults' \in 0 .. MaxFaults
    BY <1>3, AgentAssumption DEF Loop, Becomes, Fault, AgentTypeOK
  <2>2. state \in Cred /\ state <= issued
    BY CredNat DEF AgentTypeOK, Cred, NoCred
  <2>3. turn' \in [Turn -> TurnState] /\ \A u \in Turn : turn'[u].cred <= issued
    BY <2>1, <2>2, TurnSent, TurnBecomes DEF AgentTypeOK
  <2>4. loopTimer' \in BOOLEAN /\ boot' \in BOOLEAN
    BY <1>3 DEF Loop, AgentTypeOK
  <2>5. QED
    BY <1>1, <2>1, <2>3, <2>4 DEF AgentTypeOK, Loop, Busy, telemetryVars, serverVars, boundVars
<1>4. QED
  BY <1>2, <1>3

\* A turn that goes on, or ends, in a process that is up.
LEMMA TypeTurn ==
    ASSUME AgentTypeOK, NEW t \in Busy,
           (\E pc \in {"accepted", "rejected", "work"} : Goes(t, pc)) \/ Becomes(t, Idle),
           UNCHANGED <<mode, proc, boot, serverVars, boundVars>>,
           loopTimer' \in BOOLEAN, forceTelemetry' \in BOOLEAN, owed' \in BOOLEAN,
           consecutiveFailures' \in 0 .. 2, faults' \in 0 .. MaxFaults,
           file' \in {NoCred, file}, state' \in {NoCred, state}, state' \in {NoCred, file'},
           attempt' \in {"NONE", "PROMPT", "TRY", "GRANTED", "DENIED", "WAIT", "OVER"},
           attempt' # "NONE" => state' = NoCred
    PROVE  AgentTypeOK'
<1>1. proc # "down" /\ t \in Turn
  BY DEF AgentTypeOK, Busy
<1>2. turn' \in [Turn -> TurnState] /\ \A u \in Turn : turn'[u].cred <= issued
  BY <1>1, TurnGoes, TurnBecomes, TurnIdle DEF AgentTypeOK, NoCred, Cred
<1>3. file' \in 0 .. issued
  BY DEF AgentTypeOK, NoCred, Cred
<1>4. QED
  BY <1>1, <1>2, <1>3 DEF AgentTypeOK, serverVars, boundVars

LEMMA TypeAnswered == ASSUME AgentTypeOK, NEW t \in Turn, Judge(t) \/ Accepted(t) PROVE AgentTypeOK'
<1>1. t \in Busy /\ \E pc \in {"accepted", "rejected", "work"} : Goes(t, pc)
  BY DEF Judge, Accepted, Goes, Busy
<1>2. /\ UNCHANGED <<mode, proc, boot, serverVars, boundVars, loopTimer, file, state, attempt, faults>>
      /\ consecutiveFailures' \in {consecutiveFailures, 0}
  BY DEF Judge, Accepted
<1>3. forceTelemetry' \in BOOLEAN /\ owed' \in BOOLEAN
  <2>1. CASE Judge(t)
    BY <2>1 DEF Judge, AgentTypeOK
  <2>2. CASE Accepted(t)
    <3>1. forceTelemetry' \in {TRUE, FALSE, forceTelemetry}
      BY <2>2 DEF Accepted
    <3>2. QED
      BY <2>2, <3>1 DEF Accepted, AgentTypeOK
  <2>3. QED
    BY <2>1, <2>2
<1>4. QED
  BY <1>1, <1>2, <1>3, TypeTurn DEF AgentTypeOK

LEMMA TypeRefresh == ASSUME AgentTypeOK, NEW t \in Turn, RefreshRuns(t) PROVE AgentTypeOK'
<1>1. owed' \in BOOLEAN /\ forceTelemetry' \in BOOLEAN
  BY DEF RefreshRuns, Owe
<1>2. QED
  BY <1>1, TurnOwes DEF AgentTypeOK, RefreshRuns, serverVars, boundVars

LEMMA TypeOver ==
    ASSUME AgentTypeOK, NEW t \in Turn, WorkDone(t) \/ TurnFails(t, TRUE) \/ TurnFails(t, FALSE)
    PROVE  AgentTypeOK'
<1>1. t \in Busy /\ Becomes(t, Idle)
  BY DEF WorkDone, TurnFails, Becomes, Busy
<1>2. UNCHANGED <<mode, proc, boot, serverVars, boundVars, file, state, attempt, owed>> /\ faults' \in 0 .. MaxFaults
  BY AgentAssumption DEF WorkDone, TurnFails, Fault, telemetryVars, AgentTypeOK
<1>3. consecutiveFailures' \in 0 .. 2
  BY DEF WorkDone, TurnFails, telemetryVars, AgentTypeOK
<1>4. loopTimer' \in BOOLEAN /\ forceTelemetry' \in BOOLEAN
  BY DEF WorkDone, TurnFails, ScheduleNext, telemetryVars, AgentTypeOK
<1>5. QED
  BY <1>1, <1>2, <1>3, <1>4, TypeTurn DEF AgentTypeOK

LEMMA TypeRejected == ASSUME AgentTypeOK, NEW t \in Turn, Rejected(t) PROVE AgentTypeOK'
<1>1. CASE Ends /\ UNCHANGED file
  BY <1>1, EndsType DEF Rejected, AgentTypeOK
<1>2. CASE Becomes(t, Idle) /\ StartEnrollment /\ ScheduleNext /\ UNCHANGED <<proc, boot, telemetryVars>>
  <2>1. t \in Busy
    BY DEF Rejected, Busy
  <2>2. loopTimer' \in BOOLEAN
    BY <1>2 DEF ScheduleNext
  <2>3. UNCHANGED <<mode, serverVars, boundVars, faults>>
    BY DEF Rejected
  <2>4. /\ file' \in {NoCred, file} /\ state' \in {NoCred, state} /\ state' \in {NoCred, file'}
        /\ attempt' \in {"NONE", "PROMPT", "TRY", "GRANTED", "DENIED", "WAIT", "OVER"}
        /\ attempt' # "NONE" => state' = NoCred
    BY <1>2 DEF StartEnrollment, AgentTypeOK
  <2>5. QED
    BY <1>2, <2>1, <2>2, <2>3, <2>4, TypeTurn DEF AgentTypeOK, telemetryVars
<1>3. QED
  BY <1>1, <1>2 DEF Rejected, Becomes

\* An attempt to enrol goes on.
LEMMA TypeAttempt ==
    ASSUME AgentTypeOK, Answer \/ AttemptFails \/ WaitEnds \/ PromptAnswered PROVE AgentTypeOK'
<1>1. /\ UNCHANGED <<mode, proc, file, state, turnVars, telemetryVars, boundVars>> /\ attempt # "NONE"
      /\ attempt' \in {"TRY", "GRANTED", "DENIED", "WAIT", "OVER"} /\ faults' \in 0 .. MaxFaults
  BY AgentAssumption DEF Answer, AttemptFails, WaitEnds, PromptAnswered, Fault, AgentTypeOK
<1>2. issued' \in Cred /\ issued <= issued' /\ live' \in {NoCred, issued'} /\ uses' \in 0 .. Uses
  <2>1. CASE Answer /\ uses > 0
    BY <2>1, CredNat, AgentAssumption DEF Answer, AgentTypeOK, Cred
  <2>2. CASE ~(Answer /\ uses > 0)
    BY <2>2, CredNat, AgentAssumption
    DEF Answer, AttemptFails, WaitEnds, PromptAnswered, serverVars, AgentTypeOK
  <2>3. QED
    BY <2>1, <2>2
<1>3. file' \in 0 .. issued' /\ \A t \in Turn : turn'[t].cred <= issued'
  <2>1. \A t \in Turn : turn[t].cred \in Nat
    BY CredNat DEF AgentTypeOK, TurnState
  <2>2. QED
    BY <1>1, <1>2, <2>1, CredNat DEF AgentTypeOK, turnVars
<1>4. QED
  BY <1>1, <1>2, <1>3 DEF AgentTypeOK, Busy, turnVars, telemetryVars, boundVars

LEMMA TypeGranted == ASSUME AgentTypeOK, Granted PROVE AgentTypeOK'
<1>1. /\ loopTimer' \in BOOLEAN /\ forceTelemetry' \in BOOLEAN
      /\ owed' \in BOOLEAN /\ raced' \in BOOLEAN
  BY DEF Granted, ScheduleNext, Owe, AgentTypeOK
<1>2. file' \in 0 .. issued
  BY CredNat DEF Granted, AgentTypeOK
<1>3. QED
  BY <1>1, <1>2, TurnOwes DEF AgentTypeOK, Granted, serverVars

LEMMA TypeDenied == ASSUME AgentTypeOK, Denied PROVE AgentTypeOK'
<1>1. CASE Ends
  BY <1>1, EndsType DEF Denied, AgentTypeOK
<1>2. CASE ~Ends
  BY <1>2 DEF AgentTypeOK, Denied, Busy, turnVars, telemetryVars, serverVars, boundVars
<1>3. QED
  BY <1>1, <1>2

LEMMA TypeRevoke == ASSUME AgentTypeOK, Revoke PROVE AgentTypeOK'
  BY AgentAssumption DEF AgentTypeOK, Revoke, Busy, turnVars, telemetryVars

LEMMA TypeStutter == ASSUME AgentTypeOK, UNCHANGED agentProcessVars PROVE AgentTypeOK'
  BY DEF AgentTypeOK, Busy, agentProcessVars, turnVars, telemetryVars, serverVars, boundVars

LEMMA TypeNext == AgentTypeOK /\ [Next]_agentProcessVars => AgentTypeOK'
  BY TypeStart, TypeStops, TypeLoop, TypeAnswered, TypeRefresh, TypeOver, TypeRejected, TypeAttempt,
     TypeGranted, TypeDenied, TypeRevoke, TypeStutter
  DEF Next, TurnStep, AttemptStep

\* The process, its file and the server keep well formed state, for any bounds;
\* a process that is down holds nothing, and one that enrols has no credentials.
THEOREM AgentTypeCorrect == Spec => []AgentTypeOK
  BY TypeInit, TypeNext, PTL DEF Spec

-----------------------------------------------------------------------------
(* One loop *)

\* Turns and armed timers: at least one while the process runs, and one only
\* unless an enrolment overtook the timer of main(), two at most then.  While an
\* enrolment is under way a running process has its loopTimer armed, or has not
\* had a turn yet: what the enrolment schedules replaces a timer, but for that
\* of main().
LoopInv ==
    /\ IsFiniteSet(Busy)
    /\ proc = "running" => Threads \in 1 .. 2
    /\ proc # "down" /\ ~raced => Threads \in 0 .. 1
    /\ proc = "running" /\ attempt # "NONE" => loopTimer \/ (boot /\ Busy = {})

LEMMA ThreadsType == IsFiniteSet(Busy) => Cardinality(Busy) \in Nat /\ (Cardinality(Busy) = 0 <=> Busy = {})
  BY FS_CardinalityType, FS_EmptySet

LEMMA LoopInit == AgentInit => LoopInv
<1>1. AgentInit => Busy = {}
  BY TurnIdle DEF AgentInit, Busy
<1>2. QED
  BY <1>1, FS_EmptySet DEF AgentInit, LoopInv

\* The turns under way stay, and nothing is armed.
LEMMA LoopKept ==
    ASSUME AgentTypeOK, LoopInv, Busy' = Busy, UNCHANGED <<boot, raced>>,
           \/ UNCHANGED <<proc, loopTimer>>
           \/ proc' = "stopping" /\ proc = "running" /\ ~loopTimer',
           attempt' # "NONE" => attempt # "NONE"
    PROVE  LoopInv'
  BY ThreadsType DEF AgentTypeOK, LoopInv, Threads

\* The process starts, or ends.
LEMMA LoopFresh ==
    ASSUME Busy' = {},
           proc' = "down" \/ (proc' = "running" /\ boot' /\ ~loopTimer')
    PROVE  LoopInv'
<1>1. IsFiniteSet(Busy') /\ Cardinality(Busy') = 0
  BY FS_EmptySet
<1>2. proc' = "running" => Threads' = 1
  BY <1>1 DEF Threads
<1>3. QED
  BY <1>1, <1>2 DEF LoopInv

\* A timer fires.
LEMMA LoopFires == ASSUME AgentTypeOK, LoopInv, NEW b \in BOOLEAN, Loop(b) PROVE LoopInv'
<1>1. /\ UNCHANGED <<proc, attempt, raced>> /\ proc # "down"
      /\ IF b THEN boot /\ ~boot' ELSE loopTimer /\ boot' = boot
  BY DEF Loop, AgentTypeOK, boundVars
<1>2. CASE state = NoCred \/ attempt # "NONE" \/ proc = "stopping"
  <2>1. Busy' = Busy /\ (proc = "running" => loopTimer') /\ (proc # "running" => ~loopTimer')
    BY <1>2 DEF Loop, ScheduleNext, Busy
  <2>2. QED
    BY <1>1, <2>1, ThreadsType DEF AgentTypeOK, LoopInv, Threads
<1>3. CASE ~(state = NoCred \/ attempt # "NONE" \/ proc = "stopping")
  <2>1. /\ (IF b THEN loopTimer' = loopTimer ELSE ~loopTimer')
        /\ \E t \in Turn \ Busy, telemetry \in {"NONE", "PARTIAL", "FULL"} : Becomes(t, Sent(state, telemetry))
    BY <1>3 DEF Loop, Becomes, AgentTypeOK
  <2>2. state \in Cred
    BY CredNat DEF AgentTypeOK, Cred
  <2>3. PICK t \in Turn \ Busy : Busy' = Busy \cup {t}
    BY <2>1, <2>2, TurnSent, TurnBecomes DEF AgentTypeOK
  <2>4. IsFiniteSet(Busy') /\ Cardinality(Busy') = Cardinality(Busy) + 1
    BY <2>3, FS_AddElement DEF LoopInv
  <2>5. Threads' = Threads
    BY <1>1, <2>1, <2>4, ThreadsType DEF Threads, AgentTypeOK, LoopInv
  <2>6. QED
    BY <1>1, <1>3, <2>4, <2>5, AgentTypeOK DEF LoopInv
<1>4. QED
  BY <1>2, <1>3

\* A turn ends, and the next one is scheduled.
LEMMA LoopTurnOver ==
    ASSUME AgentTypeOK, LoopInv, NEW t \in Busy, Becomes(t, Idle), ScheduleNext, UNCHANGED <<proc, boot, raced>>
    PROVE  LoopInv'
<1>1. t \in Turn /\ proc # "down"
  BY DEF Busy, AgentTypeOK
<1>2. Busy' = Busy \ {t}
  BY <1>1, TurnBecomes, TurnIdle DEF AgentTypeOK
<1>3. IsFiniteSet(Busy') /\ Cardinality(Busy') = Cardinality(Busy) - 1
  BY <1>2, FS_RemoveElement DEF LoopInv
<1>4. (proc = "running" => loopTimer') /\ (proc # "running" => ~loopTimer')
  BY DEF ScheduleNext
<1>5. QED
  BY <1>1, <1>3, <1>4, ThreadsType DEF LoopInv, Threads, AgentTypeOK

LEMMA LoopGranted == ASSUME AgentTypeOK, LoopInv, Granted PROVE LoopInv'
<1>1. /\ Busy' = Busy /\ proc # "down" /\ UNCHANGED <<proc, boot>> /\ attempt # "NONE" /\ attempt' = "NONE"
      /\ raced' = (raced \/ boot)
  BY TurnOwes DEF Granted, AgentTypeOK
<1>2. (proc = "running" => loopTimer') /\ (proc # "running" => ~loopTimer')
  BY DEF Granted, ScheduleNext
<1>3. QED
  BY <1>1, <1>2, ThreadsType DEF LoopInv, Threads, AgentTypeOK

LEMMA LoopNext == AgentTypeOK /\ LoopInv /\ [Next]_agentProcessVars => LoopInv'
<1> SUFFICES ASSUME AgentTypeOK, LoopInv, [Next]_agentProcessVars PROVE LoopInv'
  OBVIOUS
<1>1. ASSUME Start PROVE LoopInv'
  <2>1. Busy' = {}
    BY <1>1 DEF Start, AgentTypeOK, Busy
  <2>2. proc' = "running" /\ boot' /\ ~loopTimer'
    BY <1>1 DEF Start, AgentTypeOK
  <2>3. QED
    BY <2>1, <2>2, LoopFresh
<1>2. ASSUME Ends PROVE LoopInv'
  <2>1. Busy' = {}
    BY <1>2, TurnIdle DEF Ends, Busy
  <2>2. QED
    BY <1>2, <2>1, LoopFresh DEF Ends
<1>3. ASSUME Shutdown PROVE LoopInv'
  <2>1. ~loopTimer' /\ Busy' = Busy
    BY <1>3 DEF Shutdown, Busy
  <2>2. QED
    BY <1>3, <2>1, LoopKept DEF Shutdown, boundVars
<1>4. ASSUME NEW t \in Turn, Judge(t) \/ Accepted(t) PROVE LoopInv'
  <2>1. t \in Busy /\ \E pc \in {"accepted", "rejected", "work"} : Goes(t, pc)
    BY <1>4 DEF Judge, Accepted, Goes, Busy
  <2>2. UNCHANGED <<proc, boot, loopTimer, attempt, raced>>
    BY <1>4 DEF Judge, Accepted, boundVars
  <2>3. QED
    BY <2>1, <2>2, BusyKept, LoopKept DEF AgentTypeOK
<1>5. ASSUME NEW t \in Turn, RefreshRuns(t) PROVE LoopInv'
  BY <1>5, TurnOwes, LoopKept DEF RefreshRuns, boundVars, AgentTypeOK
<1>6. ASSUME NEW t \in Turn, WorkDone(t) \/ TurnFails(t, TRUE) \/ TurnFails(t, FALSE) PROVE LoopInv'
  <2>1. t \in Busy /\ Becomes(t, Idle) /\ ScheduleNext /\ UNCHANGED <<proc, boot, raced>>
    BY <1>6 DEF WorkDone, TurnFails, Becomes, Busy, boundVars
  <2>2. QED
    BY <2>1, LoopTurnOver
<1>7. ASSUME NEW t \in Turn, Rejected(t) PROVE LoopInv'
  <2>1. t \in Busy
    BY <1>7 DEF Rejected, Busy
  <2>2. Ends \/ (Becomes(t, Idle) /\ ScheduleNext /\ UNCHANGED <<proc, boot, raced>>)
    BY <1>7 DEF Rejected, Becomes, boundVars
  <2>3. QED
    BY <1>2, <2>1, <2>2, LoopTurnOver
<1>8. ASSUME Answer \/ AttemptFails \/ WaitEnds \/ PromptAnswered \/ (Denied /\ ~Ends) PROVE LoopInv'
  <2>1. UNCHANGED <<proc, turnVars, raced>> /\ attempt # "NONE"
    BY <1>8 DEF Answer, AttemptFails, WaitEnds, PromptAnswered, Denied, boundVars
  <2>2. Busy' = Busy
    BY <2>1 DEF Busy, turnVars
  <2>3. QED
    BY <2>1, <2>2, LoopKept DEF turnVars
<1>9. ASSUME Revoke \/ UNCHANGED agentProcessVars PROVE LoopInv'
  <2>1. UNCHANGED <<proc, turnVars, raced, attempt>>
    BY <1>9 DEF Revoke, agentProcessVars, boundVars
  <2>2. Busy' = Busy
    BY <2>1 DEF Busy, turnVars
  <2>3. QED
    BY <2>1, <2>2, LoopKept DEF turnVars
<1>10. QED
  BY <1>1, <1>2, <1>3, <1>4, <1>5, <1>6, <1>7, <1>8, <1>9, LoopFires, LoopGranted
  DEF Next, TurnStep, AttemptStep, Exit, Crash

\* The loop of a running agent never dies, and it is one loop unless an enrolment
\* overtook the timer of main(): for any number of turns, failures and enrolments.
THEOREM LoopNeverDies == Spec => []OneLoop
<1>1. AgentInit => AgentTypeOK /\ LoopInv
  BY TypeInit, LoopInit
<1>2. AgentTypeOK /\ LoopInv /\ [Next]_agentProcessVars => (AgentTypeOK /\ LoopInv)'
  BY TypeNext, LoopNext
<1>3. AgentTypeOK /\ LoopInv => OneLoop
  BY DEF LoopInv, OneLoop, AgentTypeOK
<1>4. QED
  BY <1>1, <1>2, <1>3, PTL DEF Spec

-----------------------------------------------------------------------------
(* Enrolments *)

Alone == ~raced /\ proc # "down"

\* With one loop a turn uses the credentials of the file and no enrolment is under
\* way; if it is rejected, the server does not accept them any more.
OneCredential == Alone =>
    \A t \in Busy : /\ attempt = "NONE" /\ turn[t].cred = file /\ file # NoCred
                    /\ turn[t].pc = "rejected" => file # live

\* The agent does not hold what the server accepts, nor is about to ...
Lost == live = NoCred \/ (file # live /\ ~(attempt = "GRANTED" /\ proc = "running"))

\* ... or may get credentials although it is about to exit.
Doomed == proc = "stopping" /\ attempt \in {"PROMPT", "TRY"}

\* Credentials that are lost, or will be, are paid for: by the first enrolment, a
\* failure or a withdrawal.
Accounted ==
    /\ attempt # "NONE" => file = NoCred
    /\ ~raced => /\ issued <= 1 + faults + revoked
                 /\ Lost => issued <= faults + revoked
                 /\ Doomed => issued + 1 <= faults + revoked

LEMMA OneTurn ==
    ASSUME AgentTypeOK, LoopInv, Alone, NEW t \in Busy PROVE Busy = {t} /\ ~boot /\ ~loopTimer
<1>1. Threads \in 0 .. 1 /\ IsFiniteSet(Busy)
  BY DEF LoopInv, Alone
<1>2. Cardinality(Busy) \in Nat /\ Cardinality(Busy) # 0
  BY <1>1, ThreadsType
<1>3. Cardinality(Busy) = 1 /\ ~boot /\ ~loopTimer
  BY <1>1, <1>2 DEF Threads, AgentTypeOK
<1>4. IsFiniteSet(Busy \ {t}) /\ Cardinality(Busy \ {t}) = 0
  BY <1>1, <1>3, FS_RemoveElement
<1>5. QED
  BY <1>3, <1>4, FS_EmptySet

LEMMA OneCredentialNext ==
    AgentTypeOK /\ LoopInv /\ OneCredential /\ [Next]_agentProcessVars => OneCredential'
<1> SUFFICES ASSUME AgentTypeOK, LoopInv, OneCredential, [Next]_agentProcessVars PROVE OneCredential'
  OBVIOUS
<1>1. ASSUME Busy' = {} \/ proc' = "down" PROVE OneCredential'
  BY <1>1 DEF OneCredential, Alone
<1>2. ASSUME Start PROVE OneCredential'
  <2>1. Busy' = {}
    BY <1>2 DEF Start, AgentTypeOK, Busy
  <2>2. QED
    BY <1>1, <2>1
<1>3. ASSUME Ends PROVE OneCredential'
  BY <1>1, <1>3 DEF Ends
<1>4. ASSUME Shutdown \/ UNCHANGED agentProcessVars PROVE OneCredential'
  BY <1>4 DEF Shutdown, agentProcessVars, turnVars, serverVars, boundVars, OneCredential, Alone, Busy
<1>5. ASSUME NEW b \in BOOLEAN, Loop(b) PROVE OneCredential'
  <2>1. UNCHANGED <<proc, file, live, attempt, raced>>
    BY <1>5 DEF Loop, serverVars, boundVars
  <2>2. CASE state = NoCred \/ attempt # "NONE" \/ proc = "stopping"
    BY <1>5, <2>1, <2>2 DEF Loop, OneCredential, Alone, Busy
  <2>3. CASE ~(state = NoCred \/ attempt # "NONE" \/ proc = "stopping")
    <3>1. PICK t \in Turn, telemetry \in {"NONE", "PARTIAL", "FULL"} : Becomes(t, Sent(state, telemetry))
      BY <1>5, <2>3 DEF Loop, Becomes
    <3>2. state \in Cred /\ state = file /\ file # NoCred /\ attempt = "NONE"
      BY <2>3, CredNat DEF AgentTypeOK, Cred
    <3>3. turn'[t].cred = file /\ turn'[t].pc = "sent" /\ \A u \in Turn : u # t => turn'[u] = turn[u]
      BY <3>1, <3>2, TurnSent, TurnBecomes DEF AgentTypeOK
    <3>4. QED
      BY <2>1, <3>2, <3>3 DEF OneCredential, Alone, Busy
  <2>4. QED
    BY <2>2, <2>3
<1>6. ASSUME NEW t \in Turn, Judge(t) PROVE OneCredential'
  <2>1. t \in Busy /\ UNCHANGED <<proc, file, live, attempt, raced>>
    BY <1>6 DEF Judge, Busy, serverVars, boundVars
  <2>2. Goes(t, IF turn[t].cred = live THEN "accepted" ELSE "rejected")
    BY <1>6 DEF Judge, Goes
  <2>3. /\ Busy' = Busy /\ turn'[t].pc = (IF turn[t].cred = live THEN "accepted" ELSE "rejected")
        /\ \A u \in Turn : turn'[u].cred = turn[u].cred /\ (u # t => turn'[u].pc = turn[u].pc)
    BY <2>1, <2>2, TurnGoes, BusyKept DEF AgentTypeOK
  <2>4. QED
    BY <2>1, <2>3 DEF OneCredential, Alone, Busy
<1>7. ASSUME NEW t \in Turn, Accepted(t) \/ RefreshRuns(t) PROVE OneCredential'
  <2>1. UNCHANGED <<proc, file, live, attempt, raced>>
    BY <1>7 DEF Accepted, RefreshRuns, serverVars, boundVars
  <2>2. /\ Busy' = Busy
        /\ \A u \in Turn : turn'[u].cred = turn[u].cred /\ turn'[u].pc \in {turn[u].pc, "work"}
    <3>1. CASE Accepted(t)
      <4>1. t \in Busy /\ Goes(t, "work")
        BY <3>1 DEF Accepted, Busy, Goes
      <4>2. QED
        BY <4>1, TurnGoes, BusyKept DEF AgentTypeOK
    <3>2. CASE RefreshRuns(t)
      BY <3>2, TurnOwes DEF RefreshRuns, AgentTypeOK
    <3>3. QED
      BY <1>7, <3>1, <3>2
  <2>3. QED
    BY <2>1, <2>2 DEF OneCredential, Alone, Busy
<1>8. ASSUME NEW t \in Turn, WorkDone(t) \/ TurnFails(t, TRUE) \/ TurnFails(t, FALSE) PROVE OneCredential'
  <2>1. Becomes(t, Idle) /\ UNCHANGED <<proc, file, live, attempt, raced>>
    BY <1>8 DEF WorkDone, TurnFails, Becomes, serverVars, boundVars
  <2>2. Busy' = Busy \ {t} /\ \A u \in Turn : u # t => turn'[u] = turn[u]
    BY <2>1, TurnBecomes, TurnIdle DEF AgentTypeOK
  <2>3. QED
    BY <2>1, <2>2 DEF OneCredential, Alone, Busy
<1>9. ASSUME NEW t \in Turn, Rejected(t) PROVE OneCredential'
  <2>1. CASE Ends
    BY <1>3, <2>1
  <2>2. CASE Becomes(t, Idle) /\ UNCHANGED proc
    <3>1. t \in Busy /\ raced' = raced /\ Busy' = Busy \ {t}
      BY <1>9, <2>2, TurnBecomes, TurnIdle DEF Rejected, Busy, boundVars, AgentTypeOK
    <3>2. Alone' => Busy' = {}
      BY <2>2, <3>1, OneTurn DEF Alone
    <3>3. QED
      BY <3>2 DEF OneCredential
  <2>3. QED
    BY <1>9, <2>1, <2>2 DEF Rejected, Becomes
<1>10. ASSUME Answer \/ AttemptFails \/ WaitEnds \/ PromptAnswered \/ (Denied /\ ~Ends) \/ Granted
       PROVE  OneCredential'
  <2>1. attempt # "NONE" /\ Busy' = Busy /\ proc' = proc /\ (~raced' => ~raced)
    BY <1>10, TurnOwes
    DEF Answer, AttemptFails, WaitEnds, PromptAnswered, Denied, Granted, Busy, turnVars, boundVars, AgentTypeOK
  <2>2. QED
    BY <2>1 DEF OneCredential, Alone
<1>11. ASSUME Revoke PROVE OneCredential'
  BY <1>11 DEF Revoke, turnVars, OneCredential, Alone, Busy
<1>12. QED
  BY <1>2, <1>3, <1>4, <1>5, <1>6, <1>7, <1>8, <1>9, <1>10, <1>11 DEF Next, TurnStep, AttemptStep, Exit, Crash

LEMMA AccountedNext ==
    AgentTypeOK /\ LoopInv /\ OneCredential /\ Accounted /\ [Next]_agentProcessVars => Accounted'
<1> SUFFICES ASSUME AgentTypeOK, LoopInv, OneCredential, Accounted, [Next]_agentProcessVars PROVE Accounted'
  OBVIOUS
<1>1. issued \in Nat /\ faults \in Nat /\ revoked \in Nat
  BY CredNat, AgentAssumption DEF AgentTypeOK
<1>2. ASSUME UNCHANGED <<issued, raced, revoked>>, faults' \in {faults, faults + 1},
             attempt' # "NONE" => file' = NoCred, Lost' => Lost, Doomed' => Doomed
      PROVE  Accounted'
  <2>1. ~raced' => ~raced
    BY <1>2
  <2>2. CASE faults' = faults
    BY <1>1, <1>2, <2>1, <2>2 DEF Accounted
  <2>3. CASE faults' = faults + 1
    BY <1>1, <1>2, <2>1, <2>3 DEF Accounted
  <2>4. QED
    BY <1>2, <2>2, <2>3
<1>3. ASSUME Start \/ Exit \/ WaitEnds \/ PromptAnswered \/ Denied PROVE Accounted'
  <2>1. UNCHANGED <<issued, live, file, raced, revoked, faults>>
    BY <1>3 DEF Start, Exit, WaitEnds, PromptAnswered, Denied, serverVars, boundVars
  <2>2. attempt # "GRANTED" \/ proc # "running"
    BY <1>3 DEF Start, Exit, WaitEnds, PromptAnswered, Denied
  <2>3. attempt' # "GRANTED" /\ (attempt' # "NONE" => attempt # "NONE" \/ file = NoCred)
    BY <1>3 DEF Start, Exit, WaitEnds, PromptAnswered, Denied, Ends
  <2>4. (Lost' => Lost) /\ (Doomed' => Doomed)
    BY <1>3, <2>1, <2>2 DEF Start, Exit, WaitEnds, PromptAnswered, Denied, Ends, Lost, Doomed
  <2>5. QED
    BY <1>2, <2>1, <2>3, <2>4 DEF Accounted
<1>4. ASSUME Shutdown \/ Crash \/ AttemptFails PROVE Accounted'
  <2>1. UNCHANGED <<issued, live, file, raced, revoked>> /\ faults' = faults + 1
    BY <1>4 DEF Shutdown, Crash, AttemptFails, Fault, serverVars, boundVars
  <2>2. attempt' # "NONE" => attempt # "NONE"
    BY <1>4 DEF Shutdown, Crash, AttemptFails, Ends
  <2>3. Doomed' => attempt \in {"PROMPT", "TRY"}
    BY <1>4 DEF Shutdown, Crash, AttemptFails, Ends, Doomed
  <2>4. attempt \in {"PROMPT", "TRY"} => Lost
    BY DEF Accounted, Lost
  <2>5. QED
    BY <1>1, <2>1, <2>2, <2>3, <2>4 DEF Accounted
<1>5. ASSUME NEW t \in Turn,
             Judge(t) \/ Accepted(t) \/ RefreshRuns(t) \/ WorkDone(t)
               \/ TurnFails(t, TRUE) \/ TurnFails(t, FALSE)
      PROVE  Accounted'
  <2>1. UNCHANGED <<proc, file, attempt, live, issued, raced, revoked>> /\ faults' \in {faults, faults + 1}
    BY <1>5 DEF Judge, Accepted, RefreshRuns, WorkDone, TurnFails, Fault, serverVars, boundVars
  <2>2. QED
    BY <1>2, <2>1 DEF Accounted, Lost, Doomed
<1>6. ASSUME NEW t \in Turn, Rejected(t) PROVE Accounted'
  <2>1. UNCHANGED <<issued, live, raced, revoked, faults>>
    BY <1>6 DEF Rejected, serverVars, boundVars
  <2>2. CASE attempt # "NONE"
    <3>1. UNCHANGED <<proc, file, attempt>>
      BY <1>6, <2>2 DEF Rejected, StartEnrollment
    <3>2. QED
      BY <1>2, <2>1, <2>2, <3>1 DEF Lost, Doomed, Accounted
  <2>3. CASE attempt = "NONE" /\ Ends /\ UNCHANGED file
    <3>1. (Lost' => Lost) /\ ~Doomed' /\ attempt' = "NONE"
      BY <2>1, <2>3 DEF Lost, Doomed, Ends
    <3>2. QED
      BY <1>2, <2>1, <2>3, <3>1
  <2>4. CASE attempt = "NONE" /\ StartEnrollment /\ UNCHANGED proc
    <3>1. /\ file' = NoCred /\ attempt' # "GRANTED"
          /\ proc = "stopping" => attempt' = "OVER"
      BY <2>4 DEF StartEnrollment
    <3>2. t \in Busy /\ proc # "down"
      BY <1>6 DEF Rejected, Busy, AgentTypeOK
    <3>3. ~raced => Lost
      BY <1>6, <2>4, <3>2 DEF OneCredential, Alone, Rejected, Lost
    <3>4. ~Doomed'
      BY <2>4, <3>1 DEF Doomed
    <3>5. QED
      BY <1>1, <2>1, <3>1, <3>3, <3>4 DEF Accounted
  <2>5. QED
    BY <1>6, <2>2, <2>3, <2>4 DEF Rejected
<1>7. ASSUME Answer PROVE Accounted'
  <2>1. UNCHANGED <<proc, file, raced, revoked, faults>> /\ attempt = "TRY"
    BY <1>7 DEF Answer, boundVars
  <2>2. file = NoCred /\ Lost /\ proc # "down"
    BY <2>1 DEF Accounted, Lost, AgentTypeOK
  <2>3. attempt' \in {"GRANTED", "DENIED"} /\ ~Doomed'
    BY <1>7 DEF Answer, Doomed
  <2>4. CASE uses > 0
    <3>1. issued' = issued + 1 /\ live' = issued + 1 /\ attempt' = "GRANTED"
      BY <1>7, <2>4 DEF Answer
    <3>2. Lost' => Doomed
      BY <1>1, <2>1, <2>2, <3>1 DEF Lost, Doomed, NoCred, AgentTypeOK
    <3>3. QED
      BY <1>1, <2>1, <2>2, <2>3, <3>1, <3>2 DEF Accounted
  <2>5. CASE ~(uses > 0)
    <3>1. UNCHANGED <<issued, live>>
      BY <1>7, <2>5 DEF Answer, serverVars
    <3>2. QED
      BY <1>2, <2>1, <2>2, <2>3, <3>1
  <2>6. QED
    BY <2>4, <2>5
<1>8. ASSUME Granted PROVE Accounted'
  <2>1. /\ UNCHANGED <<proc, issued, live, revoked, faults>> /\ file' = issued /\ attempt' = "NONE"
        /\ attempt = "GRANTED" /\ (~raced' => ~raced)
    BY <1>8 DEF Granted, serverVars
  <2>2. (Lost' => Lost) /\ ~Doomed'
    BY <2>1 DEF Lost, Doomed, AgentTypeOK
  <2>3. QED
    BY <1>1, <2>1, <2>2 DEF Accounted
<1>9. ASSUME Revoke PROVE Accounted'
  <2>1. UNCHANGED <<proc, file, attempt, issued, raced, faults>> /\ revoked' = revoked + 1
    BY <1>9 DEF Revoke
  <2>2. Doomed' => Doomed
    BY <2>1 DEF Doomed
  <2>3. QED
    BY <1>1, <2>1, <2>2 DEF Accounted
<1>10. ASSUME UNCHANGED agentProcessVars PROVE Accounted'
  BY <1>2, <1>10 DEF agentProcessVars, serverVars, boundVars, Accounted, Lost, Doomed
<1>11. ASSUME Loop(TRUE) \/ Loop(FALSE) PROVE Accounted'
  <2>1. UNCHANGED <<proc, file, attempt, live, issued, raced, revoked>> /\ faults' \in {faults, faults + 1}
    BY <1>11 DEF Loop, Fault, serverVars, boundVars
  <2>2. QED
    BY <1>2, <2>1 DEF Accounted, Lost, Doomed
<1>12. QED
  BY <1>3, <1>4, <1>5, <1>6, <1>7, <1>8, <1>9, <1>10, <1>11 DEF Next, TurnStep, AttemptStep

-----------------------------------------------------------------------------
(* Inventories *)

\* With one loop the flag is up while an inventory is owed, and a turn that sends
\* one collected it after it was called for: once accepted it is owed no more.
Remembered == Alone /\ proc = "running" =>
    /\ owed => forceTelemetry
    /\ \A t \in Busy : turn[t].pc # "work" =>
          /\ turn[t].current
          /\ turn[t].pc = "accepted" /\ turn[t].telemetry = "FULL" => ~owed

LEMMA RememberedNext ==
    AgentTypeOK /\ LoopInv /\ OneCredential /\ Remembered /\ [Next]_agentProcessVars => Remembered'
<1> SUFFICES ASSUME AgentTypeOK, LoopInv, OneCredential, Remembered, [Next]_agentProcessVars PROVE Remembered'
  OBVIOUS
<1>1. ASSUME proc' # "running" PROVE Remembered'
  BY <1>1 DEF Remembered
<1>2. ASSUME Start PROVE Remembered'
  <2>1. Busy' = {} /\ (owed' => forceTelemetry')
    BY <1>2 DEF Start, AgentTypeOK, Busy
  <2>2. QED
    BY <2>1 DEF Remembered
<1>3. ASSUME Ends \/ Shutdown PROVE Remembered'
  BY <1>1, <1>3 DEF Ends, Shutdown
<1>4. ASSUME UNCHANGED <<proc, turn, raced, telemetryVars>> PROVE Remembered'
  BY <1>4 DEF Remembered, Alone, Busy, telemetryVars
<1>5. ASSUME NEW b \in BOOLEAN, Loop(b) PROVE Remembered'
  <2>1. UNCHANGED <<proc, raced, telemetryVars>>
    BY <1>5 DEF Loop, boundVars
  <2>2. CASE state = NoCred \/ attempt # "NONE" \/ proc = "stopping"
    <3>1. turn' = turn
      BY <1>5, <2>2 DEF Loop
    <3>2. QED
      BY <1>4, <2>1, <3>1
  <2>3. CASE ~(state = NoCred \/ attempt # "NONE" \/ proc = "stopping")
    <3>1. PICK t \in Turn, telemetry \in {"NONE", "PARTIAL", "FULL"} : Becomes(t, Sent(state, telemetry))
      BY <1>5, <2>3 DEF Loop, Becomes
    <3>2. state \in Cred
      BY CredNat DEF AgentTypeOK, Cred
    <3>3. turn'[t].current /\ turn'[t].pc = "sent" /\ \A u \in Turn : u # t => turn'[u] = turn[u]
      BY <3>1, <3>2, TurnSent, TurnBecomes DEF AgentTypeOK
    <3>4. QED
      BY <2>1, <3>3 DEF Remembered, Alone, Busy, telemetryVars
  <2>4. QED
    BY <2>2, <2>3
<1>6. ASSUME NEW t \in Turn, Judge(t) PROVE Remembered'
  <2>1. t \in Busy /\ UNCHANGED <<proc, raced, forceTelemetry>> /\ turn[t].pc = "sent"
    BY <1>6 DEF Judge, Busy, boundVars
  <2>2. Goes(t, IF turn[t].cred = live THEN "accepted" ELSE "rejected")
    BY <1>6 DEF Judge, Goes
  <2>3. /\ Busy' = Busy /\ turn'[t].pc = (IF turn[t].cred = live THEN "accepted" ELSE "rejected")
        /\ \A u \in Turn : /\ turn'[u].current = turn[u].current /\ turn'[u].telemetry = turn[u].telemetry
                           /\ u # t => turn'[u].pc = turn[u].pc
    BY <2>1, <2>2, TurnGoes, BusyKept DEF AgentTypeOK
  <2>4. owed' => owed /\ ~(turn[t].cred = live /\ turn[t].telemetry = "FULL" /\ turn[t].current)
    BY <1>6 DEF Judge
  <2>5. QED
    BY <2>1, <2>3, <2>4 DEF Remembered, Alone, Busy
<1>7. ASSUME NEW t \in Turn, Accepted(t) PROVE Remembered'
  <2>1. t \in Busy /\ UNCHANGED <<proc, raced, owed>> /\ turn[t].pc = "accepted" /\ Goes(t, "work")
    BY <1>7 DEF Accepted, Busy, Goes, boundVars
  <2>2. /\ Busy' = Busy /\ turn'[t].pc = "work"
        /\ \A u \in Turn : /\ turn'[u].current = turn[u].current /\ turn'[u].telemetry = turn[u].telemetry
                           /\ u # t => turn'[u].pc = turn[u].pc
    BY <2>1, TurnGoes, BusyKept DEF AgentTypeOK
  <2>3. turn[t].telemetry = "FULL" \/ (forceTelemetry => forceTelemetry')
    BY <1>7 DEF Accepted
  <2>4. QED
    BY <2>1, <2>2, <2>3 DEF Remembered, Alone, Busy
<1>8. ASSUME NEW t \in Turn, RefreshRuns(t) PROVE Remembered'
  <2>1. /\ t \in Busy /\ forceTelemetry' /\ UNCHANGED <<proc, raced>>
        /\ Busy' = Busy /\ turn'[t].pc = "work" /\ proc # "down"
    BY <1>8, TurnOwes DEF RefreshRuns, Busy, AgentTypeOK, boundVars
  <2>2. Alone' => Busy' = {t}
    BY <2>1, OneTurn DEF Alone
  <2>3. QED
    BY <2>1, <2>2 DEF Remembered
<1>9. ASSUME NEW t \in Turn, Becomes(t, Idle), UNCHANGED <<proc, raced, owed>>, forceTelemetry => forceTelemetry'
      PROVE  Remembered'
  <2>1. Busy' = Busy \ {t} /\ \A u \in Turn : u # t => turn'[u] = turn[u]
    BY <1>9, TurnBecomes, TurnIdle DEF AgentTypeOK
  <2>2. QED
    BY <1>9, <2>1 DEF Remembered, Alone, Busy
<1>10. ASSUME NEW t \in Turn, WorkDone(t) \/ TurnFails(t, TRUE) \/ TurnFails(t, FALSE) PROVE Remembered'
  <2>1. Becomes(t, Idle) /\ UNCHANGED <<proc, raced, owed>>
    BY <1>10 DEF WorkDone, TurnFails, Becomes, telemetryVars, boundVars
  <2>2. forceTelemetry => forceTelemetry'
    BY <1>10 DEF WorkDone, TurnFails, telemetryVars
  <2>3. QED
    BY <1>9, <2>1, <2>2
<1>11. ASSUME NEW t \in Turn, Rejected(t) PROVE Remembered'
  <2>1. Ends \/ (Becomes(t, Idle) /\ UNCHANGED <<proc, raced, owed, forceTelemetry>>)
    BY <1>11 DEF Rejected, Becomes, telemetryVars, boundVars
  <2>2. QED
    BY <1>3, <1>9, <2>1
<1>12. ASSUME Answer \/ AttemptFails \/ WaitEnds \/ PromptAnswered \/ (Denied /\ ~Ends) \/ Revoke PROVE Remembered'
  <2>1. UNCHANGED <<proc, turn, raced, telemetryVars>>
    BY <1>12 DEF Answer, AttemptFails, WaitEnds, PromptAnswered, Denied, Revoke, turnVars, boundVars
  <2>2. QED
    BY <1>4, <2>1
<1>13. ASSUME Granted PROVE Remembered'
  <2>1. attempt # "NONE" /\ Busy' = Busy /\ proc' = proc /\ (~raced' => ~raced) /\ forceTelemetry'
    BY <1>13, TurnOwes DEF Granted, AgentTypeOK
  <2>2. Alone' => Busy' = {}
    BY <2>1 DEF OneCredential, Alone
  <2>3. QED
    BY <2>1, <2>2 DEF Remembered
<1>14. ASSUME UNCHANGED agentProcessVars PROVE Remembered'
  BY <1>4, <1>14 DEF agentProcessVars, turnVars, boundVars
<1>15. QED
  BY <1>2, <1>3, <1>5, <1>6, <1>7, <1>8, <1>10, <1>11, <1>12, <1>13, <1>14
  DEF Next, TurnStep, AttemptStep, Exit, Crash

-----------------------------------------------------------------------------
(* The inductive invariant *)

AgentInv == AgentTypeOK /\ LoopInv /\ OneCredential /\ Accounted /\ Remembered

LEMMA AgentInvInit == AgentInit => AgentInv
<1> SUFFICES ASSUME AgentInit PROVE AgentInv
  OBVIOUS
<1>1. AgentTypeOK /\ LoopInv
  BY TypeInit, LoopInit
<1>2. OneCredential /\ Remembered
  BY DEF AgentInit, OneCredential, Remembered, Alone
<1>3. file \in {0, 1} /\ issued = file /\ live = file /\ faults = 0 /\ revoked = 0
  BY DEF AgentInit, NoCred
<1>4. Accounted
  BY <1>3 DEF AgentInit, Accounted, Lost, Doomed, NoCred
<1>5. QED
  BY <1>1, <1>2, <1>4 DEF AgentInv

LEMMA AgentInvNext == AgentInv /\ [Next]_agentProcessVars => AgentInv'
  BY TypeNext, LoopNext, OneCredentialNext, AccountedNext, RememberedNext DEF AgentInv

\* The agent registers once, and once more only for a withdrawal or a failure, as
\* long as it has one loop: whatever turns, enrolments and stops do meanwhile.
THEOREM EnrolmentsPaidFor == Spec => []EnrolmentsAccounted
<1>1. AgentInv => EnrolmentsAccounted
  BY DEF AgentInv, Accounted, EnrolmentsAccounted
<1>2. QED
  BY <1>1, AgentInvInit, AgentInvNext, PTL DEF Spec

\* An inventory that is called for is not forgotten before the server has it, as
\* long as the agent has one loop.
THEOREM InventoryRemembered == Spec => []TelemetryOwed
<1>1. AgentInv => TelemetryOwed
  BY DEF AgentInv, Remembered, Alone, TelemetryOwed
<1>2. QED
  BY <1>1, AgentInvInit, AgentInvNext, PTL DEF Spec
=============================================================================
