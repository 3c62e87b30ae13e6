---------------------------- MODULE DeviceStatus -----------------------------
(***************************************************************************)
(* The status of the devices of an organization: heartbeats mark a device  *)
(* ONLINE and close its offline alert, a timer marks devices that have     *)
(* been silent too long OFFLINE and raises one.  Both are handlers of      *)
(* several statements over the tables of Alerts, which this module adds    *)
(* the devices to; sweeps may overlap, since the timer does not wait for   *)
(* the last one, and every API process has its own.                        *)
(***************************************************************************)
EXTENDS Alerts

CONSTANTS
    Device,
    Triaging,     \* whether admins acknowledge and resolve alerts by hand
    MaxChanges,   \* bound: silences and re-enrolments
    MaxFailures   \* bound: failing statements and crashes

\* The offline alert of a device; its dedupKey is offline:<id>.
Offline(d) == [device |-> d, type |-> "DEVICE_OFFLINE", key |-> "offline"]

ASSUME DeviceAssumption ==
    /\ Scope = {Offline(d) : d \in Device}
    /\ Triaging \in BOOLEAN
    /\ MaxChanges \in Nat
    /\ MaxFailures \in Nat

VARIABLES
    status,      \* Device.status
    fresh,       \* the devices whose lastSeenAt is within the offline timeout
    changes,
    failures

deviceVars == <<status, fresh, changes, failures>>
allVars == <<alertVars, deviceVars>>

StatusInit ==
    /\ AlertInit
    /\ status = [d \in Device |-> "PENDING"]
    /\ fresh = Device
    /\ changes = 0
    /\ failures = 0

-----------------------------------------------------------------------------
(* Heartbeats *)

\* Faulty variant: only a device that was not ONLINE has alerts to close.
FaultyHeartbeat(s, d) ==
    /\ writer[s] = Quiet
    /\ status' = [status EXCEPT ![d] = "ONLINE"]
    /\ fresh' = fresh \cup {d}
    /\ IF status[d] = "ONLINE"
       THEN UNCHANGED writer
       ELSE writer' = [writer EXCEPT ![s] = [Quiet EXCEPT !.op = "online", !.cur = Offline(d)]]
    /\ UNCHANGED <<alert, changes, failures>>

\* The update of the device by POST /agent/heartbeat.
Heartbeat(s, d) ==
    /\ writer[s] = Quiet
    /\ status' = [status EXCEPT ![d] = "ONLINE"]
    /\ fresh' = fresh \cup {d}
    /\ writer' = [writer EXCEPT ![s] = [Quiet EXCEPT !.op = "online", !.cur = Offline(d)]]
    /\ UNCHANGED <<alert, changes, failures>>

\* markDeviceOnline
MarkOnline(s) ==
    /\ writer[s].op = "online"
    /\ AutoResolve([writer[s].cur EXCEPT !.key = None])
    /\ Done(s)
    /\ UNCHANGED deviceVars

\* Enrolment of a device that exists.
ReEnroll(s, d) ==
    /\ writer[s] = Quiet
    /\ changes < MaxChanges
    /\ changes' = changes + 1
    /\ status' = [status EXCEPT ![d] = "PENDING"]
    /\ fresh' = fresh \cup {d}
    /\ UNCHANGED <<alertVars, failures>>

\* The offline timeout passes without a report of the device.
Silence(d) ==
    /\ d \in fresh
    /\ changes < MaxChanges
    /\ changes' = changes + 1
    /\ fresh' = fresh \ {d}
    /\ UNCHANGED <<alertVars, status, failures>>

-----------------------------------------------------------------------------
(* sweepOfflineDevices *)

\* The sweep purges old resolved alerts first ...
Sweep(s) ==
    /\ writer[s] = Quiet
    /\ \E rows \in SUBSET Alert : Purging(rows)
    /\ writer' = [writer EXCEPT ![s] = [Quiet EXCEPT !.op = "sweep"]]
    /\ UNCHANGED deviceVars

\* Faulty variant: devices with an unresolved alert are taken for marked.
FaultySweepRead(s) ==
    LET stale == {Offline(d) : d \in {e \in Device : /\ status[e] = "ONLINE" /\ e \notin fresh
                                                     /\ ~Covered(Offline(e))}} IN
    /\ writer[s].op = "sweep"
    /\ IF stale = {}
       THEN Done(s)
       ELSE writer' = [writer EXCEPT ![s] = [Quiet EXCEPT !.op = "mark", !.todo = stale]]
    /\ UNCHANGED <<alert, deviceVars>>

\* ... reads the ONLINE devices beyond the cutoff ...
SweepRead(s) ==
    LET stale == {Offline(d) : d \in {e \in Device : status[e] = "ONLINE" /\ e \notin fresh}} IN
    /\ writer[s].op = "sweep"
    /\ IF stale = {}
       THEN Done(s)
       ELSE writer' = [writer EXCEPT ![s] = [Quiet EXCEPT !.op = "mark", !.todo = stale]]
    /\ UNCHANGED <<alert, deviceVars>>

\* ... marks them by id, and goes on to raise their alerts in a batch.
SweepMark(s) ==
    /\ writer[s].op = "mark"
    /\ status' = [d \in Device |-> IF Offline(d) \in writer[s].todo THEN "OFFLINE" ELSE status[d]]
    /\ writer' = [writer EXCEPT ![s].op = "batchFind"]
    /\ UNCHANGED <<alert, fresh, changes, failures>>

\* The timer catches what the sweep throws, and runs again.
StatementFails(s) ==
    /\ failures < MaxFailures
    /\ failures' = failures + 1
    /\ Fail(s)
    /\ UNCHANGED <<status, fresh, changes>>

-----------------------------------------------------------------------------
Steps(s) ==
    \/ MarkOnline(s)
    \/ SweepRead(s)
    \/ SweepMark(s)
    \/ RaiseSteps(s) /\ UNCHANGED deviceVars
    \/ (ResolveWrite(s) \/ AcknowledgeWrite(s)) /\ UNCHANGED deviceVars

StatusNext ==
    \/ \E s \in Slot :
         \/ \E d \in Device : Heartbeat(s, d) \/ ReEnroll(s, d)
         \/ Sweep(s)
         \/ Steps(s)
         \/ /\ Triaging
            /\ \/ \E rows \in SUBSET Alert : ResolveRead(s, rows)
               \/ \E a \in Alert : AcknowledgeRead(s, a)
            /\ UNCHANGED deviceVars
         \/ StatementFails(s)
    \/ \E d \in Device : Silence(d)

StatusSpec == StatusInit /\ [][StatusNext]_allVars

\* A handler in flight goes on.  A sweep, and a heartbeat of a device that
\* reports, come again and again; strong fairness, because slots are a bound
\* of the model and not of the server.
Progress == \A s \in Slot : WF_allVars(Steps(s))
Sweeping == SF_allVars(\E s \in Slot : Sweep(s))
Reporting == \A d \in Device : SF_allVars(\E s \in Slot : Heartbeat(s, d))

RunningSpec == StatusSpec /\ Progress

-----------------------------------------------------------------------------
(* Properties *)

\* Devices that go on reporting end up ONLINE, and their alerts closed,
\* whatever sweeps and triage were under way when they came back.
ReportingRecovers ==
    Reporting => <>[](\A d \in Device : status[d] = "ONLINE" /\ ~Covered(Offline(d)))

\* While sweeps go on, an ONLINE device that falls silent does not stay ONLINE
\* until it reports, whatever happens to its alerts.
SilenceNoticed ==
    Sweeping => \A d \in Device : d \notin fresh /\ status[d] = "ONLINE"
                                  ~> d \in fresh \/ status[d] # "ONLINE"
=============================================================================
