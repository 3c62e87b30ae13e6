------------------------------ MODULE Compliance ------------------------------
(***************************************************************************)
(* Compliance: the policies and groups of an organization, what one of its *)
(* devices reports, and the evaluation of the device, whose results and    *)
(* alerts are written in several statements.                               *)
(*                                                                         *)
(* A Slot is a heartbeat or a POST /compliance/evaluate in flight, and an  *)
(* action is one of its statements.  What administrators do to policies    *)
(* and groups is one action each: it matters when it takes effect.  The    *)
(* rows of one createMany come and go together and are a batch here.       *)
(***************************************************************************)
EXTENDS Naturals, Sequences, FiniteSets, FiniteSetsExt, Functions

CONSTANTS
    Policy, Group,
    Given,      \* the policies there may be at first
    Direct,     \* the target of an assignment to the device itself
    Attr,       \* the attributes of the device that occur
    Version,    \* the operating system versions that occur, split into their parts
    Form,       \* the types and requirements policies are asked to have
    Shape,      \* the shapes of settings that requests have
    Slot,       \* evaluations in flight at once
    MaxChanges, \* bound: changes to policies, groups and the device, and failures
    Good, Bad, Unknown,
    None

ASSUME ComplianceAssumption ==
    /\ Attr \subseteq {"firewall", "antivirus", "agent", "disk", "os", "patch"}
    /\ Version \subseteq Seq(Nat) /\ Slot # {} /\ IsFiniteSet(Slot)
    /\ Form \subseteq [type: {"SECURITY", "COMPLIANCE", "CONFIGURATION"}, needs: SUBSET Attr,
                       minOs: Seq(Nat) \cup {None}]
    /\ \A form \in Form : "os" \in form.needs => form.minOs \in Seq(Nat)
    /\ Good \notin {Bad, Unknown}
    /\ Shape \subseteq {"security", "configuration", "compliance"}
    /\ MaxChanges \in Nat /\ Direct \notin Group /\ Given \subseteq Policy

VARIABLES
    policy,     \* the Policy rows: a form and a status
    assigned,   \* the PolicyAssignment rows; a second one for the same pair changes nothing
    group,      \* the DeviceGroup rows
    member,     \* the groups the device is in
    actual,     \* the device
    facts,      \* what the server knows of it
    result,     \* the ComplianceResult rows, by batch
    alert,      \* the policies with an unresolved COMPLIANCE_VIOLATION alert
    handler,    \* the requests in flight
    settled,    \* for checking: the last evaluation was alone and saw the current state
    changes

inputVars == <<policy, assigned, group, member>>
outputVars == <<result, alert>>
complianceVars == <<inputVars, actual, facts, outputVars, handler, settled, changes>>

Status == {"COMPLIANT", "NON_COMPLIANT"}
Value(a) == IF a = "os" THEN Version ELSE {Good, Bad}
Device == {f \in [Attr -> {Good, Bad} \cup Version] : \A a \in Attr : f[a] \in Value(a)}

\* policySettingsSchema reads the settings of a request as the first of three
\* shapes they fit and drops what that shape does not name, whatever the type of
\* the policy.  No key of the first one is mandatory, so all settings that are
\* well formed fit it; others may fit a later one.
Named == [security |-> {"firewall", "antivirus"}, configuration |-> {},
          compliance |-> {"agent", "disk", "os", "patch"}]
Stored(form, shape) ==
    LET needs == form.needs \cap Named[shape] IN
    [form EXCEPT !.needs = needs, !.minOs = IF "os" \in needs THEN @ ELSE None]

StoredForm == {Stored(form, shape) : form \in Form, shape \in Shape}

NoPolicy == [status |-> "ABSENT", form |-> None]
Deleted == [status |-> "DELETED", form |-> None]
PolicyRow == {NoPolicy, Deleted} \cup [status: {"ACTIVE", "INACTIVE"}, form: StoredForm]
Present(p) == policy[p].status \in {"ACTIVE", "INACTIVE"}

\* One more batch than there should ever be.
Batch == 1 .. Cardinality(Slot) + 1
Verdicts == UNION {[P -> Status] : P \in SUBSET Policy}
NoRows == <<>>
Rows == {b \in Batch : result[b] # NoRows}

\* What an evaluation has read is kept until its last use.
Quiet == [pc |-> "quiet", report |-> <<>>, device |-> <<>>, groups |-> {}, effective |-> <<>>,
          verdicts |-> <<>>, stale |-> {}, alone |-> FALSE]
Busy == {s \in Slot : handler[s] # Quiet}

ComplianceInit ==
    /\ policy \in [Policy -> {NoPolicy} \cup [status: {"ACTIVE"}, form: StoredForm]]
    /\ \A p \in Policy \ Given : policy[p] = NoPolicy
    /\ assigned \in SUBSET ({p \in Policy : Present(p)} \X {Direct})
    /\ group = {} /\ member = {}
    /\ actual \in Device /\ facts = [a \in Attr |-> Unknown]
    /\ result = [b \in Batch |-> NoRows] /\ alert = {}
    /\ handler = [s \in Slot |-> Quiet]
    /\ settled = FALSE /\ changes = 0

-----------------------------------------------------------------------------
(* Policies and groups *)

\* Evaluations that are under way have not seen it, or not all of it.
Changed ==
    /\ changes < MaxChanges /\ changes' = changes + 1
    /\ settled' = FALSE
    /\ handler' = [s \in Slot |-> [handler[s] EXCEPT !.alone = FALSE]]

SetPolicy(p, row) ==
    /\ policy' = [policy EXCEPT ![p] = row]
    /\ UNCHANGED <<group, member, actual, facts, outputVars>>
    /\ Changed

CreatePolicy(p, form, shape, status) ==
    /\ policy[p] = NoPolicy
    /\ SetPolicy(p, [status |-> status, form |-> Stored(form, shape)])
    /\ UNCHANGED assigned

\* The settings may be left out.
UpdatePolicy(p, form, shape, status) ==
    /\ Present(p)
    /\ \E new \in {policy[p].form, Stored(form, shape)} :
          SetPolicy(p, [status |-> status, form |-> new])
    /\ UNCHANGED assigned

\* A copy starts disabled, and without assignments.
DuplicatePolicy(p, q) ==
    /\ Present(p) /\ policy[q] = NoPolicy
    /\ SetPolicy(q, [policy[p] EXCEPT !.status = "INACTIVE"])
    /\ UNCHANGED assigned

\* Faulty variant: its assignments stay.
FaultyDeletePolicy(p) ==
    /\ Present(p)
    /\ SetPolicy(p, Deleted)
    /\ UNCHANGED assigned

\* The assignments go with the policy, its results and alerts do not.
DeletePolicy(p) ==
    /\ Present(p)
    /\ SetPolicy(p, Deleted)
    /\ assigned' = {a \in assigned : a[1] # p}

\* POST /policies/:id/assign, for the device or a group of the organization
Assign(p, target) ==
    /\ Present(p) /\ target \in {Direct} \cup group
    /\ <<p, target>> \notin assigned
    /\ assigned' = assigned \cup {<<p, target>>}
    /\ UNCHANGED <<policy, group, member, actual, facts, outputVars>> /\ Changed

Unassign(p, target) ==
    /\ <<p, target>> \in assigned
    /\ assigned' = assigned \ {<<p, target>>}
    /\ UNCHANGED <<policy, group, member, actual, facts, outputVars>> /\ Changed

\* POST /device-groups, with or without the device in it
CreateGroup(g, withDevice) ==
    /\ g \notin group
    /\ group' = group \cup {g}
    /\ member' = IF withDevice THEN member \cup {g} ELSE member
    /\ UNCHANGED <<policy, assigned, actual, facts, outputVars>> /\ Changed

\* Memberships and assignments go with the group.
DeleteGroup(g) ==
    /\ g \in group
    /\ group' = group \ {g} /\ member' = member \ {g}
    /\ assigned' = {a \in assigned : a[2] # g}
    /\ UNCHANGED <<policy, actual, facts, outputVars>> /\ Changed

AddMember(g) ==
    /\ g \in group \ member
    /\ member' = member \cup {g}
    /\ UNCHANGED <<policy, assigned, group, actual, facts, outputVars>> /\ Changed

RemoveMember(g) ==
    /\ g \in member
    /\ member' = member \ {g}
    /\ UNCHANGED <<policy, assigned, group, actual, facts, outputVars>> /\ Changed

\* An administrator resolves an alert by hand.
ResolveAlert(p) ==
    /\ p \in alert
    /\ alert' = alert \ {p}
    /\ UNCHANGED <<inputVars, actual, facts, result>> /\ Changed

\* A setting of the device changes, or a version.
DeviceChanges(a, v) ==
    /\ v # actual[a] /\ changes < MaxChanges
    /\ actual' = [actual EXCEPT ![a] = v] /\ changes' = changes + 1
    /\ UNCHANGED <<inputVars, facts, outputVars, handler, settled>>

-----------------------------------------------------------------------------
(* One policy and one device *)

\* versionAtLeast: four parts count, missing ones are 0, the first difference decides.
Part(v, i) == IF i <= Len(v) THEN v[i] ELSE 0

\* Faulty variant: a version that has fewer parts is lower.
FaultyVersionAtLeast(current, minimum) ==
    LET differ == {i \in 1 .. 4 : Part(current, i) # Part(minimum, i)} IN
    IF differ = {} THEN Len(current) >= Len(minimum)
    ELSE Part(current, Min(differ)) > Part(minimum, Min(differ))

VersionAtLeast(current, minimum) ==
    LET differ == {i \in 1 .. 4 : Part(current, i) # Part(minimum, i)} IN
    \/ differ = {}
    \/ Part(current, Min(differ)) > Part(minimum, Min(differ))

\* evaluatePolicy: what is unknown violates a requirement, but not the one of the
\* agent version.
Violates(form, a, v) ==
    CASE a \in {"firewall", "antivirus"} -> form.type = "SECURITY" /\ v # Good
      [] a \in {"disk", "patch"} -> form.type = "COMPLIANCE" /\ v # Good
      [] a = "agent" -> form.type = "COMPLIANCE" /\ v = Bad
      [] a = "os" -> form.type = "COMPLIANCE" /\ (v = Unknown \/ ~VersionAtLeast(v, form.minOs))

Evaluated(form, known) ==
    IF \E a \in form.needs : Violates(form, a, known[a]) THEN "NON_COMPLIANT" ELSE "COMPLIANT"

\* The policies in force: active ones assigned to the device or to a group it is in.
InForce(groups) == {p \in Policy : policy[p].status = "ACTIVE" /\ \E t \in {Direct} \cup groups : <<p, t>> \in assigned}

Judged(form) == form.type \in {"SECURITY", "COMPLIANCE"}

-----------------------------------------------------------------------------
(* Heartbeats and evaluations *)

\* One more request: none of those in flight is alone any more.
Begin(s, request) ==
    handler' = [t \in Slot |-> IF t = s THEN [request EXCEPT !.alone = (Busy = {})]
                              ELSE [handler[t] EXCEPT !.alone = FALSE]]

Advance(s, record) == handler' = [handler EXCEPT ![s] = record]

\* evaluateDeviceCompliance() reads the device first, without its disk and patches.
Inventory == {"disk", "patch"}
DeviceRead(h) == [h EXCEPT !.pc = "groups", !.device = Restrict(facts, Attr \ Inventory)]

\* POST /agent/heartbeat with telemetry, of which a part may be missing.
Heartbeat(s, attrs) ==
    /\ handler[s] = Quiet
    /\ Begin(s, [Quiet EXCEPT !.pc = "store", !.report = Restrict(actual, attrs)])
    /\ UNCHANGED <<inputVars, actual, facts, outputVars, settled, changes>>

\* POST /compliance/evaluate
Evaluate(s) ==
    /\ handler[s] = Quiet
    /\ Begin(s, DeviceRead(Quiet))
    /\ UNCHANGED <<inputVars, actual, facts, outputVars, settled, changes>>

\* The statements that store a report, in their order.
Statement == << {"firewall", "antivirus", "agent"}, {"disk"}, {"os"}, {"patch"} >>

\* Faulty variant: what is known is not overwritten.
FaultyStore(s) ==
    LET h == handler[s]
        i == Min({j \in DOMAIN Statement : Statement[j] \cap DOMAIN h.report # {}})
        left == DOMAIN h.report \ Statement[i]
    IN
    /\ h.pc = "store"
    /\ facts' = [a \in Attr |-> IF a \in DOMAIN h.report \ left /\ facts[a] = Unknown
                             THEN h.report[a] ELSE facts[a]]
    /\ settled' = (settled /\ facts' = facts)
    /\ Advance(s, [h EXCEPT !.pc = IF left = {} THEN "device" ELSE "store",
                            !.report = Restrict(h.report, left)])
    /\ UNCHANGED <<inputVars, actual, outputVars, changes>>

Store(s) ==
    LET h == handler[s]
        i == Min({j \in DOMAIN Statement : Statement[j] \cap DOMAIN h.report # {}})
        left == DOMAIN h.report \ Statement[i]
    IN
    /\ h.pc = "store"
    /\ facts' = [a \in Attr |-> IF a \in DOMAIN h.report \ left THEN h.report[a] ELSE facts[a]]
    /\ settled' = (settled /\ facts' = facts)
    /\ Advance(s, [h EXCEPT !.pc = IF left = {} THEN "device" ELSE "store",
                            !.report = Restrict(h.report, left)])
    /\ UNCHANGED <<inputVars, actual, outputVars, changes>>

\* The evaluation after a heartbeat begins ...
ReadDevice(s) ==
    /\ handler[s].pc = "device"
    /\ Advance(s, DeviceRead(handler[s]))
    /\ UNCHANGED <<inputVars, actual, facts, outputVars, settled, changes>>

\* ... and reads the groups the device is in ...
ReadGroups(s) ==
    /\ handler[s].pc = "groups"
    /\ Advance(s, [handler[s] EXCEPT !.pc = "assignments", !.groups = member])
    /\ UNCHANGED <<inputVars, actual, facts, outputVars, settled, changes>>

\* ... the policies in force, of which those of type CONFIGURATION are not judged ...
ReadAssignments(s) ==
    LET h == handler[s]
        judged == {p \in InForce(h.groups) : Judged(policy[p].form)}
    IN
    /\ h.pc = "assignments"
    /\ Advance(s, [h EXCEPT !.pc = "inventory", !.groups = {},
                            !.effective = [p \in judged |-> policy[p].form]])
    /\ UNCHANGED <<inputVars, actual, facts, outputVars, settled, changes>>

\* ... and its disk and patches.
ReadInventory(s) ==
    LET h == handler[s]
        known == [a \in Attr |-> IF a \in Inventory THEN facts[a] ELSE h.device[a]]
    IN
    /\ h.pc = "inventory"
    /\ Advance(s, [h EXCEPT !.pc = "stale", !.device = <<>>, !.effective = <<>>,
                            !.verdicts = [p \in DOMAIN h.effective |-> Evaluated(h.effective[p], known)]])
    /\ UNCHANGED <<inputVars, actual, facts, outputVars, settled, changes>>

\* Faulty variant: only violations are replaced.
FaultyReadStale(s) ==
    /\ handler[s].pc = "stale"
    /\ Advance(s, [handler[s] EXCEPT !.pc = "delete",
          !.stale = {b \in Rows : \E p \in DOMAIN result[b] : result[b][p] = "NON_COMPLIANT"}])
    /\ UNCHANGED <<inputVars, actual, facts, outputVars, settled, changes>>

\* The rows there are by now ...
ReadStale(s) ==
    /\ handler[s].pc = "stale"
    /\ Advance(s, [handler[s] EXCEPT !.pc = "delete", !.stale = Rows])
    /\ UNCHANGED <<inputVars, actual, facts, outputVars, settled, changes>>

\* ... are deleted by id.  A row that is gone is of no interest to others.
DeleteStale(s) ==
    LET h == handler[s] IN
    /\ h.pc = "delete"
    /\ result' = [b \in Batch |-> IF b \in h.stale THEN NoRows ELSE result[b]]
    /\ handler' = [t \in Slot |->
                     IF t = s THEN [h EXCEPT !.pc = "insert", !.stale = {}]
                     ELSE [handler[t] EXCEPT !.stale = @ \ h.stale]]
    /\ UNCHANGED <<inputVars, actual, facts, alert, settled, changes>>

\* The request goes on with the alerts that are left, or is done.
AlertsLeft(s, verdicts) ==
    LET h == handler[s] IN
    IF verdicts # <<>>
    THEN Advance(s, [h EXCEPT !.pc = "alerts", !.verdicts = verdicts]) /\ UNCHANGED settled
    ELSE Advance(s, Quiet) /\ settled' = h.alone

\* One row for each policy that was judged.
Insert(s) ==
    LET h == handler[s] IN
    /\ h.pc = "insert" /\ Rows # Batch
    /\ IF h.verdicts = <<>> THEN UNCHANGED result
       ELSE result' = [result EXCEPT ![CHOOSE b \in Batch \ Rows : TRUE] = h.verdicts]
    /\ AlertsLeft(s, h.verdicts)
    /\ UNCHANGED <<inputVars, actual, facts, alert, changes>>

\* Alerts are raised (createAlertDedup) and resolved (resolveAlertsMatching) in parallel.
Alert(s, p) ==
    LET h == handler[s] IN
    /\ h.pc = "alerts" /\ p \in DOMAIN h.verdicts
    /\ alert' = IF h.verdicts[p] = "NON_COMPLIANT" THEN alert \cup {p} ELSE alert \ {p}
    /\ AlertsLeft(s, Restrict(h.verdicts, DOMAIN h.verdicts \ {p}))
    /\ UNCHANGED <<inputVars, actual, facts, result, changes>>

\* A statement fails or the process stops.
EvaluationFails(s) ==
    /\ handler[s] # Quiet
    /\ changes < MaxChanges /\ changes' = changes + 1
    /\ settled' = FALSE
    /\ Advance(s, Quiet)
    /\ UNCHANGED <<inputVars, actual, facts, outputVars>>

EvaluationStep(s) ==
    \/ Store(s) \/ ReadDevice(s) \/ ReadGroups(s) \/ ReadAssignments(s) \/ ReadInventory(s)
    \/ ReadStale(s) \/ DeleteStale(s) \/ Insert(s) \/ (\E p \in Policy : Alert(s, p))

Next ==
    \/ \E p \in Policy :
          \/ \E form \in Form, shape \in Shape, status \in {"ACTIVE", "INACTIVE"} :
                CreatePolicy(p, form, shape, status) \/ UpdatePolicy(p, form, shape, status)
          \/ \E q \in Policy : DuplicatePolicy(p, q)
          \/ \E t \in {Direct} \cup Group : Assign(p, t) \/ Unassign(p, t)
          \/ DeletePolicy(p) \/ ResolveAlert(p)
    \/ \E a \in Attr : \E v \in Value(a) : DeviceChanges(a, v)
    \/ \E g \in Group :
          CreateGroup(g, TRUE) \/ CreateGroup(g, FALSE) \/ DeleteGroup(g) \/ AddMember(g) \/ RemoveMember(g)
    \/ \E s \in Slot :
          (\E attrs \in (SUBSET Attr) \ {{}} : Heartbeat(s, attrs)) \/ Evaluate(s) \/ EvaluationStep(s) \/ EvaluationFails(s)

\* A device that is up sends a full report again and again, and the server goes on
\* with some request.  Other requests do not keep a report waiting: that there is
\* a Slot for so many only is a bound of the model.
Reports == \E s \in Slot : Heartbeat(s, Attr)
Fairness == SF_complianceVars(Reports) /\ WF_complianceVars(\E s \in Slot : EvaluationStep(s))

Spec == ComplianceInit /\ [][Next]_complianceVars
FairSpec == Spec /\ Fairness

-----------------------------------------------------------------------------
(* Properties *)

\* Rows are well formed, and what an evaluation remembers are rows there are.
ComplianceTypeOK ==
    /\ policy \in [Policy -> PolicyRow]
    /\ assigned \subseteq {p \in Policy : Present(p)} \X ({Direct} \cup group)
    /\ group \subseteq Group /\ member \subseteq group
    /\ actual \in Device
    /\ \A a \in Attr : facts[a] \in Value(a) \cup {Unknown}
    /\ result \in [Batch -> Verdicts] /\ alert \subseteq Policy
    /\ \A s \in Slot : handler[s].stale \subseteq Rows /\ handler[s].verdicts \in Verdicts
    /\ settled \in BOOLEAN /\ changes \in 0 .. MaxChanges

\* A policy has the requirements it was created with.  (It has not: settings
\* that are well formed are read as those of a SECURITY policy.)
RequirementsKept ==
    [][\A p \in Policy, form \in Form, status \in {"ACTIVE", "INACTIVE"} :
         CreatePolicy(p, form, "security", status) => policy'[p].form = form]_complianceVars

\* A device has as many rows for a policy as evaluations ran at once, and one
\* when they run one after the other, however many have failed half-way: the
\* comment on MAX_RESULTS_SCAN relies on it.
RowsBounded == Cardinality(Rows) <= Cardinality(Slot)

\* The reference: the lexicographic order of versions of four parts.
Lower(v, w) ==
    \E i \in 1 .. 4 : Part(v, i) < Part(w, i) /\ \A j \in 1 .. i - 1 : Part(v, j) = Part(w, j)
Short(form, a, v) ==
    IF a = "os" THEN v = Unknown \/ Lower(v, form.minOs)
    ELSE v = Bad \/ (v = Unknown /\ a # "agent")
About(form) == IF form.type = "SECURITY" THEN {"firewall", "antivirus"} ELSE {"disk", "patch", "agent", "os"}
Subject == {p \in InForce(member) : policy[p].form.type # "CONFIGURATION"}
Broken(known) == {p \in Subject : \E a \in policy[p].form.needs \cap About(policy[p].form) :
                                    Short(policy[p].form, a, known[a])}
Right == [p \in Subject |-> IF p \in Broken(facts) THEN "NON_COMPLIANT" ELSE "COMPLIANT"]

\* An evaluation that runs alone, with nothing changing meanwhile, puts everything
\* in order whatever overlapping and failed evaluations have left behind: one row
\* for each policy in force with the right verdict, no other row, and an
\* unresolved alert for exactly those policies in force that are violated.  (Of
\* the alerts of other policies it says nothing: those are never resolved.)
EvaluationSettles ==
    settled /\ Busy = {} =>
        /\ {result[b] : b \in Rows} = {Right} \ {NoRows} /\ Cardinality(Rows) <= 1
        /\ alert \cap Subject = Broken(facts)

\* reduceDeviceState: the status the console shows.
Shown == LET given == UNION {{result[b][p] : p \in DOMAIN result[b]} : b \in Rows} IN
         IF given = {} THEN "UNTESTED" ELSE IF "NON_COMPLIANT" \in given THEN "NON_COMPLIANT" ELSE "COMPLIANT"
Due == IF Subject = {} THEN "UNTESTED" ELSE IF Broken(actual) # {} THEN "NON_COMPLIANT" ELSE "COMPLIANT"

\* Once nothing changes any more the status that is shown comes to be that of the
\* device itself, although evaluations go on overlapping and each of them empties
\* the table for a moment.
StatusRecovers == []<>(Shown = Due)
=============================================================================
