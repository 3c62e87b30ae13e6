-------------------------- MODULE Compliance_proofs -------------------------
(***************************************************************************)
(* Proofs about Compliance, for any number of policies, groups, forms,     *)
(* versions, evaluations in flight and changes.                            *)
(***************************************************************************)
EXTENDS Compliance, FiniteSetTheorems, TLAPS

\* What the server can know of an attribute, and has read of some of them.
Known == {Good, Bad, Unknown} \cup Version
Reading == UNION {[S -> Known] : S \in SUBSET Attr}
InEffect == UNION {[P -> StoredForm] : P \in SUBSET Policy}

Handler == [pc: {"quiet", "store", "device", "groups", "assignments", "inventory", "stale", "delete",
                 "insert", "alerts"},
            report: Reading, device: Reading, groups: SUBSET Group, effective: InEffect,
            verdicts: Verdicts, stale: SUBSET Batch, alone: BOOLEAN]

\* What an evaluation reports of the device are values of its attributes.
ReportOK(h) == \A a \in DOMAIN h.report : h.report[a] \in Value(a)

TypeInv ==
    /\ ComplianceTypeOK
    /\ facts \in [Attr -> Known]
    /\ handler \in [Slot -> Handler]
    /\ \A s \in Slot : ReportOK(handler[s])

\* Every batch of rows has an evaluation of its own that left it: one that is
\* about to insert has none, and one that is about to delete will delete its own.
Owner(f) ==
    /\ \A b, c \in Rows : f[b] = f[c] => b = c
    /\ \A s \in Slot, b \in Rows :
         f[b] = s => /\ handler[s].pc # "insert"
                     /\ handler[s].pc = "delete" => b \in handler[s].stale
OwnersInv == \E f \in [Rows -> Slot] : Owner(f)

\* How far an evaluation that runs alone has got.
Verdict(p) == IF p \in Broken(facts) THEN "NON_COMPLIANT" ELSE "COMPLIANT"
OneBatch == {result[b] : b \in Rows} = {Right} \ {NoRows} /\ Cardinality(Rows) <= 1
Stage(h) ==
    /\ h.pc \in {"groups", "assignments", "inventory"} => \A a \in Attr \ Inventory : h.device[a] = facts[a]
    /\ h.pc = "assignments" => h.groups = member
    /\ h.pc = "inventory" => /\ DOMAIN h.effective = Subject
                             /\ \A p \in Subject : h.effective[p] = policy[p].form
    /\ h.pc \in {"stale", "delete", "insert"} => h.verdicts = Right
    /\ h.pc = "delete" => h.stale = Rows
    /\ h.pc = "insert" => Rows = {}
    /\ h.pc = "alerts" =>
         /\ OneBatch
         /\ DOMAIN h.verdicts \subseteq Subject
         /\ \A p \in DOMAIN h.verdicts : h.verdicts[p] = Verdict(p)
         /\ \A p \in Subject \ DOMAIN h.verdicts : p \in alert <=> p \in Broken(facts)
AloneOK(s) ==
    handler[s].alone => (\A t \in Slot \ {s} : handler[t] = Quiet) /\ Stage(handler[s])

SettleInv == (\A s \in Slot : AloneOK(s)) /\ EvaluationSettles

ComplianceInv == TypeInv /\ OwnersInv /\ SettleInv

-----------------------------------------------------------------------------
\* The empty function is one of any kind, and the only one that is empty.
LEMMA EmptyIsFunction ==
    ASSUME NEW S, NEW D
    PROVE  <<>> \in UNION {[P -> S] : P \in SUBSET D}
<1>1. <<>> \in [{} -> S]
  OBVIOUS
<1> QED  BY <1>1

LEMMA NoDomain ==
    ASSUME NEW S, NEW D, NEW f \in UNION {[P -> S] : P \in SUBSET D}, DOMAIN f = {}
    PROVE  f = <<>>
  OBVIOUS

LEMMA QuietFacts ==
    /\ Quiet \in Handler /\ Quiet.pc = "quiet" /\ ~Quiet.alone
    /\ Quiet.verdicts = <<>> /\ Quiet.stale = {} /\ ReportOK(Quiet)
<1>1. <<>> \in Reading /\ <<>> \in InEffect /\ <<>> \in Verdicts
  BY EmptyIsFunction DEF Reading, InEffect, Verdicts
<1>2. DOMAIN <<>> = {}
  OBVIOUS
<1>3. Quiet \in Handler
  BY <1>1 DEF Quiet, Handler
<1>4. Quiet.pc = "quiet" /\ ~Quiet.alone /\ Quiet.verdicts = <<>> /\ Quiet.stale = {} /\ Quiet.report = <<>>
  BY DEF Quiet
<1>5. ReportOK(Quiet)
  BY <1>2, <1>4 DEF ReportOK
<1> QED  BY <1>3, <1>4, <1>5

\* There are finitely many batches.
LEMMA BatchFacts ==
    ASSUME ComplianceAssumption
    PROVE  /\ Cardinality(Slot) \in Nat
           /\ \A S \in SUBSET Batch : IsFiniteSet(S) /\ Cardinality(S) \in Nat
           /\ Rows \subseteq Batch
<1>1. IsFiniteSet(Slot) /\ Cardinality(Slot) \in Nat
  BY FS_CardinalityType DEF ComplianceAssumption
<1>2. IsFiniteSet(Batch)
  BY <1>1, FS_Interval DEF Batch
<1>3. \A S \in SUBSET Batch : IsFiniteSet(S) /\ Cardinality(S) \in Nat
  BY <1>2, FS_Subset, FS_CardinalityType
<1> QED  BY <1>1, <1>3 DEF Rows

\* What is stored of settings that were asked for.
LEMMA StoredFacts ==
    ASSUME ComplianceAssumption, NEW form \in StoredForm
    PROVE  /\ form.type \in {"SECURITY", "COMPLIANCE", "CONFIGURATION"}
           /\ form.needs \subseteq Attr
           /\ "os" \in form.needs => form.minOs \in Seq(Nat)
<1>1. PICK asked \in Form, shape \in Shape : form = Stored(asked, shape)
  BY DEF StoredForm
<1>2. asked \in [type: {"SECURITY", "COMPLIANCE", "CONFIGURATION"}, needs: SUBSET Attr,
                 minOs: Seq(Nat) \cup {None}]
      /\ ("os" \in asked.needs => asked.minOs \in Seq(Nat))
  BY DEF ComplianceAssumption
<1>3. /\ form.type = asked.type
      /\ form.needs = asked.needs \cap Named[shape]
      /\ "os" \in form.needs => form.minOs = asked.minOs
  BY <1>1, <1>2 DEF Stored
<1> QED  BY <1>2, <1>3

\* Present policies have a stored form.
LEMMA PresentFacts ==
    ASSUME NEW row \in PolicyRow, row.status \in {"ACTIVE", "INACTIVE"}
    PROVE  row \in [status: {"ACTIVE", "INACTIVE"}, form: StoredForm]
  BY DEF PolicyRow, NoPolicy, Deleted

-----------------------------------------------------------------------------
LEMMA TypeInit ==
    ASSUME ComplianceAssumption, ComplianceInit
    PROVE  TypeInv
<1>1. policy \in [Policy -> PolicyRow]
  BY DEF ComplianceInit, PolicyRow
<1>2. assigned \subseteq {p \in Policy : Present(p)} \X ({Direct} \cup group)
  BY DEF ComplianceInit
<1>3. handler = [s \in Slot |-> Quiet] /\ handler \in [Slot -> Handler]
  BY QuietFacts DEF ComplianceInit
<1>4. \A s \in Slot : ReportOK(handler[s])
  BY <1>3, QuietFacts
<1>5. result \in [Batch -> Verdicts]
  <2>1. NoRows \in Verdicts
    BY EmptyIsFunction DEF NoRows, Verdicts
  <2> QED  BY <2>1 DEF ComplianceInit
<1>6. \A s \in Slot : handler[s].stale \subseteq Rows /\ handler[s].verdicts \in Verdicts
  <2>1. \A s \in Slot : handler[s] = Quiet
    BY <1>3
  <2>2. Quiet.verdicts \in Verdicts
    BY QuietFacts DEF Handler
  <2> QED  BY <2>1, <2>2, QuietFacts
<1>7. facts \in [Attr -> Known] /\ \A a \in Attr : facts[a] \in Value(a) \cup {Unknown}
  BY DEF ComplianceInit, Known
<1>8. settled \in BOOLEAN /\ changes \in 0 .. MaxChanges
  <2>1. settled = FALSE /\ changes = 0
    BY DEF ComplianceInit
  <2>2. MaxChanges \in Nat
    BY DEF ComplianceAssumption
  <2>3. settled \in BOOLEAN
    BY <2>1
  <2>4. changes \in 0 .. MaxChanges
    BY <2>1, <2>2
  <2> QED  BY <2>3, <2>4
<1>9. group \subseteq Group /\ member \subseteq group /\ actual \in Device /\ alert \subseteq Policy
  BY DEF ComplianceInit
<1> QED  BY <1>1, <1>2, <1>3, <1>4, <1>5, <1>6, <1>7, <1>8, <1>9 DEF TypeInv, ComplianceTypeOK

\* What administrators' changes do to the evaluations under way.
LEMMA ChangedFacts ==
    ASSUME ComplianceAssumption, TypeInv, Changed
    PROVE  /\ changes' \in 0 .. MaxChanges /\ settled' = FALSE
           /\ handler' \in [Slot -> Handler]
           /\ \A s \in Slot : /\ ~handler'[s].alone
                              /\ handler'[s].pc = handler[s].pc
                              /\ handler'[s].stale = handler[s].stale
                              /\ handler'[s].verdicts = handler[s].verdicts
                              /\ handler'[s].report = handler[s].report
<1>1. changes' \in 0 .. MaxChanges /\ settled' = FALSE
  BY DEF Changed, TypeInv, ComplianceTypeOK, ComplianceAssumption
<1>2. ASSUME NEW s \in Slot
      PROVE  /\ handler'[s] \in Handler /\ ~handler'[s].alone
             /\ handler'[s].pc = handler[s].pc
             /\ handler'[s].stale = handler[s].stale
             /\ handler'[s].verdicts = handler[s].verdicts
             /\ handler'[s].report = handler[s].report
  <2>1. handler'[s] = [handler[s] EXCEPT !.alone = FALSE]
    BY DEF Changed
  <2>2. handler[s] \in Handler
    BY DEF TypeInv
  <2> QED  BY <2>1, <2>2 DEF Handler
<1>3. handler' \in [Slot -> Handler]
  BY <1>2 DEF Changed
<1> QED  BY <1>1, <1>2, <1>3

\* The tables that administrators change stay well formed.
InputsOK ==
    /\ policy \in [Policy -> PolicyRow]
    /\ assigned \subseteq {p \in Policy : Present(p)} \X ({Direct} \cup group)
    /\ group \subseteq Group /\ member \subseteq group /\ alert \subseteq Policy

\* A policy that is written leaves the others present.
LEMMA SetPolicyFacts ==
    ASSUME TypeInv, NEW p \in Policy, NEW row, SetPolicy(p, row)
    PROVE  /\ row \in PolicyRow => policy' \in [Policy -> PolicyRow]
           /\ \A q \in Policy : q # p => policy'[q] = policy[q]
           /\ policy'[p] = row
  BY DEF SetPolicy, TypeInv, ComplianceTypeOK

LEMMA WriteInputs ==
    ASSUME TypeInv, NEW p \in Policy, NEW row \in [status: {"ACTIVE", "INACTIVE"}, form: StoredForm],
           SetPolicy(p, row), UNCHANGED assigned
    PROVE  InputsOK'
<1>1. row \in PolicyRow
  BY DEF PolicyRow
<1>2. /\ policy' \in [Policy -> PolicyRow] /\ policy'[p] = row
      /\ \A q \in Policy : q # p => policy'[q] = policy[q]
  BY <1>1, SetPolicyFacts
<1>3. \A q \in Policy : Present(q) => Present(q)'
  BY <1>2 DEF Present
<1>4. assigned' \subseteq {q \in Policy : Present(q)'} \X ({Direct} \cup group')
  BY <1>3 DEF SetPolicy, TypeInv, ComplianceTypeOK
<1> QED  BY <1>2, <1>4 DEF SetPolicy, outputVars, InputsOK, TypeInv, ComplianceTypeOK

\* What an administrator does.
PolicyWrite(p) ==
    \/ \E form \in Form, shape \in Shape, status \in {"ACTIVE", "INACTIVE"} :
          CreatePolicy(p, form, shape, status) \/ UpdatePolicy(p, form, shape, status)
    \/ \E q \in Policy : DuplicatePolicy(p, q)
Administered ==
    \/ \E p \in Policy :
          \/ PolicyWrite(p)
          \/ \E t \in {Direct} \cup Group : Assign(p, t) \/ Unassign(p, t)
          \/ DeletePolicy(p) \/ ResolveAlert(p)
    \/ \E g \in Group :
          CreateGroup(g, TRUE) \/ CreateGroup(g, FALSE) \/ DeleteGroup(g) \/ AddMember(g) \/ RemoveMember(g)

LEMMA PolicyWriteInputs ==
    ASSUME TypeInv, NEW p \in Policy, PolicyWrite(p)
    PROVE  InputsOK' /\ Changed /\ UNCHANGED <<actual, facts, result>>
<1>1. ASSUME NEW form \in Form, NEW shape \in Shape, NEW status \in {"ACTIVE", "INACTIVE"},
             CreatePolicy(p, form, shape, status)
      PROVE  InputsOK' /\ Changed /\ UNCHANGED <<actual, facts, result>>
  <2>1. [status |-> status, form |-> Stored(form, shape)] \in [status: {"ACTIVE", "INACTIVE"}, form: StoredForm]
    BY DEF StoredForm
  <2>2. SetPolicy(p, [status |-> status, form |-> Stored(form, shape)]) /\ UNCHANGED assigned
    BY <1>1 DEF CreatePolicy
  <2> QED  BY <2>1, <2>2, WriteInputs DEF SetPolicy, outputVars
<1>2. ASSUME NEW form \in Form, NEW shape \in Shape, NEW status \in {"ACTIVE", "INACTIVE"},
             UpdatePolicy(p, form, shape, status)
      PROVE  InputsOK' /\ Changed /\ UNCHANGED <<actual, facts, result>>
  <2>1. PICK new \in {policy[p].form, Stored(form, shape)} : SetPolicy(p, [status |-> status, form |-> new])
    BY <1>2 DEF UpdatePolicy
  <2>2. new \in StoredForm
    <3>1. policy[p].form \in StoredForm
      BY <1>2, PresentFacts DEF UpdatePolicy, Present, TypeInv, ComplianceTypeOK
    <3> QED  BY <3>1 DEF StoredForm
  <2>3. [status |-> status, form |-> new] \in [status: {"ACTIVE", "INACTIVE"}, form: StoredForm]
    BY <2>2
  <2>4. UNCHANGED assigned
    BY <1>2 DEF UpdatePolicy
  <2> QED  BY <2>1, <2>3, <2>4, WriteInputs DEF SetPolicy, outputVars
<1>3. ASSUME NEW q \in Policy, DuplicatePolicy(p, q)
      PROVE  InputsOK' /\ Changed /\ UNCHANGED <<actual, facts, result>>
  <2>1. policy[p] \in [status: {"ACTIVE", "INACTIVE"}, form: StoredForm]
    BY <1>3, PresentFacts DEF DuplicatePolicy, Present, TypeInv, ComplianceTypeOK
  <2>2. [policy[p] EXCEPT !.status = "INACTIVE"] \in [status: {"ACTIVE", "INACTIVE"}, form: StoredForm]
    BY <2>1
  <2>3. SetPolicy(q, [policy[p] EXCEPT !.status = "INACTIVE"]) /\ UNCHANGED assigned
    BY <1>3 DEF DuplicatePolicy
  <2> QED  BY <2>2, <2>3, WriteInputs DEF SetPolicy, outputVars
<1> QED  BY <1>1, <1>2, <1>3 DEF PolicyWrite

LEMMA AdministeredInputs ==
    ASSUME TypeInv, Administered
    PROVE  InputsOK' /\ Changed /\ UNCHANGED <<actual, facts, result>>
<1>1. ASSUME NEW p \in Policy, DeletePolicy(p)
      PROVE  InputsOK' /\ Changed /\ UNCHANGED <<actual, facts, result>>
  <2>1. Deleted \in PolicyRow /\ SetPolicy(p, Deleted)
    BY <1>1 DEF PolicyRow, DeletePolicy
  <2>2. /\ policy' \in [Policy -> PolicyRow]
        /\ \A q \in Policy : q # p => policy'[q] = policy[q]
    BY <2>1, SetPolicyFacts
  <2>3. assigned' \subseteq {q \in Policy : Present(q)'} \X ({Direct} \cup group')
    <3>1. assigned' = {a \in assigned : a[1] # p} /\ group' = group
      BY <1>1 DEF DeletePolicy, SetPolicy
    <3>2. \A q \in Policy : q # p /\ Present(q) => Present(q)'
      BY <2>2 DEF Present
    <3> QED  BY <3>1, <3>2 DEF TypeInv, ComplianceTypeOK
  <2> QED  BY <2>1, <2>2, <2>3 DEF SetPolicy, outputVars, InputsOK, TypeInv, ComplianceTypeOK
<1>2. ASSUME NEW p \in Policy, NEW t \in {Direct} \cup Group, Assign(p, t) \/ Unassign(p, t)
      PROVE  InputsOK' /\ Changed /\ UNCHANGED <<actual, facts, result>>
  BY <1>2 DEF Assign, Unassign, outputVars, InputsOK, Present, TypeInv, ComplianceTypeOK
<1>3. ASSUME NEW p \in Policy, ResolveAlert(p)
      PROVE  InputsOK' /\ Changed /\ UNCHANGED <<actual, facts, result>>
  BY <1>3 DEF ResolveAlert, inputVars, InputsOK, Present, TypeInv, ComplianceTypeOK
<1>4. ASSUME NEW g \in Group, CreateGroup(g, TRUE) \/ CreateGroup(g, FALSE) \/ AddMember(g) \/ RemoveMember(g)
      PROVE  InputsOK' /\ Changed /\ UNCHANGED <<actual, facts, result>>
  BY <1>4 DEF CreateGroup, AddMember, RemoveMember, outputVars, InputsOK, Present, TypeInv, ComplianceTypeOK
<1>5. ASSUME NEW g \in Group, DeleteGroup(g)
      PROVE  InputsOK' /\ Changed /\ UNCHANGED <<actual, facts, result>>
  BY <1>5 DEF DeleteGroup, outputVars, InputsOK, Present, TypeInv, ComplianceTypeOK
<1> QED  BY <1>1, <1>2, <1>3, <1>4, <1>5, PolicyWriteInputs DEF Administered
-----------------------------------------------------------------------------
(* The steps of requests *)

\* The record of a request with another position.
LEMMA Moves ==
    ASSUME TypeInv, NEW s \in Slot, NEW record \in Handler, Advance(s, record)
    PROVE  /\ handler' \in [Slot -> Handler] /\ handler'[s] = record
           /\ \A t \in Slot : t # s => handler'[t] = handler[t]
  BY DEF Advance, TypeInv

LEMMA RestrictFacts ==
    ASSUME NEW f, NEW S
    PROVE  /\ DOMAIN Restrict(f, S) = S
           /\ \A x \in S : Restrict(f, S)[x] = f[x]
  BY DEF Restrict

\* A part of a reading, or of some verdicts, is one.
LEMMA RestrictReading ==
    ASSUME NEW f, NEW S, S \subseteq Attr, \A a \in S : f[a] \in Known
    PROVE  Restrict(f, S) \in Reading
<1>1. Restrict(f, S) \in [S -> Known]
  BY DEF Restrict
<1> QED  BY <1>1 DEF Reading

LEMMA VerdictsPart ==
    ASSUME NEW f \in Verdicts, NEW S, S \subseteq DOMAIN f
    PROVE  Restrict(f, S) \in Verdicts
<1>1. S \subseteq Policy /\ \A p \in S : f[p] \in Status
  BY DEF Verdicts
<1>2. Restrict(f, S) \in [S -> Status]
  BY <1>1 DEF Restrict
<1> QED  BY <1>1, <1>2 DEF Verdicts

\* What a device has is something a server can know.
LEMMA ValueFacts ==
    ASSUME NEW a \in Attr
    PROVE  Value(a) \subseteq Known
  BY DEF Value, Known

LEMMA DeviceFacts ==
    ASSUME ComplianceTypeOK
    PROVE  \A a \in Attr : actual[a] \in Value(a) /\ actual[a] \in Known
  BY ValueFacts DEF ComplianceTypeOK, Device

\* What a handler may become: everything about it but how far it has got.
LEMMA DeviceReadFacts ==
    ASSUME TypeInv, NEW h \in Handler
    PROVE  /\ DeviceRead(h) \in Handler /\ DeviceRead(h).pc = "groups"
           /\ DeviceRead(h).report = h.report /\ DeviceRead(h).verdicts = h.verdicts
           /\ DeviceRead(h).stale = h.stale /\ DeviceRead(h).alone = h.alone
           /\ \A a \in Attr \ Inventory : DeviceRead(h).device[a] = facts[a]
<1> DEFINE seen == Restrict(facts, Attr \ Inventory)
<1>1. seen \in Reading
  BY RestrictReading DEF TypeInv
<1>2. \A a \in Attr \ Inventory : seen[a] = facts[a]
  BY RestrictFacts
<1>3. DeviceRead(h) = [h EXCEPT !.pc = "groups", !.device = seen]
  BY DEF DeviceRead
<1> HIDE DEF seen
<1>4. DeviceRead(h) \in Handler /\ DeviceRead(h).device = seen
  BY <1>1, <1>3 DEF Handler
<1>5. /\ DeviceRead(h).pc = "groups"
      /\ DeviceRead(h).report = h.report /\ DeviceRead(h).verdicts = h.verdicts
      /\ DeviceRead(h).stale = h.stale /\ DeviceRead(h).alone = h.alone
  BY <1>3 DEF Handler
<1> QED  BY <1>2, <1>4, <1>5

\* A request that begins.
LEMMA BeginFacts ==
    ASSUME TypeInv, NEW s \in Slot, NEW request \in Handler, Begin(s, request)
    PROVE  /\ handler' \in [Slot -> Handler]
           /\ handler'[s] = [request EXCEPT !.alone = (Busy = {})]
           /\ handler'[s].alone => Busy = {}
           /\ handler'[s].pc = request.pc /\ handler'[s].report = request.report
           /\ handler'[s].device = request.device
           /\ handler'[s].verdicts = request.verdicts /\ handler'[s].stale = request.stale
           /\ \A t \in Slot : t # s =>
                /\ ~handler'[t].alone
                /\ handler'[t] = [handler[t] EXCEPT !.alone = FALSE]
                /\ handler'[t].pc = handler[t].pc /\ handler'[t].stale = handler[t].stale
                /\ handler'[t].verdicts = handler[t].verdicts /\ handler'[t].report = handler[t].report
<1>1. handler'[s] = [request EXCEPT !.alone = (Busy = {})]
  BY DEF Begin
<1>2. /\ handler'[s] \in Handler
      /\ handler'[s].pc = request.pc /\ handler'[s].report = request.report
      /\ handler'[s].device = request.device
      /\ handler'[s].verdicts = request.verdicts /\ handler'[s].stale = request.stale
  <2>1. (Busy = {}) \in BOOLEAN
    OBVIOUS
  <2> DEFINE b == (Busy = {})
  <2>2. handler'[s] = [request EXCEPT !.alone = b] /\ b \in BOOLEAN
    BY <1>1, <2>1
  <2> HIDE DEF b
  <2> QED  BY <2>2 DEF Handler
<1>3. handler'[s].alone => Busy = {}
  BY <1>1 DEF Handler
<1>4. ASSUME NEW t \in Slot, t # s
      PROVE  /\ handler'[t] \in Handler /\ ~handler'[t].alone
             /\ handler'[t] = [handler[t] EXCEPT !.alone = FALSE]
             /\ handler'[t].pc = handler[t].pc /\ handler'[t].stale = handler[t].stale
             /\ handler'[t].verdicts = handler[t].verdicts /\ handler'[t].report = handler[t].report
  <2>1. handler'[t] = [handler[t] EXCEPT !.alone = FALSE]
    BY <1>4 DEF Begin
  <2>2. handler[t] \in Handler
    BY DEF TypeInv
  <2> QED  BY <2>1, <2>2 DEF Handler
<1>5. handler' \in [Slot -> Handler]
  BY <1>2, <1>4 DEF Begin
<1> QED  BY <1>1, <1>2, <1>3, <1>4, <1>5
-----------------------------------------------------------------------------
(* What each kind of step does to the rows and to where requests stand *)

\* Only the type correctness of what a step writes is left to show.
LEMMA TypeFrame ==
    ASSUME TypeInv, InputsOK', actual' \in Device,
           facts' \in [Attr -> Known], \A a \in Attr : facts'[a] \in Value(a) \cup {Unknown},
           result' \in [Batch -> Verdicts],
           handler' \in [Slot -> Handler],
           \A s \in Slot : handler'[s].stale \subseteq Rows' /\ ReportOK(handler'[s]),
           settled' \in BOOLEAN, changes' \in 0 .. MaxChanges
    PROVE  TypeInv'
<1>1. \A s \in Slot : handler'[s].verdicts \in Verdicts
  BY DEF Handler
<1>2. \A s \in Slot : ReportOK(handler[s])'
  BY DEF ReportOK
<1> QED  BY <1>1, <1>2 DEF TypeInv, ComplianceTypeOK, InputsOK, Present

LEMMA SameInputs ==
    ASSUME TypeInv, UNCHANGED inputVars, alert' \subseteq Policy
    PROVE  InputsOK'
  BY DEF TypeInv, ComplianceTypeOK, inputVars, InputsOK, Present

LEMMA SameRows ==
    ASSUME UNCHANGED result
    PROVE  Rows' = Rows
  BY DEF Rows

\* Administrators leave requests where they are.
LEMMA AdministeredType ==
    ASSUME ComplianceAssumption, TypeInv, Administered
    PROVE  TypeInv'
<1>1. InputsOK' /\ Changed /\ UNCHANGED <<actual, facts, result>>
  BY AdministeredInputs
<1>2. /\ changes' \in 0 .. MaxChanges /\ settled' = FALSE /\ handler' \in [Slot -> Handler]
      /\ \A s \in Slot : handler'[s].stale = handler[s].stale /\ handler'[s].report = handler[s].report
  BY <1>1, ChangedFacts
<1>3. \A s \in Slot : handler'[s].stale \subseteq Rows' /\ ReportOK(handler'[s])
  BY <1>1, <1>2, SameRows DEF TypeInv, ComplianceTypeOK, ReportOK
<1>4. /\ actual' \in Device /\ facts' \in [Attr -> Known] /\ \A a \in Attr : facts'[a] \in Value(a) \cup {Unknown}
      /\ result' \in [Batch -> Verdicts] /\ settled' \in BOOLEAN
  BY <1>1, <1>2 DEF TypeInv, ComplianceTypeOK
<1> QED  BY <1>1, <1>2, <1>3, <1>4, TypeFrame

LEMMA DeviceChangesType ==
    ASSUME ComplianceAssumption, TypeInv, NEW a \in Attr, NEW v \in Value(a), DeviceChanges(a, v)
    PROVE  TypeInv'
<1>1. actual' \in Device
  <2>1. v \in {Good, Bad} \cup Version
    BY DEF Value
  <2>2. actual \in [Attr -> {Good, Bad} \cup Version] /\ \A b \in Attr : actual[b] \in Value(b)
    BY DEF TypeInv, ComplianceTypeOK, Device
  <2>3. actual' = [actual EXCEPT ![a] = v]
    BY DEF DeviceChanges
  <2> QED  BY <2>1, <2>2, <2>3 DEF Device
<1>2. changes' \in 0 .. MaxChanges
  BY DEF DeviceChanges, TypeInv, ComplianceTypeOK, ComplianceAssumption
<1>3. UNCHANGED <<inputVars, facts, result, alert, handler, settled>>
  BY DEF DeviceChanges, outputVars
<1>4. InputsOK' /\ Rows' = Rows
  BY <1>3, SameInputs, SameRows DEF TypeInv, ComplianceTypeOK
<1> QED  BY <1>1, <1>2, <1>3, <1>4, TypeFrame DEF TypeInv, ComplianceTypeOK

\* A step that moves one request, s, and leaves the tables alone: it may begin,
\* read, or end.
Reads(s, record) ==
    /\ Advance(s, record) /\ UNCHANGED <<inputVars, actual, facts, outputVars>>
    /\ record \in Handler /\ ReportOK(record)
    /\ record.stale = handler[s].stale \/ record.stale \subseteq Rows

LEMMA ReadsType ==
    ASSUME ComplianceAssumption, TypeInv, NEW s \in Slot, NEW record, Reads(s, record),
           settled' \in BOOLEAN, changes' \in 0 .. MaxChanges
    PROVE  TypeInv'
<1>1. UNCHANGED <<inputVars, actual, facts, result, alert>>
  BY DEF Reads, outputVars
<1>2. InputsOK' /\ Rows' = Rows
  BY <1>1, SameInputs, SameRows DEF TypeInv, ComplianceTypeOK
<1>3. /\ handler' \in [Slot -> Handler] /\ handler'[s] = record
      /\ \A t \in Slot : t # s => handler'[t] = handler[t]
  BY Moves DEF Reads
<1>4. \A t \in Slot : handler'[t].stale \subseteq Rows /\ ReportOK(handler'[t])
  BY <1>3 DEF Reads, TypeInv, ComplianceTypeOK
<1> QED  BY <1>1, <1>2, <1>3, <1>4, TypeFrame DEF TypeInv, ComplianceTypeOK

LEMMA BeginType ==
    ASSUME ComplianceAssumption, TypeInv, NEW s \in Slot, NEW request \in Handler, Begin(s, request),
           ReportOK(request), request.stale = {},
           UNCHANGED <<inputVars, actual, facts, outputVars, settled, changes>>
    PROVE  TypeInv'
<1>1. UNCHANGED <<inputVars, actual, facts, result, alert>>
  BY DEF outputVars
<1>2. InputsOK' /\ Rows' = Rows
  BY <1>1, SameInputs, SameRows DEF TypeInv, ComplianceTypeOK
<1>3. /\ handler' \in [Slot -> Handler]
      /\ handler'[s].report = request.report /\ handler'[s].stale = request.stale
      /\ \A t \in Slot : t # s => /\ handler'[t].stale = handler[t].stale
                                  /\ handler'[t].report = handler[t].report
  BY BeginFacts
<1>4. \A t \in Slot : handler'[t].stale \subseteq Rows /\ ReportOK(handler'[t])
  BY <1>3 DEF TypeInv, ComplianceTypeOK, ReportOK
<1> QED  BY <1>1, <1>2, <1>3, <1>4, TypeFrame DEF TypeInv, ComplianceTypeOK

\* The records with which the two requests begin.
LEMMA HeartbeatRecord ==
    ASSUME TypeInv, NEW attrs \in SUBSET Attr
    PROVE  LET r == [Quiet EXCEPT !.pc = "store", !.report = Restrict(actual, attrs)] IN
           /\ r \in Handler /\ ReportOK(r) /\ r.stale = {} /\ r.verdicts = <<>> /\ r.pc = "store"
<1> DEFINE seen == Restrict(actual, attrs)
           r == [Quiet EXCEPT !.pc = "store", !.report = seen]
<1>1. DOMAIN seen = attrs /\ \A a \in attrs : seen[a] = actual[a]
  BY RestrictFacts
<1>2. seen \in Reading
  BY DeviceFacts, RestrictReading DEF TypeInv
<1>3. \A a \in DOMAIN seen : seen[a] \in Value(a)
  BY <1>1, DeviceFacts DEF TypeInv
<1> HIDE DEF seen
<1>4. r \in Handler /\ r.report = seen /\ r.stale = Quiet.stale /\ r.verdicts = Quiet.verdicts /\ r.pc = "store"
  BY <1>2, QuietFacts DEF Handler
<1>5. ReportOK(r)
  BY <1>3, <1>4 DEF ReportOK
<1>6. /\ r \in Handler /\ ReportOK(r) /\ r.stale = {} /\ r.verdicts = <<>> /\ r.pc = "store"
  BY <1>4, <1>5, QuietFacts
<1> QED  BY <1>6 DEF seen
-----------------------------------------------------------------------------
(* What the reads of an evaluation leave in its record *)

LEMMA HandlerFacts ==
    ASSUME TypeInv, NEW s \in Slot
    PROVE  /\ handler[s] \in Handler /\ ReportOK(handler[s])
           /\ handler[s].stale \subseteq Rows /\ handler[s].stale \in SUBSET Batch
  BY DEF TypeInv, ComplianceTypeOK, Rows

LEMMA ReadDeviceFacts ==
    ASSUME TypeInv, NEW s \in Slot, ReadDevice(s)
    PROVE  \E r : /\ Reads(s, r) /\ r.pc = "groups" /\ r.alone = handler[s].alone
                  /\ \A a \in Attr \ Inventory : r.device[a] = facts[a]
<1> PICK r : r = DeviceRead(handler[s])
  OBVIOUS
<1>1. /\ r \in Handler /\ r.pc = "groups" /\ r.report = handler[s].report
      /\ r.stale = handler[s].stale /\ r.alone = handler[s].alone
      /\ \A a \in Attr \ Inventory : r.device[a] = facts[a]
  BY HandlerFacts, DeviceReadFacts
<1>2. ReportOK(r)
  BY <1>1, HandlerFacts DEF ReportOK
<1>3. Reads(s, r)
  BY <1>1, <1>2 DEF ReadDevice, Reads
<1> QED  BY <1>1, <1>3

LEMMA ReadGroupsFacts ==
    ASSUME TypeInv, NEW s \in Slot, ReadGroups(s)
    PROVE  \E r : /\ Reads(s, r) /\ r.pc = "assignments" /\ r.alone = handler[s].alone
                  /\ r.device = handler[s].device /\ r.groups = member
<1> PICK r : r = [handler[s] EXCEPT !.pc = "assignments", !.groups = member]
  OBVIOUS
<1>0. member \in SUBSET Group
  BY DEF TypeInv, ComplianceTypeOK
<1>1. /\ r \in Handler /\ r.pc = "assignments" /\ r.report = handler[s].report
      /\ r.stale = handler[s].stale /\ r.alone = handler[s].alone
      /\ r.device = handler[s].device /\ r.groups = member
  BY <1>0, HandlerFacts DEF Handler
<1>2. ReportOK(r)
  BY <1>1, HandlerFacts DEF ReportOK
<1>3. Reads(s, r)
  BY <1>1, <1>2 DEF ReadGroups, Reads
<1> QED  BY <1>1, <1>3

\* Policies in force have stored forms.
LEMMA InForceFacts ==
    ASSUME TypeInv, NEW groups, NEW p \in InForce(groups)
    PROVE  policy[p].form \in StoredForm
  BY PresentFacts DEF InForce, TypeInv, ComplianceTypeOK

LEMMA ReadAssignmentsFacts ==
    ASSUME TypeInv, NEW s \in Slot, ReadAssignments(s)
    PROVE  \E r : /\ Reads(s, r) /\ r.pc = "inventory" /\ r.alone = handler[s].alone
                  /\ r.device = handler[s].device
                  /\ DOMAIN r.effective = {p \in InForce(handler[s].groups) : Judged(policy[p].form)}
                  /\ \A p \in DOMAIN r.effective : r.effective[p] = policy[p].form
<1> DEFINE judged == {p \in InForce(handler[s].groups) : Judged(policy[p].form)}
           found == [p \in judged |-> policy[p].form]
<1> PICK r : r = [handler[s] EXCEPT !.pc = "inventory", !.groups = {}, !.effective = found]
  OBVIOUS
<1>0. found \in InEffect
  <2>1. judged \subseteq Policy
    BY DEF InForce
  <2>2. found \in [judged -> StoredForm]
    BY InForceFacts
  <2> QED  BY <2>1, <2>2 DEF InEffect
<1>1. DOMAIN found = judged /\ \A p \in judged : found[p] = policy[p].form
  OBVIOUS
<1>2. Advance(s, r) /\ UNCHANGED <<inputVars, actual, facts, outputVars>>
  BY DEF ReadAssignments
<1> HIDE DEF found
<1>3. r \in Handler /\ r.effective = found
  BY <1>0, HandlerFacts DEF Handler
<1>4. /\ r.pc = "inventory" /\ r.report = handler[s].report
      /\ r.stale = handler[s].stale /\ r.alone = handler[s].alone
      /\ r.device = handler[s].device
  BY HandlerFacts DEF Handler
<1>5. ReportOK(r)
  BY <1>4, HandlerFacts DEF ReportOK
<1>6. Reads(s, r)
  BY <1>2, <1>3, <1>4, <1>5 DEF Reads
<1>7. /\ DOMAIN r.effective = judged
      /\ \A p \in judged : r.effective[p] = policy[p].form
  BY <1>1, <1>3
<1> HIDE DEF judged
<1>8. \A p \in DOMAIN r.effective : r.effective[p] = policy[p].form
  BY <1>7
<1> QED  BY <1>4, <1>6, <1>7, <1>8 DEF judged

LEMMA ReadInventoryFacts ==
    ASSUME TypeInv, NEW s \in Slot, ReadInventory(s)
    PROVE  LET h == handler[s]
               known == [a \in Attr |-> IF a \in Inventory THEN facts[a] ELSE h.device[a]]
           IN \E r : /\ Reads(s, r) /\ r.pc = "stale" /\ r.alone = h.alone
                     /\ r.verdicts = [p \in DOMAIN h.effective |-> Evaluated(h.effective[p], known)]
<1> DEFINE h == handler[s]
           known == [a \in Attr |-> IF a \in Inventory THEN facts[a] ELSE h.device[a]]
           found == [p \in DOMAIN h.effective |-> Evaluated(h.effective[p], known)]
<1> PICK r : r = [handler[s] EXCEPT !.pc = "stale", !.device = <<>>, !.effective = <<>>, !.verdicts = found]
  OBVIOUS
<1>0. found \in Verdicts
  <2>1. DOMAIN h.effective \subseteq Policy
    BY HandlerFacts DEF Handler, InEffect
  <2>2. found \in [DOMAIN h.effective -> Status]
    BY DEF Evaluated, Status
  <2> QED  BY <2>1, <2>2 DEF Verdicts
<1>1. <<>> \in Reading /\ <<>> \in InEffect
  BY EmptyIsFunction DEF Reading, InEffect
<1>2. Advance(s, r) /\ UNCHANGED <<inputVars, actual, facts, outputVars>>
  BY DEF ReadInventory
<1> HIDE DEF found
<1>3. r \in Handler /\ r.verdicts = found
  BY <1>0, <1>1, HandlerFacts DEF Handler
<1>4. /\ r.pc = "stale" /\ r.report = handler[s].report
      /\ r.stale = handler[s].stale /\ r.alone = handler[s].alone
  BY HandlerFacts DEF Handler
<1>5. ReportOK(r)
  BY <1>4, HandlerFacts DEF ReportOK
<1>6. Reads(s, r)
  BY <1>2, <1>3, <1>4, <1>5 DEF Reads
<1> QED  BY <1>3, <1>4, <1>6 DEF found

LEMMA ReadStaleFacts ==
    ASSUME ComplianceAssumption, TypeInv, NEW s \in Slot, ReadStale(s)
    PROVE  \E r : /\ Reads(s, r) /\ r.pc = "delete" /\ r.alone = handler[s].alone
                  /\ r.verdicts = handler[s].verdicts /\ r.stale = Rows
<1> PICK r : r = [handler[s] EXCEPT !.pc = "delete", !.stale = Rows]
  OBVIOUS
<1>0. Rows \in SUBSET Batch
  BY DEF Rows
<1>1. /\ r \in Handler /\ r.pc = "delete" /\ r.report = handler[s].report
      /\ r.stale = Rows /\ r.alone = handler[s].alone /\ r.verdicts = handler[s].verdicts
  BY <1>0, HandlerFacts DEF Handler
<1>2. ReportOK(r)
  BY <1>1, HandlerFacts DEF ReportOK
<1>3. Reads(s, r)
  BY <1>1, <1>2 DEF ReadStale, Reads
<1> QED  BY <1>1, <1>3

\* A report is stored in several statements.
LEMMA StoreFacts ==
    ASSUME TypeInv, NEW s \in Slot, Store(s)
    PROVE  /\ facts' \in [Attr -> Known] /\ \A a \in Attr : facts'[a] \in Value(a) \cup {Unknown}
           /\ settled' \in BOOLEAN /\ UNCHANGED <<inputVars, actual, outputVars, changes>>
           /\ \E r : /\ Advance(s, r) /\ r \in Handler /\ ReportOK(r)
                     /\ r.pc \in {"device", "store"}
                     /\ r.alone = handler[s].alone /\ r.stale = handler[s].stale
<1> DEFINE h == handler[s]
           i == Min({j \in DOMAIN Statement : Statement[j] \cap DOMAIN h.report # {}})
           left == DOMAIN h.report \ Statement[i]
           rest == Restrict(h.report, left)
           pc == IF left = {} THEN "device" ELSE "store"
<1>1. h \in Handler /\ ReportOK(h) /\ DOMAIN h.report \subseteq Attr
      /\ \A a \in DOMAIN h.report : h.report[a] \in Known
  <2>1. h \in Handler /\ ReportOK(h)
    BY HandlerFacts
  <2>2. h.report \in Reading
    BY <2>1 DEF Handler
  <2> QED  BY <2>1, <2>2 DEF Reading
<1>2. /\ facts' = [a \in Attr |-> IF a \in DOMAIN h.report \ left THEN h.report[a] ELSE facts[a]]
      /\ settled' = (settled /\ facts' = facts)
      /\ Advance(s, [h EXCEPT !.pc = pc, !.report = rest])
      /\ UNCHANGED <<inputVars, actual, outputVars, changes>>
  BY DEF Store
<1>3. left \subseteq DOMAIN h.report
  OBVIOUS
<1> HIDE DEF left
<1>4. facts' \in [Attr -> Known] /\ \A a \in Attr : facts'[a] \in Value(a) \cup {Unknown}
  BY <1>1, <1>2 DEF ReportOK, TypeInv, ComplianceTypeOK
<1>5. rest \in Reading /\ DOMAIN rest = left /\ \A a \in left : rest[a] = h.report[a]
  BY <1>1, <1>3, RestrictReading, RestrictFacts
<1>6. pc \in {"device", "store"}
  OBVIOUS
<1> HIDE DEF rest, pc, h
<1> PICK r : r = [h EXCEPT !.pc = pc, !.report = rest]
  OBVIOUS
<1>7. /\ r \in Handler /\ r.pc = pc /\ r.report = rest
      /\ r.alone = h.alone /\ r.stale = h.stale
  BY <1>1, <1>5, <1>6 DEF Handler
<1>8. ReportOK(r)
  BY <1>1, <1>3, <1>5, <1>7 DEF ReportOK
<1>9. settled' \in BOOLEAN
  BY <1>2
<1> QED  BY <1>2, <1>4, <1>6, <1>7, <1>8, <1>9 DEF h

\* The request goes on with its alerts or ends.
LEMMA AlertsLeftFacts ==
    ASSUME TypeInv, NEW s \in Slot, NEW verdicts \in Verdicts, AlertsLeft(s, verdicts)
    PROVE  \/ /\ verdicts = <<>> /\ Advance(s, Quiet) /\ settled' = handler[s].alone
           \/ /\ UNCHANGED settled
              /\ \E r : /\ Advance(s, r) /\ r \in Handler /\ ReportOK(r)
                        /\ r.pc = "alerts" /\ r.verdicts = verdicts
                        /\ r.alone = handler[s].alone /\ r.stale = handler[s].stale
<1>1. CASE verdicts = <<>>
  BY <1>1 DEF AlertsLeft
<1>2. CASE verdicts # <<>>
  <2> PICK r : r = [handler[s] EXCEPT !.pc = "alerts", !.verdicts = verdicts]
    OBVIOUS
  <2>1. /\ r \in Handler /\ r.pc = "alerts" /\ r.report = handler[s].report /\ r.verdicts = verdicts
        /\ r.alone = handler[s].alone /\ r.stale = handler[s].stale
    BY HandlerFacts DEF Handler
  <2>2. ReportOK(r)
    BY <2>1, HandlerFacts DEF ReportOK
  <2>3. Advance(s, r) /\ UNCHANGED settled
    BY <1>2 DEF AlertsLeft
  <2> QED  BY <2>1, <2>2, <2>3
<1> QED  BY <1>1, <1>2
-----------------------------------------------------------------------------
(* The steps that write *)

LEMMA DeleteFacts ==
    ASSUME TypeInv, NEW s \in Slot, DeleteStale(s)
    PROVE  /\ result' \in [Batch -> Verdicts]
           /\ Rows' = Rows \ handler[s].stale
           /\ \A b \in Rows' : result'[b] = result[b]
           /\ handler' \in [Slot -> Handler]
           /\ /\ handler'[s].pc = "insert" /\ handler'[s].stale = {}
              /\ handler'[s].alone = handler[s].alone
              /\ handler'[s].verdicts = handler[s].verdicts
              /\ handler'[s].report = handler[s].report
           /\ \A t \in Slot : t # s =>
                /\ handler'[t] = [handler[t] EXCEPT !.stale = handler[t].stale \ handler[s].stale]
                /\ handler'[t].pc = handler[t].pc
                /\ handler'[t].stale = handler[t].stale \ handler[s].stale
                /\ handler'[t].alone = handler[t].alone
                /\ handler'[t].report = handler[t].report
<1> DEFINE h == handler[s]
<1>1. h \in Handler /\ h.stale \subseteq Batch
  BY HandlerFacts
<1>2. result' = [b \in Batch |-> IF b \in h.stale THEN NoRows ELSE result[b]]
  BY DEF DeleteStale
<1>3. NoRows \in Verdicts
  BY EmptyIsFunction DEF NoRows, Verdicts
<1>4. result' \in [Batch -> Verdicts]
  BY <1>2, <1>3 DEF TypeInv, ComplianceTypeOK
<1>5. Rows' = Rows \ h.stale /\ \A b \in Rows' : result'[b] = result[b]
  <2>1. Batch' = Batch
    BY DEF Batch
  <2> QED  BY <1>2, <2>1 DEF Rows
<1>6. handler'[s] = [h EXCEPT !.pc = "insert", !.stale = {}]
  BY DEF DeleteStale
<1>7. /\ handler'[s] \in Handler
      /\ handler'[s].pc = "insert" /\ handler'[s].stale = {}
      /\ handler'[s].alone = h.alone /\ handler'[s].verdicts = h.verdicts
      /\ handler'[s].report = h.report
  BY <1>1, <1>6 DEF Handler
<1>8. ASSUME NEW t \in Slot, t # s
      PROVE  /\ handler'[t] \in Handler
             /\ handler'[t] = [handler[t] EXCEPT !.stale = handler[t].stale \ h.stale]
             /\ handler'[t].pc = handler[t].pc
             /\ handler'[t].stale = handler[t].stale \ h.stale
             /\ handler'[t].alone = handler[t].alone
             /\ handler'[t].report = handler[t].report
  <2>1. handler'[t] = [handler[t] EXCEPT !.stale = handler[t].stale \ h.stale]
    BY <1>8 DEF DeleteStale
  <2>2. handler[t] \in Handler /\ handler[t].stale \ h.stale \in SUBSET Batch
    BY HandlerFacts
  <2> QED  BY <2>1, <2>2 DEF Handler
<1>9. handler' \in [Slot -> Handler]
  <2>1. handler' = [t \in Slot |->
                     IF t = s THEN [h EXCEPT !.pc = "insert", !.stale = {}]
                     ELSE [handler[t] EXCEPT !.stale = @ \ h.stale]]
    BY DEF DeleteStale
  <2>2. \A t \in Slot : handler'[t] \in Handler
    BY <1>7, <1>8
  <2> HIDE DEF h
  <2> QED  BY <2>1, <2>2
<1> QED  BY <1>4, <1>5, <1>7, <1>8, <1>9

LEMMA InsertFacts ==
    ASSUME TypeInv, NEW s \in Slot, Insert(s)
    PROVE  LET h == handler[s] IN
           /\ result' \in [Batch -> Verdicts]
           /\ h.pc = "insert" /\ h.verdicts \in Verdicts
           /\ AlertsLeft(s, h.verdicts)
           /\ \/ h.verdicts = <<>> /\ UNCHANGED result
              \/ /\ h.verdicts # <<>>
                 /\ \E b \in Batch \ Rows :
                      /\ Rows' = Rows \cup {b} /\ result'[b] = h.verdicts
                      /\ \A c \in Rows : result'[c] = result[c]
<1>1. handler[s].verdicts \in Verdicts /\ handler[s].pc = "insert" /\ AlertsLeft(s, handler[s].verdicts)
  BY HandlerFacts DEF Handler, Insert
<1>2. CASE handler[s].verdicts = <<>>
  BY <1>1, <1>2 DEF Insert, TypeInv, ComplianceTypeOK
<1>3. CASE handler[s].verdicts # <<>>
  <2> DEFINE b == CHOOSE c \in Batch \ Rows : TRUE
  <2>1. b \in Batch \ Rows
    BY DEF Insert, Rows
  <2>2. result' = [result EXCEPT ![b] = handler[s].verdicts]
    BY <1>3 DEF Insert
  <2> HIDE DEF b
  <2>3. result \in [Batch -> Verdicts]
    BY DEF TypeInv, ComplianceTypeOK
  <2>4. /\ result' \in [Batch -> Verdicts] /\ result'[b] = handler[s].verdicts
        /\ \A c \in Batch : c # b => result'[c] = result[c]
    BY <1>1, <2>1, <2>2, <2>3
  <2>5. Rows' = Rows \cup {b}
    <3>1. Batch' = Batch
      BY DEF Batch
    <3> QED  BY <1>3, <2>1, <2>4, <3>1 DEF Rows, NoRows
  <2>6. \A c \in Rows : result'[c] = result[c]
    BY <2>1, <2>4 DEF Rows
  <2> QED  BY <1>1, <1>3, <2>1, <2>4, <2>5, <2>6
<1> QED  BY <1>2, <1>3

LEMMA AlertFacts ==
    ASSUME TypeInv, NEW s \in Slot, NEW p \in Policy, Alert(s, p)
    PROVE  LET h == handler[s]
               left == Restrict(h.verdicts, DOMAIN h.verdicts \ {p})
           IN
           /\ h.pc = "alerts" /\ p \in DOMAIN h.verdicts
           /\ left \in Verdicts /\ DOMAIN left = DOMAIN h.verdicts \ {p}
           /\ \A q \in DOMAIN left : left[q] = h.verdicts[q]
           /\ AlertsLeft(s, left)
           /\ alert' \subseteq Policy
           /\ \A q \in Policy : q # p => (q \in alert' <=> q \in alert)
           /\ p \in alert' <=> h.verdicts[p] = "NON_COMPLIANT"
<1> DEFINE h == handler[s]
           left == Restrict(h.verdicts, DOMAIN h.verdicts \ {p})
<1>1. h.verdicts \in Verdicts
  BY HandlerFacts DEF Handler
<1>2. left \in Verdicts /\ DOMAIN left = DOMAIN h.verdicts \ {p}
      /\ \A q \in DOMAIN left : left[q] = h.verdicts[q]
  BY <1>1, VerdictsPart, RestrictFacts
<1>3. /\ h.pc = "alerts" /\ p \in DOMAIN h.verdicts /\ AlertsLeft(s, left)
      /\ alert' = IF h.verdicts[p] = "NON_COMPLIANT" THEN alert \cup {p} ELSE alert \ {p}
  BY DEF Alert
<1>4. alert \subseteq Policy
  BY DEF TypeInv, ComplianceTypeOK
<1> HIDE DEF left
<1>5. /\ alert' \subseteq Policy
      /\ \A q \in Policy : q # p => (q \in alert' <=> q \in alert)
      /\ p \in alert' <=> h.verdicts[p] = "NON_COMPLIANT"
  BY <1>3, <1>4
<1> QED  BY <1>2, <1>3, <1>5 DEF left

-----------------------------------------------------------------------------
\* The reads of an evaluation, and its end before it is done.
Looks(s) ==
    \/ ReadDevice(s) \/ ReadGroups(s) \/ ReadAssignments(s) \/ ReadInventory(s) \/ ReadStale(s)
    \/ EvaluationFails(s)

LEMMA LooksFacts ==
    ASSUME ComplianceAssumption, TypeInv, NEW s \in Slot, Looks(s)
    PROVE  /\ \E r : /\ Reads(s, r) /\ r.pc # "insert"
                     /\ r.pc = "delete" => r.stale = Rows
           /\ settled' \in BOOLEAN /\ changes' \in 0 .. MaxChanges
           /\ UNCHANGED <<inputVars, actual, facts, outputVars>>
<1>1. settled' \in BOOLEAN /\ changes' \in 0 .. MaxChanges
  <2>1. CASE UNCHANGED <<settled, changes>>
    BY <2>1 DEF TypeInv, ComplianceTypeOK
  <2>2. CASE settled' = FALSE /\ changes < MaxChanges /\ changes' = changes + 1
    <3>1. changes' \in 0 .. MaxChanges
      BY <2>2 DEF TypeInv, ComplianceTypeOK, ComplianceAssumption
    <3> QED  BY <2>2, <3>1
  <2> QED
    BY <2>1, <2>2 DEF Looks, ReadDevice, ReadGroups, ReadAssignments, ReadInventory, ReadStale, EvaluationFails
<1>2. UNCHANGED <<inputVars, actual, facts, outputVars>>
  BY DEF Looks, ReadDevice, ReadGroups, ReadAssignments, ReadInventory, ReadStale, EvaluationFails
<1>3. \E r : Reads(s, r) /\ r.pc # "insert" /\ (r.pc = "delete" => r.stale = Rows)
  <2>1. CASE ReadDevice(s)
    BY <2>1, ReadDeviceFacts
  <2>2. CASE ReadGroups(s)
    BY <2>2, ReadGroupsFacts
  <2>3. CASE ReadAssignments(s)
    BY <2>3, ReadAssignmentsFacts
  <2>4. CASE ReadInventory(s)
    BY <2>4, ReadInventoryFacts
  <2>5. CASE ReadStale(s)
    BY <2>5, ReadStaleFacts
  <2>6. CASE EvaluationFails(s)
    <3>1. Reads(s, Quiet)
      BY <2>6, QuietFacts DEF EvaluationFails, Reads
    <3> QED  BY <3>1, QuietFacts
  <2> QED  BY <2>1, <2>2, <2>3, <2>4, <2>5, <2>6 DEF Looks
<1> QED  BY <1>1, <1>2, <1>3

LEMMA LooksType ==
    ASSUME ComplianceAssumption, TypeInv, NEW s \in Slot, Looks(s)
    PROVE  TypeInv'
<1> PICK r : Reads(s, r)
  BY LooksFacts
<1> QED  BY LooksFacts, ReadsType

LEMMA StoreType ==
    ASSUME ComplianceAssumption, TypeInv, NEW s \in Slot, Store(s)
    PROVE  TypeInv'
<1> PICK r : /\ Advance(s, r) /\ r \in Handler /\ ReportOK(r) /\ r.stale = handler[s].stale
  BY StoreFacts
<1>1. /\ facts' \in [Attr -> Known] /\ \A a \in Attr : facts'[a] \in Value(a) \cup {Unknown}
      /\ settled' \in BOOLEAN /\ UNCHANGED <<inputVars, actual, result, alert, changes>>
  BY StoreFacts DEF outputVars
<1>2. InputsOK' /\ Rows' = Rows
  BY <1>1, SameInputs, SameRows DEF TypeInv, ComplianceTypeOK
<1>3. /\ handler' \in [Slot -> Handler] /\ handler'[s] = r
      /\ \A t \in Slot : t # s => handler'[t] = handler[t]
  BY Moves
<1>4. \A t \in Slot : handler'[t].stale \subseteq Rows' /\ ReportOK(handler'[t])
  BY <1>2, <1>3, HandlerFacts
<1> QED  BY <1>1, <1>2, <1>3, <1>4, TypeFrame DEF TypeInv, ComplianceTypeOK

LEMMA DeleteType ==
    ASSUME ComplianceAssumption, TypeInv, NEW s \in Slot, DeleteStale(s)
    PROVE  TypeInv'
<1>1. UNCHANGED <<inputVars, actual, facts, alert, settled, changes>>
  BY DEF DeleteStale
<1>2. InputsOK'
  BY <1>1, SameInputs DEF TypeInv, ComplianceTypeOK
<1>3. \A t \in Slot : handler'[t].stale \subseteq Rows' /\ ReportOK(handler'[t])
  <2>1. \A t \in Slot : handler'[t].report = handler[t].report
    BY DeleteFacts
  <2>2. \A t \in Slot : ReportOK(handler'[t])
    BY <2>1, HandlerFacts DEF ReportOK
  <2>3. handler'[s].stale = {} /\ Rows' = Rows \ handler[s].stale
    BY DeleteFacts
  <2>4. \A t \in Slot : t # s => handler'[t].stale = handler[t].stale \ handler[s].stale
    BY DeleteFacts
  <2> QED  BY <2>2, <2>3, <2>4, HandlerFacts
<1>4. result' \in [Batch -> Verdicts] /\ handler' \in [Slot -> Handler]
  BY DeleteFacts
<1> QED  BY <1>1, <1>2, <1>3, <1>4, TypeFrame DEF TypeInv, ComplianceTypeOK

\* A request that goes on with its alerts, or ends, keeps to its rows.
LEMMA AlertsLeftType ==
    ASSUME TypeInv, NEW s \in Slot, NEW verdicts \in Verdicts, AlertsLeft(s, verdicts), Rows \subseteq Rows'
    PROVE  /\ handler' \in [Slot -> Handler] /\ settled' \in BOOLEAN
           /\ \A t \in Slot : handler'[t].stale \subseteq Rows' /\ ReportOK(handler'[t])
           /\ \A t \in Slot : t # s => handler'[t] = handler[t]
           /\ handler'[s].pc \in {"quiet", "alerts"}
<1>1. PICK r \in Handler : /\ Advance(s, r) /\ ReportOK(r) /\ r.stale \subseteq Rows
                           /\ r.pc \in {"quiet", "alerts"} /\ settled' \in BOOLEAN
  <2>1. handler[s].alone \in BOOLEAN /\ settled \in BOOLEAN
    BY HandlerFacts DEF Handler, TypeInv, ComplianceTypeOK
  <2> QED  BY <2>1, AlertsLeftFacts, QuietFacts, HandlerFacts
<1>2. /\ handler' \in [Slot -> Handler] /\ handler'[s] = r
      /\ \A t \in Slot : t # s => handler'[t] = handler[t]
  BY <1>1, Moves
<1> QED  BY <1>1, <1>2, HandlerFacts

LEMMA InsertType ==
    ASSUME ComplianceAssumption, TypeInv, NEW s \in Slot, Insert(s)
    PROVE  TypeInv'
<1>1. UNCHANGED <<inputVars, actual, facts, alert, changes>>
  BY DEF Insert
<1>2. InputsOK'
  BY <1>1, SameInputs DEF TypeInv, ComplianceTypeOK
<1>3. Rows \subseteq Rows' /\ result' \in [Batch -> Verdicts]
  BY InsertFacts, SameRows
<1>4. handler[s].verdicts \in Verdicts /\ AlertsLeft(s, handler[s].verdicts)
  BY InsertFacts
<1>5. /\ handler' \in [Slot -> Handler] /\ settled' \in BOOLEAN
      /\ \A t \in Slot : handler'[t].stale \subseteq Rows' /\ ReportOK(handler'[t])
  BY <1>3, <1>4, AlertsLeftType
<1> QED  BY <1>1, <1>2, <1>3, <1>5, TypeFrame DEF TypeInv, ComplianceTypeOK

LEMMA AlertType ==
    ASSUME ComplianceAssumption, TypeInv, NEW s \in Slot, NEW p \in Policy, Alert(s, p)
    PROVE  TypeInv'
<1>1. UNCHANGED <<inputVars, actual, facts, result, changes>>
  BY DEF Alert
<1>2. alert' \subseteq Policy
  BY AlertFacts
<1>3. InputsOK' /\ Rows' = Rows
  BY <1>1, <1>2, SameInputs, SameRows
<1>4. \E left \in Verdicts : AlertsLeft(s, left)
  <2> DEFINE left == Restrict(handler[s].verdicts, DOMAIN handler[s].verdicts \ {p})
  <2>1. left \in Verdicts /\ AlertsLeft(s, left)
    BY AlertFacts
  <2> QED  BY <2>1
<1>5. /\ handler' \in [Slot -> Handler] /\ settled' \in BOOLEAN
      /\ \A t \in Slot : handler'[t].stale \subseteq Rows' /\ ReportOK(handler'[t])
  BY <1>3, <1>4, AlertsLeftType
<1> QED  BY <1>1, <1>3, <1>5, TypeFrame DEF TypeInv, ComplianceTypeOK

LEMMA BeginsType ==
    ASSUME ComplianceAssumption, TypeInv, NEW s \in Slot,
           (\E attrs \in (SUBSET Attr) \ {{}} : Heartbeat(s, attrs)) \/ Evaluate(s)
    PROVE  TypeInv'
<1>1. ASSUME NEW attrs \in (SUBSET Attr) \ {{}}, Heartbeat(s, attrs)
      PROVE  TypeInv'
  BY <1>1, HeartbeatRecord, BeginType DEF Heartbeat
<1>2. CASE Evaluate(s)
  <2>1. /\ DeviceRead(Quiet) \in Handler /\ DeviceRead(Quiet).stale = {}
        /\ DeviceRead(Quiet).report = Quiet.report
    BY QuietFacts, DeviceReadFacts
  <2>2. ReportOK(DeviceRead(Quiet))
    BY <2>1, QuietFacts DEF ReportOK
  <2> QED  BY <1>2, <2>1, <2>2, BeginType DEF Evaluate
<1> QED  BY <1>1, <1>2

LEMMA TypeStep ==
    ASSUME ComplianceAssumption, TypeInv, [Next]_complianceVars
    PROVE  TypeInv'
<1>1. ASSUME NEW s \in Slot, (\E attrs \in (SUBSET Attr) \ {{}} : Heartbeat(s, attrs)) \/ Evaluate(s)
      PROVE  TypeInv'
  BY <1>1, BeginsType
<1>2. ASSUME NEW s \in Slot, EvaluationStep(s) \/ EvaluationFails(s)
      PROVE  TypeInv'
  BY <1>2, StoreType, LooksType, DeleteType, InsertType, AlertType DEF EvaluationStep, Looks
<1>3. ASSUME NEW a \in Attr, NEW v \in Value(a), DeviceChanges(a, v)
      PROVE  TypeInv'
  BY <1>3, DeviceChangesType
<1>4. CASE Administered
  BY <1>4, AdministeredType
<1>5. CASE UNCHANGED complianceVars
  BY <1>5 DEF complianceVars, inputVars, outputVars, TypeInv, ComplianceTypeOK, ReportOK, Rows, Present, Batch
<1> QED  BY <1>1, <1>2, <1>3, <1>4, <1>5 DEF Next, Administered, PolicyWrite

\* The tables of compliance stay well formed, and evaluations remember rows there
\* are, however many overlap, change and fail.
THEOREM ComplianceTypeCorrect ==
    ASSUME ComplianceAssumption
    PROVE  Spec => []ComplianceTypeOK
<1>1. ComplianceInit => TypeInv
  BY TypeInit
<1>2. TypeInv /\ [Next]_complianceVars => TypeInv'
  BY TypeStep
<1>3. TypeInv => ComplianceTypeOK
  BY DEF TypeInv
<1> QED  BY <1>1, <1>2, <1>3, PTL DEF Spec
-----------------------------------------------------------------------------
(* Every batch has an evaluation of its own *)

\* No row appears, and those that are left have evaluations that may keep them.
LEMMA OwnersKept ==
    ASSUME NEW f \in [Rows -> Slot], Owner(f), Rows' \subseteq Rows,
           \A t \in Slot, b \in Rows' :
              f[b] = t => /\ handler'[t].pc # "insert"
                          /\ handler'[t].pc = "delete" => b \in handler'[t].stale
    PROVE  OwnersInv'
<1> DEFINE g == [b \in Rows' |-> f[b]]
<1>1. g \in [Rows' -> Slot]
  OBVIOUS
<1>2. /\ \A b, c \in Rows' : g[b] = g[c] => b = c
      /\ \A t \in Slot, b \in Rows' :
           g[b] = t => /\ handler'[t].pc # "insert"
                       /\ handler'[t].pc = "delete" => b \in handler'[t].stale
  BY DEF Owner
<1> QED  BY <1>1, <1>2 DEF OwnersInv, Owner

\* Where requests are, and what they will delete, stays the same.
LEMMA OwnersSame ==
    ASSUME OwnersInv, UNCHANGED result,
           \A t \in Slot : /\ handler'[t].pc = handler[t].pc
                           /\ handler'[t].stale = handler[t].stale
    PROVE  OwnersInv'
<1> PICK f \in [Rows -> Slot] : Owner(f)
  BY DEF OwnersInv
<1> QED  BY SameRows, OwnersKept DEF Owner

\* A request moves on without writing rows.
LEMMA OwnersMoved ==
    ASSUME TypeInv, OwnersInv, NEW s \in Slot, NEW r \in Handler, Advance(s, r), UNCHANGED result,
           r.pc # "insert", r.pc = "delete" => r.stale = Rows
    PROVE  OwnersInv'
<1> PICK f \in [Rows -> Slot] : Owner(f)
  BY DEF OwnersInv
<1>1. handler'[s] = r /\ \A t \in Slot : t # s => handler'[t] = handler[t]
  BY Moves
<1> QED  BY <1>1, SameRows, OwnersKept DEF Owner

LEMMA OwnersBegin ==
    ASSUME TypeInv, OwnersInv, NEW s \in Slot, NEW request \in Handler, Begin(s, request),
           UNCHANGED result, request.pc \in {"store", "groups"}
    PROVE  OwnersInv'
<1> PICK f \in [Rows -> Slot] : Owner(f)
  BY DEF OwnersInv
<1>1. /\ handler'[s].pc = request.pc
      /\ \A t \in Slot : t # s => handler'[t].pc = handler[t].pc /\ handler'[t].stale = handler[t].stale
  BY BeginFacts
<1> QED  BY <1>1, SameRows, OwnersKept DEF Owner

LEMMA OwnersDelete ==
    ASSUME TypeInv, OwnersInv, NEW s \in Slot, DeleteStale(s)
    PROVE  OwnersInv'
<1> PICK f \in [Rows -> Slot] : Owner(f)
  BY DEF OwnersInv
<1>1. Rows' = Rows \ handler[s].stale /\ handler[s].pc = "delete"
  BY DeleteFacts DEF DeleteStale
<1>2. \A t \in Slot : t # s => /\ handler'[t].pc = handler[t].pc
                               /\ handler'[t].stale = handler[t].stale \ handler[s].stale
  BY DeleteFacts
<1>3. \A b \in Rows' : f[b] # s
  BY <1>1 DEF Owner
<1> QED  BY <1>1, <1>2, <1>3, OwnersKept DEF Owner

\* The row that is inserted belongs to the evaluation that inserts it.
LEMMA OwnersInsert ==
    ASSUME TypeInv, OwnersInv, NEW s \in Slot, Insert(s)
    PROVE  OwnersInv'
<1> PICK f \in [Rows -> Slot] : Owner(f)
  BY DEF OwnersInv
<1>0. Rows \subseteq Rows'
  BY InsertFacts, SameRows
<1>1. /\ handler'[s].pc \in {"quiet", "alerts"}
      /\ \A t \in Slot : t # s => handler'[t] = handler[t]
  BY <1>0, InsertFacts, AlertsLeftType
<1>2. \A b \in Rows : f[b] # s
  BY InsertFacts DEF Owner
<1>3. CASE UNCHANGED result
  BY <1>1, <1>3, SameRows, OwnersKept DEF Owner
<1>4. ASSUME NEW b \in Batch \ Rows, Rows' = Rows \cup {b}
      PROVE  OwnersInv'
  <2> DEFINE g == [c \in Rows' |-> IF c = b THEN s ELSE f[c]]
  <2>1. g \in [Rows' -> Slot]
    BY <1>4
  <2>2. \A c, d \in Rows' : g[c] = g[d] => c = d
    BY <1>2, <1>4 DEF Owner
  <2>3. \A t \in Slot, c \in Rows' :
           g[c] = t => /\ handler'[t].pc # "insert"
                       /\ handler'[t].pc = "delete" => c \in handler'[t].stale
    BY <1>1, <1>4 DEF Owner
  <2> QED  BY <2>1, <2>2, <2>3 DEF OwnersInv, Owner
<1> QED  BY <1>3, <1>4, InsertFacts

LEMMA OwnersStep ==
    ASSUME ComplianceAssumption, TypeInv, OwnersInv, [Next]_complianceVars
    PROVE  OwnersInv'
<1>1. ASSUME NEW s \in Slot, NEW attrs \in SUBSET Attr, Heartbeat(s, attrs)
      PROVE  OwnersInv'
  BY <1>1, HeartbeatRecord, OwnersBegin DEF Heartbeat, outputVars
<1>2. ASSUME NEW s \in Slot, Evaluate(s)
      PROVE  OwnersInv'
  <2>1. DeviceRead(Quiet) \in Handler /\ DeviceRead(Quiet).pc = "groups"
    BY QuietFacts, DeviceReadFacts
  <2> QED  BY <1>2, <2>1, OwnersBegin DEF Evaluate, outputVars
<1>3. ASSUME NEW s \in Slot, Store(s)
      PROVE  OwnersInv'
  <2>1. UNCHANGED result /\ \E r \in Handler : Advance(s, r) /\ r.pc \in {"device", "store"}
    BY <1>3, StoreFacts DEF outputVars
  <2> QED  BY <2>1, OwnersMoved
<1>4. ASSUME NEW s \in Slot, Looks(s)
      PROVE  OwnersInv'
  <2>1. UNCHANGED result
        /\ \E r \in Handler : Advance(s, r) /\ r.pc # "insert" /\ (r.pc = "delete" => r.stale = Rows)
    BY <1>4, LooksFacts DEF outputVars, Reads
  <2> QED  BY <2>1, OwnersMoved
<1>5. ASSUME NEW s \in Slot, NEW p \in Policy, Alert(s, p)
      PROVE  OwnersInv'
  <2> DEFINE left == Restrict(handler[s].verdicts, DOMAIN handler[s].verdicts \ {p})
  <2>1. left \in Verdicts /\ AlertsLeft(s, left) /\ UNCHANGED result
    BY <1>5, AlertFacts DEF Alert
  <2>2. /\ handler'[s].pc \in {"quiet", "alerts"}
        /\ \A t \in Slot : t # s => handler'[t] = handler[t]
    BY <2>1, SameRows, AlertsLeftType
  <2> PICK f \in [Rows -> Slot] : Owner(f)
    BY DEF OwnersInv
  <2> QED  BY <2>1, <2>2, SameRows, OwnersKept DEF Owner
<1>6. CASE Administered
  BY <1>6, AdministeredInputs, ChangedFacts, OwnersSame
<1>7. CASE UNCHANGED <<handler, result>>
  BY <1>7, OwnersSame
<1> QED
  <2>1. ASSUME NEW s \in Slot, EvaluationStep(s) \/ EvaluationFails(s)
        PROVE  OwnersInv'
    BY <2>1, <1>3, <1>4, <1>5, OwnersDelete, OwnersInsert DEF EvaluationStep, Looks
  <2>2. ASSUME NEW a \in Attr, NEW v \in Value(a), DeviceChanges(a, v)
        PROVE  OwnersInv'
    BY <2>2, <1>7 DEF DeviceChanges, outputVars
  <2>3. CASE UNCHANGED complianceVars
    BY <2>3, <1>7 DEF complianceVars, outputVars
  <2> QED  BY <1>1, <1>2, <1>6, <2>1, <2>2, <2>3 DEF Next, Administered, PolicyWrite

\* A device has at most one batch of results for every evaluation in flight, however
\* many have failed between their deletion and their insertion.
THEOREM ResultsBounded ==
    ASSUME ComplianceAssumption
    PROVE  Spec => []RowsBounded
<1>1. ComplianceInit => TypeInv /\ OwnersInv
  <2> SUFFICES ASSUME ComplianceInit  PROVE OwnersInv
    BY TypeInit
  <2>1. Rows = {}
    BY DEF ComplianceInit, Rows
  <2>2. [b \in Rows |-> CHOOSE s \in Slot : TRUE] \in [Rows -> Slot]
    BY <2>1
  <2> QED  BY <2>1, <2>2 DEF OwnersInv, Owner
<1>2. TypeInv /\ OwnersInv /\ [Next]_complianceVars => TypeInv' /\ OwnersInv'
  BY TypeStep, OwnersStep
<1>3. OwnersInv => RowsBounded
  <2> SUFFICES ASSUME OwnersInv  PROVE RowsBounded
    OBVIOUS
  <2> PICK f \in [Rows -> Slot] : Owner(f)
    BY DEF OwnersInv
  <2>1. IsFiniteSet(Slot) /\ IsFiniteSet(Rows)
    BY BatchFacts DEF ComplianceAssumption
  <2>2. \A b, c \in Rows : f[b] = f[c] => b = c
    BY DEF Owner
  <2>3. f \in Injection(Rows, Slot)
    BY <2>2 DEF Injection, IsInjective
  <2> QED  BY <2>1, <2>3, FS_Injection DEF RowsBounded
<1> QED  BY <1>1, <1>2, <1>3, PTL DEF Spec
-----------------------------------------------------------------------------
(* The verdict of an evaluation is the right one *)

LEMMA PartFacts ==
    ASSUME NEW v \in Seq(Nat), NEW i \in 1 .. 4
    PROVE  Part(v, i) \in Nat
  BY DEF Part

\* Some parts come first.
LEMMA FirstOfFour ==
    ASSUME NEW S \in SUBSET (1 .. 4), S # {}
    PROVE  Min(S) \in S /\ \A i \in S : Min(S) <= i
<1>1. \E m \in S : \A i \in S : m <= i
  <2>1. CASE 1 \in S
    BY <2>1
  <2>2. CASE 1 \notin S /\ 2 \in S
    BY <2>2
  <2>3. CASE 1 \notin S /\ 2 \notin S /\ 3 \in S
    BY <2>3
  <2>4. CASE 1 \notin S /\ 2 \notin S /\ 3 \notin S
    <3>1. \A i \in S : i = 4
      BY <2>4
    <3>2. 4 \in S
      BY <3>1
    <3> QED  BY <3>1, <3>2
  <2> QED  BY <2>1, <2>2, <2>3, <2>4
<1> QED  BY <1>1 DEF Min

\* versionAtLeast is the lexicographic order.
LEMMA VersionOrder ==
    ASSUME NEW v \in Seq(Nat), NEW w \in Seq(Nat)
    PROVE  VersionAtLeast(v, w) <=> ~Lower(v, w)
<1> DEFINE differ == {i \in 1 .. 4 : Part(v, i) # Part(w, i)}
           m == Min(differ)
<1>0. \A i \in 1 .. 4 : Part(v, i) \in Nat /\ Part(w, i) \in Nat
  BY PartFacts
<1>1. VersionAtLeast(v, w) <=> differ = {} \/ Part(v, m) > Part(w, m)
  BY DEF VersionAtLeast
<1>2. CASE differ = {}
  <2>1. \A i \in 1 .. 4 : Part(v, i) = Part(w, i)
    BY <1>2
  <2>2. ~Lower(v, w)
    BY <1>0, <2>1 DEF Lower
  <2> QED  BY <1>1, <1>2, <2>2
<1>3. CASE differ # {}
  <2>1. m \in differ /\ \A i \in differ : m <= i
    BY <1>3, FirstOfFour
  <2>2. m \in 1 .. 4 /\ Part(v, m) # Part(w, m)
        /\ \A j \in 1 .. m - 1 : Part(v, j) = Part(w, j)
    <3>1. m \in 1 .. 4 /\ Part(v, m) # Part(w, m)
      BY <2>1
    <3>2. \A j \in 1 .. m - 1 : j \in 1 .. 4 /\ j \notin differ
      BY <2>1, <3>1
    <3> QED  BY <3>1, <3>2
  <2> HIDE DEF m
  <2>3. Lower(v, w) <=> Part(v, m) < Part(w, m)
    <3>1. ASSUME Part(v, m) < Part(w, m)  PROVE Lower(v, w)
      BY <2>2, <3>1 DEF Lower
    <3>2. ASSUME NEW i \in 1 .. 4, Part(v, i) < Part(w, i), \A j \in 1 .. i - 1 : Part(v, j) = Part(w, j)
          PROVE  Part(v, m) < Part(w, m)
      <4>1. i \in differ
        BY <1>0, <3>2
      <4>2. m <= i
        BY <2>1, <4>1
      <4>3. ~(m < i)
        <5>1. m < i => m \in 1 .. i - 1
          BY <2>2
        <5> QED  BY <2>2, <3>2, <5>1
      <4>4. m = i
        BY <2>2, <4>2, <4>3
      <4> QED  BY <3>2, <4>4
    <3> QED  BY <3>1, <3>2 DEF Lower
  <2>4. Part(v, m) \in Nat /\ Part(w, m) \in Nat
    BY <1>0, <2>2
  <2> QED  BY <1>1, <1>3, <2>2, <2>3, <2>4
<1> QED  BY <1>2, <1>3

\* A requirement is violated by what evaluatePolicy holds against it.
LEMMA ViolationFacts ==
    ASSUME ComplianceAssumption, TypeInv, NEW form \in StoredForm, NEW a \in form.needs,
           form.type # "CONFIGURATION"
    PROVE  Violates(form, a, facts[a]) <=> a \in About(form) /\ Short(form, a, facts[a])
<1>1. /\ form.type \in {"SECURITY", "COMPLIANCE"} /\ a \in Attr
      /\ "os" \in form.needs => form.minOs \in Seq(Nat)
  BY StoredFacts
<1>2. a \in {"firewall", "antivirus", "agent", "disk", "os", "patch"}
  BY <1>1 DEF ComplianceAssumption
<1>3. facts[a] \in Value(a) \cup {Unknown} /\ Good \notin {Bad, Unknown} /\ Version \subseteq Seq(Nat)
  BY <1>1 DEF TypeInv, ComplianceTypeOK, ComplianceAssumption
<1>4. CASE a = "os"
  <2>1. facts[a] # Unknown => (VersionAtLeast(facts[a], form.minOs) <=> ~Lower(facts[a], form.minOs))
    BY <1>1, <1>3, <1>4, VersionOrder DEF Value
  <2> QED  BY <1>1, <1>4, <2>1 DEF Violates, About, Short
<1>5. CASE a # "os"
  <2>1. facts[a] \in {Good, Bad, Unknown}
    BY <1>3, <1>5 DEF Value
  <2>2. CASE a \in {"firewall", "antivirus"}
    BY <1>1, <1>3, <2>1, <2>2 DEF Violates, About, Short
  <2>3. CASE a \in {"disk", "patch"}
    BY <1>1, <1>3, <2>1, <2>3 DEF Violates, About, Short
  <2>4. CASE a = "agent"
    BY <1>1, <1>3, <2>1, <2>4 DEF Violates, About, Short
  <2> QED  BY <1>2, <1>5, <2>2, <2>3, <2>4
<1> QED  BY <1>4, <1>5

\* The policies that are judged are those in force that are no configuration.
LEMMA SubjectFacts ==
    ASSUME ComplianceAssumption, TypeInv
    PROVE  /\ {p \in InForce(member) : Judged(policy[p].form)} = Subject
           /\ \A p \in Subject : policy[p].form \in StoredForm /\ policy[p].form.type # "CONFIGURATION"
           /\ Subject \subseteq Policy
<1>1. \A p \in InForce(member) : policy[p].form \in StoredForm
  BY InForceFacts
<1>2. \A p \in InForce(member) : policy[p].form.type \in {"SECURITY", "COMPLIANCE", "CONFIGURATION"}
  BY <1>1, StoredFacts
<1>3. InForce(member) \subseteq Policy
  BY DEF InForce
<1> QED  BY <1>1, <1>2, <1>3 DEF Subject, Judged

LEMMA VerdictFacts ==
    ASSUME ComplianceAssumption, TypeInv, NEW p \in Subject,
           NEW known, \A a \in Attr : known[a] = facts[a]
    PROVE  Evaluated(policy[p].form, known) = Verdict(p)
<1> DEFINE form == policy[p].form
<1>1. form \in StoredForm /\ form.type # "CONFIGURATION" /\ form.needs \subseteq Attr
  BY SubjectFacts, StoredFacts
<1>2. (\E a \in form.needs : Violates(form, a, known[a]))
      <=> \E a \in form.needs \cap About(form) : Short(form, a, facts[a])
  <2>1. \A a \in form.needs : known[a] = facts[a]
    BY <1>1
  <2>2. \A a \in form.needs : Violates(form, a, facts[a]) <=> a \in About(form) /\ Short(form, a, facts[a])
    BY <1>1, ViolationFacts
  <2> HIDE DEF form
  <2> QED  BY <2>1, <2>2
<1>3. p \in Broken(facts) <=> \E a \in form.needs \cap About(form) : Short(form, a, facts[a])
  BY DEF Broken
<1> QED  BY <1>2, <1>3 DEF Evaluated, Verdict

LEMMA RightFacts ==
    /\ DOMAIN Right = Subject /\ \A p \in Subject : Right[p] = Verdict(p)
    /\ Broken(facts) \subseteq Subject
  BY DEF Right, Verdict, Broken
-----------------------------------------------------------------------------
(* An evaluation that runs alone *)

\* What is in force, and violated, depends on these.
LEMMA SameVerdicts ==
    ASSUME UNCHANGED <<inputVars, facts>>
    PROVE  /\ Subject' = Subject /\ Broken(facts)' = Broken(facts) /\ Right' = Right
           /\ \A p : Verdict(p)' = Verdict(p)
  BY DEF inputVars, Subject, InForce, Broken, Right, Verdict

\* An evaluation that does not move stays where it is.
LEMMA SameStage ==
    ASSUME UNCHANGED <<inputVars, facts, outputVars>>
    PROVE  /\ \A h : Stage(h) => Stage(h)'
           /\ OneBatch' <=> OneBatch
<1>1. /\ Subject' = Subject /\ Broken(facts)' = Broken(facts) /\ Right' = Right
      /\ \A p : Verdict(p)' = Verdict(p)
  BY SameVerdicts
<1>2. Rows' = Rows /\ UNCHANGED <<policy, member, facts, result, alert>>
  BY SameRows DEF inputVars, outputVars
<1>3. OneBatch' <=> OneBatch
  BY <1>1, <1>2 DEF OneBatch
<1> QED  BY <1>1, <1>2, <1>3 DEF Stage

\* A request that is under way is the only one that may be alone.
LEMMA OthersNotAlone ==
    ASSUME SettleInv, NEW s \in Slot, handler[s] # Quiet, NEW u \in Slot, u # s
    PROVE  ~handler[u].alone
  BY DEF SettleInv, AloneOK

\* One request moves on.
LEMMA SettleMoved ==
    ASSUME TypeInv, SettleInv, NEW s \in Slot, handler[s] # Quiet,
           NEW r \in Handler, Advance(s, r),
           r.alone => handler[s].alone,
           r.alone => Stage(r)',
           r = Quiet => EvaluationSettles'
    PROVE  SettleInv'
<1>1. handler'[s] = r /\ \A t \in Slot : t # s => handler'[t] = handler[t]
  BY Moves
<1>2. ASSUME NEW u \in Slot
      PROVE  AloneOK(u)'
  <2>1. CASE u = s
    BY <1>1, <2>1 DEF AloneOK, SettleInv
  <2>2. CASE u # s
    BY <1>1, <2>2, OthersNotAlone DEF AloneOK
  <2> QED  BY <2>1, <2>2
<1>3. EvaluationSettles'
  <2>1. CASE r # Quiet
    <3>1. s \in Busy'
      BY <1>1, <2>1 DEF Busy, Quiet
    <3> QED  BY <3>1 DEF EvaluationSettles
  <2> QED  BY <2>1
<1> QED  BY <1>2, <1>3 DEF SettleInv

\* Requests that are not under way stay so.
LEMMA QuietStays ==
    /\ [Quiet EXCEPT !.alone = FALSE] = Quiet
    /\ \A S : [Quiet EXCEPT !.stale = {} \ S] = Quiet
<1> PICK h \in Handler : h = Quiet
  BY QuietFacts
<1>1. [h EXCEPT !.alone = FALSE] = h
  BY DEF Handler, Quiet
<1>2. ASSUME NEW S  PROVE [h EXCEPT !.stale = {} \ S] = h
  <2>1. h.stale = {} \ S
    BY QuietFacts
  <2> QED  BY <2>1 DEF Handler
<1> QED  BY <1>1, <1>2

\* A request begins: it is alone when no other is under way.
LEMMA SettleBegin ==
    ASSUME TypeInv, SettleInv, NEW s \in Slot, NEW request \in Handler, Begin(s, request),
           UNCHANGED <<inputVars, facts, outputVars>>,
           \/ request.pc = "store"
           \/ request.pc = "groups" /\ \A a \in Attr \ Inventory : request.device[a] = facts[a]
    PROVE  SettleInv'
<1>1. /\ handler'[s].pc = request.pc /\ handler'[s].device = request.device
      /\ handler'[s].alone => Busy = {}
      /\ \A t \in Slot : t # s => ~handler'[t].alone /\ handler'[t] = [handler[t] EXCEPT !.alone = FALSE]
  BY BeginFacts
<1>2. Stage(handler[s])'
  <2>1. UNCHANGED facts
    OBVIOUS
  <2> QED  BY <1>1, <2>1 DEF Stage
<1>3. handler'[s].alone => \A t \in Slot \ {s} : handler'[t] = Quiet
  <2>1. [Quiet EXCEPT !.alone = FALSE] = Quiet
    BY QuietStays
  <2>2. Busy = {} => \A t \in Slot : handler[t] = Quiet
    BY DEF Busy
  <2> QED  BY <1>1, <2>1, <2>2
<1>4. \A u \in Slot : AloneOK(u)'
  <2>1. Quiet' = Quiet
    BY DEF Quiet
  <2>2. AloneOK(s)'
    BY <1>2, <1>3, <2>1 DEF AloneOK
  <2>3. \A u \in Slot : u # s => AloneOK(u)'
    BY <1>1 DEF AloneOK
  <2> QED  BY <2>2, <2>3
<1>5. s \in Busy'
  <2>1. handler'[s] # Quiet
    BY <1>1, QuietFacts
  <2> QED  BY <2>1 DEF Busy, Quiet
<1> QED  BY <1>4, <1>5 DEF SettleInv, EvaluationSettles

\* Nothing moves; only the device may change.
LEMMA SettleSame ==
    ASSUME SettleInv, UNCHANGED <<inputVars, facts, outputVars, handler, settled>>
    PROVE  SettleInv'
<1>1. \A h : Stage(h) => Stage(h)'
  BY SameStage
<1>2. Quiet' = Quiet /\ Busy' = Busy
  BY DEF Busy, Quiet
<1>3. \A u \in Slot : AloneOK(u)'
  BY <1>1, <1>2 DEF SettleInv, AloneOK
<1>4. OneBatch' <=> OneBatch
  BY SameStage
<1>5. Subject' = Subject /\ Broken(facts)' = Broken(facts)
  BY SameVerdicts
<1>6. EvaluationSettles <=> (settled /\ Busy = {} => OneBatch /\ alert \cap Subject = Broken(facts))
  BY DEF EvaluationSettles, OneBatch
<1>7. EvaluationSettles' <=> (settled' /\ Busy' = {} => OneBatch' /\ (alert \cap Subject = Broken(facts))')
  BY DEF EvaluationSettles, OneBatch
<1>8. UNCHANGED <<settled, alert>>
  BY DEF outputVars
<1> QED  BY <1>2, <1>3, <1>4, <1>5, <1>6, <1>7, <1>8 DEF SettleInv

\* Administrators leave no evaluation alone.
LEMMA SettleAdministered ==
    ASSUME ComplianceAssumption, TypeInv, SettleInv, Administered
    PROVE  SettleInv'
<1>1. settled' = FALSE /\ \A s \in Slot : ~handler'[s].alone
  BY AdministeredInputs, ChangedFacts
<1> QED  BY <1>1 DEF SettleInv, AloneOK, EvaluationSettles

LEMMA SettleStore ==
    ASSUME ComplianceAssumption, TypeInv, SettleInv, NEW s \in Slot, Store(s)
    PROVE  SettleInv'
<1> PICK r : /\ Advance(s, r) /\ r \in Handler /\ r.pc \in {"device", "store"}
             /\ r.alone = handler[s].alone
  BY StoreFacts
<1>1. Stage(r)' /\ r # Quiet
  BY QuietFacts DEF Stage
<1>2. handler[s] # Quiet
  BY QuietFacts DEF Store
<1> QED  BY <1>1, <1>2, SettleMoved

\* The reads take the evaluation from one stage to the next.
LEMMA SettleLooks ==
    ASSUME ComplianceAssumption, TypeInv, SettleInv, NEW s \in Slot, Looks(s)
    PROVE  SettleInv'
<1> DEFINE h == handler[s]
<1>1. h # Quiet /\ h \in Handler
  BY QuietFacts, HandlerFacts
     DEF Looks, ReadDevice, ReadGroups, ReadAssignments, ReadInventory, ReadStale, EvaluationFails
<1>2. h.alone => Stage(h)
  BY DEF SettleInv, AloneOK
<1>3. UNCHANGED <<inputVars, actual, facts, outputVars>>
  BY LooksFacts
<1>4. \A r : Stage(r) => Stage(r)'
  BY <1>3, SameStage
<1>5. ASSUME NEW r, Reads(s, r), r.pc # "quiet", r.alone = h.alone, h.alone => Stage(r)
      PROVE  SettleInv'
  <2>1. r \in Handler /\ Advance(s, r) /\ r # Quiet
    BY <1>5, QuietFacts DEF Reads
  <2> HIDE DEF h
  <2> QED  BY <1>1, <1>4, <1>5, <2>1, SettleMoved DEF h
<1>6. CASE ReadDevice(s)
  <2> PICK r : /\ Reads(s, r) /\ r.pc = "groups" /\ r.alone = h.alone
               /\ \A a \in Attr \ Inventory : r.device[a] = facts[a]
    BY <1>6, ReadDeviceFacts
  <2>1. Stage(r)
    BY DEF Stage
  <2> QED  BY <1>5, <2>1
<1>7. CASE ReadGroups(s)
  <2> PICK r : /\ Reads(s, r) /\ r.pc = "assignments" /\ r.alone = h.alone
               /\ r.device = h.device /\ r.groups = member
    BY <1>7, ReadGroupsFacts
  <2>1. h.alone => Stage(r)
    BY <1>2, <1>7 DEF Stage, ReadGroups
  <2> QED  BY <1>5, <2>1
<1>8. CASE ReadAssignments(s)
  <2> PICK r : /\ Reads(s, r) /\ r.pc = "inventory" /\ r.alone = h.alone
               /\ r.device = h.device
               /\ DOMAIN r.effective = {p \in InForce(h.groups) : Judged(policy[p].form)}
               /\ \A p \in DOMAIN r.effective : r.effective[p] = policy[p].form
    BY <1>8, ReadAssignmentsFacts
  <2>1. h.alone => DOMAIN r.effective = Subject
    BY <1>2, <1>8, SubjectFacts DEF Stage, ReadAssignments
  <2>2. h.alone => Stage(r)
    BY <1>2, <1>8, <2>1 DEF Stage, ReadAssignments
  <2> QED  BY <1>5, <2>2
<1>9. CASE ReadInventory(s)
  <2> DEFINE known == [a \in Attr |-> IF a \in Inventory THEN facts[a] ELSE h.device[a]]
  <2> PICK r : /\ Reads(s, r) /\ r.pc = "stale" /\ r.alone = h.alone
               /\ r.verdicts = [p \in DOMAIN h.effective |-> Evaluated(h.effective[p], known)]
    BY <1>9, ReadInventoryFacts
  <2>1. ASSUME h.alone  PROVE r.verdicts = Right
    <3>1. /\ \A a \in Attr \ Inventory : h.device[a] = facts[a]
          /\ DOMAIN h.effective = Subject
          /\ \A p \in Subject : h.effective[p] = policy[p].form
      BY <1>2, <1>9, <2>1 DEF Stage, ReadInventory
    <3>2. \A a \in Attr : known[a] = facts[a]
      BY <3>1
    <3> HIDE DEF known, h
    <3>3. \A p \in Subject : Evaluated(policy[p].form, known) = Verdict(p)
      BY <3>2, VerdictFacts
    <3>4. r.verdicts = [p \in Subject |-> Verdict(p)]
      BY <3>1, <3>3
    <3> QED  BY <3>4 DEF Right, Verdict
  <2>2. h.alone => Stage(r)
    BY <2>1 DEF Stage
  <2> QED  BY <1>5, <2>2
<1>10. CASE ReadStale(s)
  <2> PICK r : /\ Reads(s, r) /\ r.pc = "delete" /\ r.alone = h.alone
               /\ r.verdicts = h.verdicts /\ r.stale = Rows
    BY <1>10, ReadStaleFacts
  <2>1. h.alone => Stage(r)
    BY <1>2, <1>10 DEF Stage, ReadStale
  <2> QED  BY <1>5, <2>1
<1>11. CASE EvaluationFails(s)
  <2>1. Advance(s, Quiet) /\ ~settled'
    BY <1>11 DEF EvaluationFails
  <2> PICK r : r = Quiet
    OBVIOUS
  <2>2. r \in Handler /\ ~r.alone /\ Advance(s, r) /\ EvaluationSettles'
    BY <2>1, QuietFacts DEF EvaluationSettles
  <2> QED  BY <1>1, <2>2, SettleMoved
<1> QED  BY <1>6, <1>7, <1>8, <1>9, <1>10, <1>11 DEF Looks

LEMMA SettleDelete ==
    ASSUME ComplianceAssumption, TypeInv, SettleInv, NEW s \in Slot, DeleteStale(s)
    PROVE  SettleInv'
<1> DEFINE h == handler[s]
<1>1. h # Quiet /\ h.pc = "delete"
  BY QuietFacts DEF DeleteStale
<1>2. h.alone => Stage(h) /\ \A t \in Slot \ {s} : handler[t] = Quiet
  BY DEF SettleInv, AloneOK
<1>3. /\ Rows' = Rows \ h.stale
      /\ handler'[s].pc = "insert" /\ handler'[s].verdicts = h.verdicts /\ handler'[s].alone = h.alone
      /\ \A t \in Slot : t # s => /\ handler'[t] = [handler[t] EXCEPT !.stale = handler[t].stale \ h.stale]
                                  /\ handler'[t].alone = handler[t].alone
  BY DeleteFacts
<1>4. UNCHANGED <<inputVars, facts>>
  BY DEF DeleteStale
<1>5. ASSUME h.alone  PROVE AloneOK(s)'
  <2>1. Right' = Right
    BY <1>4, SameVerdicts
  <2>2. h.verdicts = Right /\ h.stale = Rows
    BY <1>1, <1>2, <1>5 DEF Stage
  <2>3. Stage(handler[s])'
    BY <1>3, <2>1, <2>2 DEF Stage
  <2>4. \A S : [Quiet EXCEPT !.stale = {} \ S] = Quiet
    BY QuietStays
  <2>5. \A t \in Slot \ {s} : handler'[t] = Quiet
    BY <1>2, <1>3, <1>5, <2>4, QuietFacts
  <2>6. Quiet' = Quiet
    BY DEF Quiet
  <2> QED  BY <2>3, <2>5, <2>6 DEF AloneOK
<1>6. ~h.alone => AloneOK(s)'
  BY <1>3 DEF AloneOK
<1>7. \A u \in Slot : u # s => AloneOK(u)'
  BY <1>1, <1>3, OthersNotAlone DEF AloneOK
<1>8. EvaluationSettles'
  <2>1. handler'[s] # Quiet
    BY <1>3, QuietFacts
  <2>2. s \in Busy'
    BY <2>1 DEF Busy, Quiet
  <2> QED  BY <2>2 DEF EvaluationSettles
<1> QED  BY <1>5, <1>6, <1>7, <1>8 DEF SettleInv
\* A request that goes on with its alerts, or is done.
LEMMA SettleLeft ==
    ASSUME ComplianceAssumption, TypeInv, SettleInv, NEW s \in Slot, handler[s] # Quiet,
           NEW verdicts \in Verdicts, AlertsLeft(s, verdicts), UNCHANGED <<inputVars, facts>>,
           handler[s].alone =>
             /\ OneBatch'
             /\ DOMAIN verdicts \subseteq Subject
             /\ \A p \in DOMAIN verdicts : verdicts[p] = Verdict(p)
             /\ \A p \in Subject \ DOMAIN verdicts : p \in alert' <=> p \in Broken(facts)
    PROVE  SettleInv'
<1>1. /\ Subject' = Subject /\ Broken(facts)' = Broken(facts)
      /\ \A p : Verdict(p)' = Verdict(p)
  BY SameVerdicts
<1>2. CASE verdicts = <<>> /\ Advance(s, Quiet) /\ settled' = handler[s].alone
  <2>1. ASSUME handler[s].alone  PROVE OneBatch' /\ alert' \cap Subject = Broken(facts)
    <3>1. DOMAIN verdicts = {}
      BY <1>2
    <3>2. \A p \in Subject : p \in alert' <=> p \in Broken(facts)
      BY <2>1, <3>1
    <3> QED  BY <2>1, <3>2, RightFacts
  <2>2. EvaluationSettles'
    BY <1>1, <1>2, <2>1 DEF EvaluationSettles, OneBatch
  <2> PICK r : r = Quiet
    OBVIOUS
  <2>3. r \in Handler /\ ~r.alone /\ Advance(s, r)
    BY <1>2, QuietFacts
  <2> QED  BY <2>2, <2>3, SettleMoved
<1>3. ASSUME NEW r, Advance(s, r), r \in Handler, r.pc = "alerts", r.verdicts = verdicts,
             r.alone = handler[s].alone
      PROVE  SettleInv'
  <2>1. r.alone => Stage(r)'
    BY <1>1, <1>3 DEF Stage
  <2>2. r # Quiet
    BY <1>3, QuietFacts
  <2> QED  BY <1>3, <2>1, <2>2, SettleMoved
<1> QED  BY <1>2, <1>3, AlertsLeftFacts

LEMMA SettleInsert ==
    ASSUME ComplianceAssumption, TypeInv, SettleInv, NEW s \in Slot, Insert(s)
    PROVE  SettleInv'
<1> DEFINE h == handler[s]
<1>1. /\ h # Quiet /\ h.pc = "insert" /\ h.verdicts \in Verdicts /\ AlertsLeft(s, h.verdicts)
      /\ UNCHANGED <<inputVars, facts, alert>>
  BY QuietFacts, InsertFacts DEF Insert
<1>2. ASSUME h.alone
      PROVE  /\ OneBatch'
             /\ DOMAIN h.verdicts \subseteq Subject
             /\ \A p \in DOMAIN h.verdicts : h.verdicts[p] = Verdict(p)
             /\ \A p \in Subject \ DOMAIN h.verdicts : p \in alert' <=> p \in Broken(facts)
  <2>1. h.verdicts = Right /\ Rows = {}
    BY <1>1, <1>2 DEF SettleInv, AloneOK, Stage
  <2>2. Right' = Right
    BY <1>1, SameVerdicts
  <2>3. OneBatch'
    <3>1. CASE h.verdicts = <<>> /\ UNCHANGED result
      <4>1. Rows' = {}
        BY <2>1, <3>1, SameRows
      <4>2. {result'[b] : b \in Rows'} = {Right} \ {NoRows}
        BY <2>1, <3>1, <4>1 DEF NoRows
      <4> QED  BY <2>2, <4>1, <4>2, FS_EmptySet DEF OneBatch, NoRows
    <3>2. ASSUME h.verdicts # <<>>, NEW b \in Batch, Rows' = Rows \cup {b}, result'[b] = h.verdicts
          PROVE  OneBatch'
      <4>1. Rows' = {b}
        BY <2>1, <3>2
      <4>2. {result'[c] : c \in Rows'} = {Right} \ {NoRows}
        BY <2>1, <3>2, <4>1 DEF NoRows
      <4>3. Cardinality(Rows') <= 1
        <5>1. Cardinality({b}) = 1
          BY FS_Singleton
        <5> QED  BY <4>1, <5>1
      <4> QED  BY <2>2, <4>2, <4>3 DEF OneBatch, NoRows
    <3> QED  BY <3>1, <3>2, InsertFacts
  <2> QED  BY <2>1, <2>3, RightFacts
<1> QED  BY <1>1, <1>2, SettleLeft

LEMMA SettleAlert ==
    ASSUME ComplianceAssumption, TypeInv, SettleInv, NEW s \in Slot, NEW p \in Policy, Alert(s, p)
    PROVE  SettleInv'
<1> DEFINE h == handler[s]
           left == Restrict(h.verdicts, DOMAIN h.verdicts \ {p})
<1>1. /\ h # Quiet /\ h.pc = "alerts" /\ UNCHANGED <<inputVars, facts, result>>
      /\ p \in DOMAIN h.verdicts
      /\ left \in Verdicts /\ DOMAIN left = DOMAIN h.verdicts \ {p}
      /\ \A q \in DOMAIN left : left[q] = h.verdicts[q]
      /\ AlertsLeft(s, left)
      /\ \A q \in Policy : q # p => (q \in alert' <=> q \in alert)
      /\ p \in alert' <=> h.verdicts[p] = "NON_COMPLIANT"
  BY QuietFacts, AlertFacts DEF Alert
<1> HIDE DEF left
<1>2. ASSUME h.alone
      PROVE  /\ OneBatch'
             /\ DOMAIN left \subseteq Subject
             /\ \A q \in DOMAIN left : left[q] = Verdict(q)
             /\ \A q \in Subject \ DOMAIN left : q \in alert' <=> q \in Broken(facts)
  <2>1. /\ OneBatch
        /\ DOMAIN h.verdicts \subseteq Subject
        /\ \A q \in DOMAIN h.verdicts : h.verdicts[q] = Verdict(q)
        /\ \A q \in Subject \ DOMAIN h.verdicts : q \in alert <=> q \in Broken(facts)
    BY <1>1, <1>2 DEF SettleInv, AloneOK, Stage
  <2>2. OneBatch'
    <3>1. Right' = Right /\ Rows' = Rows
      BY <1>1, SameVerdicts, SameRows
    <3> QED  BY <1>1, <2>1, <3>1 DEF OneBatch, NoRows
  <2>3. DOMAIN left \subseteq Subject /\ \A q \in DOMAIN left : left[q] = Verdict(q)
    BY <1>1, <2>1
  <2>4. ASSUME NEW q \in Subject \ DOMAIN left
        PROVE  q \in alert' <=> q \in Broken(facts)
    <3>1. CASE q = p
      BY <1>1, <2>1, <3>1 DEF Verdict
    <3>2. CASE q # p
      BY <1>1, <2>1, <2>4, <3>2, SubjectFacts
    <3> QED  BY <3>1, <3>2
  <2> QED  BY <2>2, <2>3, <2>4
<1> QED  BY <1>1, <1>2, SettleLeft

LEMMA SettleStep ==
    ASSUME ComplianceAssumption, TypeInv, SettleInv, [Next]_complianceVars
    PROVE  SettleInv'
<1>1. ASSUME NEW s \in Slot, NEW attrs \in SUBSET Attr, Heartbeat(s, attrs)
      PROVE  SettleInv'
  BY <1>1, HeartbeatRecord, SettleBegin DEF Heartbeat
<1>2. ASSUME NEW s \in Slot, Evaluate(s)
      PROVE  SettleInv'
  <2>1. /\ DeviceRead(Quiet) \in Handler /\ DeviceRead(Quiet).pc = "groups"
        /\ \A a \in Attr \ Inventory : DeviceRead(Quiet).device[a] = facts[a]
    BY QuietFacts, DeviceReadFacts
  <2> QED  BY <1>2, <2>1, SettleBegin DEF Evaluate
<1>3. ASSUME NEW s \in Slot, EvaluationStep(s) \/ EvaluationFails(s)
      PROVE  SettleInv'
  BY <1>3, SettleStore, SettleLooks, SettleDelete, SettleInsert, SettleAlert DEF EvaluationStep, Looks
<1>4. ASSUME NEW a \in Attr, NEW v \in Value(a), DeviceChanges(a, v)
      PROVE  SettleInv'
  BY <1>4, SettleSame DEF DeviceChanges
<1>5. CASE UNCHANGED complianceVars
  BY <1>5, SettleSame DEF complianceVars
<1>6. CASE Administered
  BY <1>6, SettleAdministered
<1> QED  BY <1>1, <1>2, <1>3, <1>4, <1>5, <1>6 DEF Next, Administered, PolicyWrite

\* Whatever overlapping and failed evaluations have left, one that runs alone leaves
\* one batch with the right verdicts, and the alerts they call for.
THEOREM LoneEvaluationSettles ==
    ASSUME ComplianceAssumption
    PROVE  Spec => []EvaluationSettles
<1>1. ComplianceInit => TypeInv /\ SettleInv
  <2> SUFFICES ASSUME ComplianceInit  PROVE SettleInv
    BY TypeInit
  <2>1. settled = FALSE /\ \A s \in Slot : handler[s] = Quiet
    BY DEF ComplianceInit
  <2> QED  BY <2>1, QuietFacts DEF SettleInv, AloneOK, EvaluationSettles
<1>2. TypeInv /\ SettleInv /\ [Next]_complianceVars => TypeInv' /\ SettleInv'
  BY TypeStep, SettleStep
<1>3. SettleInv => EvaluationSettles
  BY DEF SettleInv
<1> QED  BY <1>1, <1>2, <1>3, PTL DEF Spec

=============================================================================
