----------------------------- MODULE Enrollment ------------------------------
(***************************************************************************)
(* Enrollment: requests for enrollment tokens and their approval, the      *)
(* one-time reveal of an approved token, enrolments with a token, and the  *)
(* deletion of devices.                                                    *)
(*                                                                         *)
(* As in Commands a Slot is a request in flight and an action is one       *)
(* statement, or one transaction, of its handler with the code that        *)
(* follows it.                                                             *)
(***************************************************************************)
EXTENDS Naturals, FiniteSets

CONSTANTS
    Ask,              \* ids of token requests
    Serial,           \* serial numbers of machines
    Limits,           \* values of maxUses
    Deadline,         \* values of expiresAt of a request for a token
    Expiry,           \* those of the other tokens, where None is a token that stays valid
    Slot,             \* requests in flight at once
    MaxTokens,        \* bound: enrollment tokens ever made
    MaxCreated,       \* bound: those that are not made for a request
    MaxDevices,       \* bound: devices ever made
    MaxAgentTokens,   \* bound: agent tokens ever made
    MaxFailures,      \* bound: handlers that fail half-way
    None

ASSUME EnrollmentAssumption ==
    /\ MaxTokens \in Nat /\ MaxCreated \in Nat /\ MaxDevices \in Nat /\ MaxAgentTokens \in Nat /\ MaxFailures \in Nat
    /\ Limits \subseteq Nat \ {0}
    /\ Expiry \subseteq Deadline \cup {None}
    /\ IsFiniteSet(Slot) /\ Slot # {}
    /\ None \notin Nat /\ None \notin Ask \cup Serial \cup Deadline

VARIABLES
    ask,          \* the EnrollmentTokenRequest rows
    token,        \* the EnrollmentToken rows
    device,       \* the Device rows
    agentToken,   \* the AgentToken rows
    handler,      \* the requests in flight
    passed,       \* the deadlines that have passed
    failures      \* handlers that have failed half-way

enrollmentVars == <<ask, token, device, agentToken, handler, passed, failures>>

Token == 1 .. MaxTokens
Device == 1 .. MaxDevices
AgentToken == 1 .. MaxAgentTokens

-----------------------------------------------------------------------------
(* Rows.  Ids are not used again, so that a deleted row keeps its place.   *)

\* issued stands for issuedTokenId and tokenRevealedAt, which are set together.
NoAsk == [status |-> "ABSENT", limit |-> 0, expiry |-> None, issued |-> None]
AskRow == [status: {"PENDING", "APPROVED", "DENIED", "CANCELLED"}, limit: Limits,
           expiry: Deadline, issued: Token \cup {None}] \cup {NoAsk}

\* ask is the request whose reveal made the token.
NoToken == [active |-> FALSE, limit |-> 0, uses |-> 0, device |-> None,
            expiry |-> None, ask |-> None]
NewToken(n, d, x, a) == [active |-> TRUE, limit |-> n, uses |-> 0, device |-> d,
                         expiry |-> x, ask |-> a]
TokenRow == [active: BOOLEAN, limit: Limits, uses: Nat, device: Device \cup {None},
             expiry: Deadline \cup {None}, ask: Ask \cup {None}] \cup {NoToken}

NoDevice == [status |-> "ABSENT", serial |-> None]
DeviceRow == [status: {"PRESENT", "DELETED"}, serial: Serial] \cup {NoDevice}
Present(d) == device[d].status = "PRESENT"

NoAgentToken == [status |-> "ABSENT", device |-> None]
AgentTokenRow == [status: {"LIVE", "REVOKED"}, device: Device]
                   \cup {NoAgentToken, [status |-> "DELETED", device |-> None]}

\* The id the next row gets.
NextId(rows, blank) ==
    {i \in DOMAIN rows : rows[i] = blank /\ \A j \in DOMAIN rows : j < i => rows[j] # blank}

\* pin is the deviceId of the enrollment token as the handler has read it.
Quiet == [op |-> "quiet", ask |-> None, token |-> None, pin |-> None,
          serial |-> None, device |-> None]

Deciding == {"approve", "deny", "cancel"}
Enrolling == {"find", "create", "revoke", "issue", "record", "count"}
Handler == [op: {"quiet", "reveal", "delete"} \cup Deciding \cup Enrolling,
            ask: Ask \cup {None}, token: Token \cup {None}, pin: Device \cup {None},
            serial: Serial \cup {None}, device: Device \cup {None}]

Begin(s, r) == handler[s] = Quiet /\ handler' = [handler EXCEPT ![s] = r]
Goto(s, op) == handler' = [handler EXCEPT ![s].op = op]
Done(s) == handler' = [handler EXCEPT ![s] = Quiet]

EnrollmentInit ==
    /\ ask = [a \in Ask |-> NoAsk]
    /\ token = [t \in Token |-> NoToken]
    /\ device = [d \in Device |-> NoDevice]
    /\ agentToken = [k \in AgentToken |-> NoAgentToken]
    /\ handler = [s \in Slot |-> Quiet]
    /\ passed = {}
    /\ failures = 0

-----------------------------------------------------------------------------
(* Tokens and token requests *)

\* POST /enrollment-tokens, for a device or for any.
CreateToken(s, n, d, x) ==
    /\ handler[s] = Quiet
    /\ Cardinality({t \in Token : token[t] # NoToken /\ token[t].ask = None}) < MaxCreated
    /\ d # None => Present(d)
    /\ \E t \in NextId(token, NoToken) : token' = [token EXCEPT ![t] = NewToken(n, d, x, None)]
    /\ UNCHANGED <<ask, device, agentToken, handler, passed, failures>>

\* DELETE /enrollment-tokens/:id
RevokeToken(s, t) ==
    /\ handler[s] = Quiet
    /\ token[t] # NoToken
    /\ token' = [token EXCEPT ![t].active = FALSE]
    /\ UNCHANGED <<ask, device, agentToken, handler, passed, failures>>

\* POST /enrollment-token-requests
RequestToken(s, a, n, x) ==
    /\ handler[s] = Quiet
    /\ ask[a] = NoAsk
    /\ x \notin passed
    /\ ask' = [ask EXCEPT ![a] = [status |-> "PENDING", limit |-> n, expiry |-> x, issued |-> None]]
    /\ UNCHANGED <<token, device, agentToken, handler, passed, failures>>

\* Faulty variant: the check for a pending request is missing.
FaultyDecide(s, a, op) ==
    /\ ask[a] # NoAsk
    /\ Begin(s, [Quiet EXCEPT !.op = op, !.ask = a])
    /\ UNCHANGED <<ask, token, device, agentToken, passed, failures>>

\* Only pending requests can be decided ...
Decide(s, a, op) ==
    /\ ask[a].status = "PENDING"
    /\ Begin(s, [Quiet EXCEPT !.op = op, !.ask = a])
    /\ UNCHANGED <<ask, token, device, agentToken, passed, failures>>

\* ... but the update that follows is by id.
Settle(s, op, status) ==
    /\ handler[s].op = op
    /\ ask' = [ask EXCEPT ![handler[s].ask].status = status]
    /\ Done(s)
    /\ UNCHANGED <<token, device, agentToken, passed, failures>>

ApproveRead(s, a) == ask[a].expiry \notin passed /\ Decide(s, a, "approve")
ApproveWrite(s) == Settle(s, "approve", "APPROVED")
DenyRead(s, a) == Decide(s, a, "deny")
DenyWrite(s) == Settle(s, "deny", "DENIED")
CancelRead(s, a) == Decide(s, a, "cancel")
CancelWrite(s) == Settle(s, "cancel", "CANCELLED")

\* GET /enrollment-token-requests/:id/token reads the request ...
RevealRead(s, a) ==
    /\ ask[a].status = "APPROVED"
    /\ ask[a].issued = None
    /\ ask[a].expiry \notin passed
    /\ Begin(s, [Quiet EXCEPT !.op = "reveal", !.ask = a])
    /\ UNCHANGED <<ask, token, device, agentToken, passed, failures>>

\* Faulty variant: the claim does not look at the request again.
FaultyClaim(s) ==
    LET a == handler[s].ask IN
    /\ handler[s].op = "reveal"
    /\ \E t \in NextId(token, NoToken) :
         /\ token' = [token EXCEPT ![t] = NewToken(ask[a].limit, None, ask[a].expiry, a)]
         /\ ask' = [ask EXCEPT ![a].issued = t]
    /\ Done(s)
    /\ UNCHANGED <<device, agentToken, passed, failures>>

\* ... and one transaction claims it, with a guarded update, and makes the token.
Claim(s) ==
    LET a == handler[s].ask IN
    /\ handler[s].op = "reveal"
    /\ ask[a].status = "APPROVED" /\ ask[a].issued = None
    /\ \E t \in NextId(token, NoToken) :
         /\ token' = [token EXCEPT ![t] = NewToken(ask[a].limit, None, ask[a].expiry, a)]
         /\ ask' = [ask EXCEPT ![a].issued = t]
    /\ Done(s)
    /\ UNCHANGED <<device, agentToken, passed, failures>>

\* The transaction is rolled back when the request is claimed or withdrawn (or,
\* the bound, when there is no room for a token).
ClaimFails(s) ==
    LET a == handler[s].ask IN
    /\ handler[s].op = "reveal"
    /\ \/ ask[a].status # "APPROVED" \/ ask[a].issued # None
       \/ NextId(token, NoToken) = {}
    /\ Done(s)
    /\ UNCHANGED <<ask, token, device, agentToken, passed, failures>>
-----------------------------------------------------------------------------
(* POST /enroll *)

\* Bound: an enrolment begins only with room left for its agent token.
Room == Cardinality({s \in Slot : handler[s].op \in Enrolling})
          < Cardinality({k \in AgentToken : agentToken[k] = NoAgentToken})

\* Faulty variant: a token is only refused when it is used beyond its limit.
FaultyEnrollRead(s, t, n) ==
    /\ Room
    /\ token[t].active
    /\ token[t].expiry \notin passed
    /\ token[t].uses <= token[t].limit
    /\ Begin(s, [Quiet EXCEPT !.op = "find", !.token = t, !.pin = token[t].device, !.serial = n])
    /\ UNCHANGED <<ask, token, device, agentToken, passed, failures>>

\* A machine enrolls with a token that is active, valid and not used up.
EnrollRead(s, t, n) ==
    /\ Room
    /\ token[t].active
    /\ token[t].expiry \notin passed
    /\ token[t].uses < token[t].limit
    /\ Begin(s, [Quiet EXCEPT !.op = "find", !.token = t, !.pin = token[t].device, !.serial = n])
    /\ UNCHANGED <<ask, token, device, agentToken, passed, failures>>

\* The device the token is for, or else the one with the serial number.
Found(s) == {d \in Device : /\ Present(d)
                            /\ IF handler[s].pin # None
                               THEN d = handler[s].pin
                               ELSE device[d].serial = handler[s].serial}

\* The update of the device it finds is left out: it writes nothing of the model,
\* and where it fails, since the device is gone, so does the enrolment.
FindDevice(s) ==
    /\ handler[s].op = "find"
    /\ IF Found(s) = {}
       THEN Goto(s, "create")
       ELSE \E d \in Found(s) :
              handler' = [handler EXCEPT ![s].op = "revoke", ![s].device = d, ![s].serial = None]
    /\ UNCHANGED <<ask, token, device, agentToken, passed, failures>>

\* (organizationId, serialNumber) is unique; a handler that meets it fails.
CreateDevice(s) ==
    LET n == handler[s].serial
        taken == \E d \in Device : Present(d) /\ device[d].serial = n
    IN
    /\ handler[s].op = "create"
    /\ \/ /\ ~taken
          /\ \E d \in NextId(device, NoDevice) :
               /\ device' = [device EXCEPT ![d] = [status |-> "PRESENT", serial |-> n]]
               /\ handler' = [handler EXCEPT ![s].op = "revoke", ![s].device = d, ![s].serial = None]
       \/ taken /\ Done(s) /\ UNCHANGED device
       \/ NextId(device, NoDevice) = {} /\ Done(s) /\ UNCHANGED device
    /\ UNCHANGED <<ask, token, agentToken, passed, failures>>

\* Faulty variant: the tokens of all devices are revoked.
FaultyRevokeAgents(s) ==
    /\ handler[s].op = "revoke"
    /\ agentToken' = [k \in AgentToken |->
                        IF agentToken[k].status = "LIVE"
                        THEN [agentToken[k] EXCEPT !.status = "REVOKED"]
                        ELSE agentToken[k]]
    /\ Goto(s, "issue")
    /\ UNCHANGED <<ask, token, device, passed, failures>>

\* Revoke the agent tokens of the device ...
RevokeAgents(s) ==
    /\ handler[s].op = "revoke"
    /\ agentToken' = [k \in AgentToken |->
                        IF agentToken[k].status = "LIVE" /\ agentToken[k].device = handler[s].device
                        THEN [agentToken[k] EXCEPT !.status = "REVOKED"]
                        ELSE agentToken[k]]
    /\ Goto(s, "issue")
    /\ UNCHANGED <<ask, token, device, passed, failures>>

\* ... and issue a fresh one.
IssueAgent(s) ==
    /\ handler[s].op = "issue"
    /\ IF Present(handler[s].device)
       THEN /\ \E k \in NextId(agentToken, NoAgentToken) :
                 agentToken' = [agentToken EXCEPT
                                  ![k] = [status |-> "LIVE", device |-> handler[s].device]]
            /\ Goto(s, "record")
       ELSE Done(s) /\ UNCHANGED agentToken
    /\ UNCHANGED <<ask, token, device, passed, failures>>

\* The heartbeat row that says ENROLLED refers to the device.
RecordEnrolment(s) ==
    /\ handler[s].op = "record"
    /\ IF Present(handler[s].device) THEN Goto(s, "count") ELSE Done(s)
    /\ UNCHANGED <<ask, token, device, agentToken, passed, failures>>

\* The use is counted; a single-use token without a device, as the handler has
\* read it, is pinned to the device it enrolled.
CountUse(s) ==
    LET t == handler[s].token
        pins == handler[s].pin = None /\ token[t].limit = 1
    IN
    /\ handler[s].op = "count"
    /\ token' = IF pins /\ ~Present(handler[s].device)
                THEN token
                ELSE [token EXCEPT ![t].uses = @ + 1,
                                   ![t].device = IF pins THEN handler[s].device ELSE @]
    /\ Done(s)
    /\ UNCHANGED <<ask, device, agentToken, passed, failures>>

-----------------------------------------------------------------------------
(* DELETE /devices/:id *)

Unpinned(d) == [t \in Token |-> IF token[t].device = d
                                THEN [token[t] EXCEPT !.device = None]
                                ELSE token[t]]

\* Tokens for the device become tokens for any ...
UnpinTokens(s, d) ==
    /\ Present(d)
    /\ token' = Unpinned(d)
    /\ Begin(s, [Quiet EXCEPT !.op = "delete", !.device = d])
    /\ UNCHANGED <<ask, device, agentToken, passed, failures>>

\* Faulty variant: agent tokens outlive their device.
FaultyDeleteDevice(s) ==
    LET d == handler[s].device IN
    /\ handler[s].op = "delete"
    /\ device' = [device EXCEPT ![d].status = "DELETED"]
    /\ token' = Unpinned(d)
    /\ Done(s)
    /\ UNCHANGED <<ask, agentToken, passed, failures>>

\* ... and the row is deleted: the foreign keys delete its agent tokens and
\* unpin the tokens that were pinned meanwhile.
DeleteDevice(s) ==
    LET d == handler[s].device IN
    /\ handler[s].op = "delete"
    /\ device' = [device EXCEPT ![d].status = "DELETED"]
    /\ token' = Unpinned(d)
    /\ agentToken' = [k \in AgentToken |->
                        IF agentToken[k].device = d
                        THEN [status |-> "DELETED", device |-> None]
                        ELSE agentToken[k]]
    /\ Done(s)
    /\ UNCHANGED <<ask, passed, failures>>

-----------------------------------------------------------------------------
\* A deadline passes.
Pass(x) ==
    /\ x \notin passed
    /\ passed' = passed \cup {x}
    /\ UNCHANGED <<ask, token, device, agentToken, handler, failures>>

\* A statement fails, or the process stops: what was written stays.  A handler
\* that fails before it wrote is one that never began.
HandlerFails(s) ==
    /\ handler[s].op \in {"revoke", "issue", "record", "count", "delete"}
    /\ failures < MaxFailures
    /\ failures' = failures + 1
    /\ Done(s)
    /\ UNCHANGED <<ask, token, device, agentToken, passed>>

Admin(s) ==
    \/ \E n \in Limits, d \in Device \cup {None}, x \in Expiry : CreateToken(s, n, d, x)
    \/ \E t \in Token : RevokeToken(s, t)
    \/ \E a \in Ask, n \in Limits, x \in Deadline : RequestToken(s, a, n, x)
    \/ \E a \in Ask : ApproveRead(s, a) \/ DenyRead(s, a) \/ CancelRead(s, a) \/ RevealRead(s, a)
    \/ ApproveWrite(s) \/ DenyWrite(s) \/ CancelWrite(s) \/ Claim(s) \/ ClaimFails(s)
    \/ \E d \in Device : UnpinTokens(s, d)
    \/ DeleteDevice(s)

Machine(s) ==
    \/ \E t \in Token, n \in Serial : EnrollRead(s, t, n)
    \/ FindDevice(s) \/ CreateDevice(s) \/ RevokeAgents(s) \/ IssueAgent(s)
    \/ RecordEnrolment(s) \/ CountUse(s)

Next ==
    \/ \E s \in Slot : Admin(s) \/ Machine(s) \/ HandlerFails(s)
    \/ \E x \in Deadline : Pass(x)

Spec == EnrollmentInit /\ [][Next]_enrollmentVars

-----------------------------------------------------------------------------
(* Properties *)

\* The tables and the handlers are well formed, and rows refer to rows that
\* exist: a pinned token to a device that is present, an agent token that was
\* not deleted likewise.
EnrollmentTypeOK ==
    /\ ask \in [Ask -> AskRow] /\ token \in [Token -> TokenRow]
    /\ device \in [Device -> DeviceRow] /\ agentToken \in [AgentToken -> AgentTokenRow]
    /\ handler \in [Slot -> Handler]
    /\ passed \subseteq Deadline /\ failures \in 0 .. MaxFailures
    /\ \A s \in Slot : handler[s].op \in Enrolling \ {"find", "create"} => handler[s].device # None
    /\ \A t \in Token : token[t].device # None => Present(token[t].device)
    /\ \A k \in AgentToken : agentToken[k].status \in {"LIVE", "REVOKED"} => Present(agentToken[k].device)

\* The token of an approved request is revealed exactly once, however many
\* callers ask for it at once: the token a reveal made is the one its request
\* is linked to.
RevealedOnce == \A t \in Token : token[t].ask # None => ask[token[t].ask].issued = t

Decided(a) == ask[a].status \in {"APPROVED", "DENIED", "CANCELLED"}

\* A request is decided anew only by handlers that had found it pending when it
\* was decided first; the decision takes one, hence they are never all of them.
\* With one request at a time a decision is final.
DecidedOnce ==
    \A a \in Ask : Decided(a) =>
        \E s \in Slot : ~(handler[s].op \in Deciding /\ handler[s].ask = a)

UsesBounded == \A t \in Token : token[t].uses <= token[t].limit + Cardinality(Slot) - 1

\* The uses counted, and the agent tokens of the devices that are there.
Used == UNION {{t} \X (1 .. token[t].uses) : t \in Token}
Issued == {k \in AgentToken : agentToken[k].status \in {"LIVE", "REVOKED"}}

UsesCounted ==
    Cardinality(Issued)
      <= Cardinality(Used) + Cardinality({s \in Slot : handler[s].op \in {"record", "count"}}) + failures

\* A token is used as often as it may be, and beyond that only by enrolments
\* that read it before its last use was counted.  No enrolment escapes the count
\* except one that failed after it had its agent token.
UseLimit == UsesBounded /\ UsesCounted

LiveTokens(d) == {k \in AgentToken : agentToken[k].status = "LIVE" /\ agentToken[k].device = d}

LiveTokensBounded == \A d \in Device : Cardinality(LiveTokens(d)) <= Cardinality(Slot)

LockedOut(d) ==
    /\ Present(d)
    /\ \E k \in AgentToken : agentToken[k].device = d
    /\ LiveTokens(d) = {}
    /\ \A s \in Slot : ~(handler[s].op = "issue" /\ handler[s].device = d)
FewLockedOut == Cardinality({d \in Device : LockedOut(d)}) <= failures

\* A device has one live agent token, or one for each of the enrolments that
\* overlap on it, since each of them revokes before it issues; and it keeps one
\* except while it enrolls again: each failure can lock out one device.
LiveTokensKept == LiveTokensBounded /\ FewLockedOut
=============================================================================
