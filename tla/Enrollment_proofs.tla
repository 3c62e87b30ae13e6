-------------------------- MODULE Enrollment_proofs --------------------------
(***************************************************************************)
(* Proofs about Enrollment for any number of requests, tokens, devices and *)
(* handlers in flight: the references between rows, the one-time reveal,   *)
(* the decisions on a request, and the counts of uses and agent tokens.    *)
(***************************************************************************)
EXTENDS Enrollment, FiniteSetTheorems, TLAPS

-----------------------------------------------------------------------------
(* The inductive invariant *)

OnAsk == Deciding \cup {"reveal"}
OnDevice == {"revoke", "issue", "record", "count", "delete"}

\* What a handler has read: the rows it works on have been made.
HandlerOK(h) ==
    /\ h.op \in OnAsk => h.ask \in Ask /\ ask[h.ask] # NoAsk
    /\ h.op \in Enrolling => h.token \in Token /\ token[h.token] # NoToken
    /\ h.op \in {"find", "create"} => h.serial \in Serial
    /\ h.op \in OnDevice => h.device \in Device /\ device[h.device] # NoDevice

HandlersOK == \A s \in Slot : HandlerOK(handler[s])

\* Rows are not unmade.
Grows ==
    /\ \A a \in Ask : ask[a] # NoAsk => ask'[a] # NoAsk
    /\ \A t \in Token : token[t] # NoToken => token'[t] # NoToken
    /\ \A d \in Device : device[d] # NoDevice => device'[d] # NoDevice

Tables ==
    /\ ask \in [Ask -> AskRow] /\ token \in [Token -> TokenRow]
    /\ device \in [Device -> DeviceRow] /\ agentToken \in [AgentToken -> AgentTokenRow]
    /\ passed \subseteq Deadline /\ failures \in 0 .. MaxFailures

References ==
    /\ \A t \in Token : token[t].device # None => Present(token[t].device)
    /\ \A k \in AgentToken : agentToken[k].status \in {"LIVE", "REVOKED"} => Present(agentToken[k].device)

-----------------------------------------------------------------------------
(* Rows and handlers *)

LEMMA Bounds == EnrollmentAssumption => /\ None \notin Token /\ None \notin Device
                                        /\ None \notin Ask /\ None \notin Serial
                                        /\ Token \subseteq Nat /\ Device \subseteq Nat
BY DEF EnrollmentAssumption, Token, Device

\* A handler moves and the rows it and the others work on stay.
LEMMA HandlerStep ==
    ASSUME handler \in [Slot -> Handler], HandlersOK, Grows,
           NEW s \in Slot, NEW h \in Handler, HandlerOK(h)',
           handler' = [handler EXCEPT ![s] = h]
    PROVE  handler' \in [Slot -> Handler] /\ HandlersOK'
<1>1. handler' \in [Slot -> Handler]
  OBVIOUS
<1>2. ASSUME NEW q \in Slot PROVE HandlerOK(handler[q])'
  <2>1. CASE q = s
    <3>1. handler'[q] = h
      BY <2>1
    <3> QED BY <3>1 DEF HandlerOK
  <2>2. CASE q # s
    <3>1. handler'[q] = handler[q]
      BY <2>2
    <3>2. PICK g : g = handler[q]
      OBVIOUS
    <3>3. HandlerOK(g)
      BY <3>2 DEF HandlersOK
    <3>4. HandlerOK(g)'
      BY <3>3 DEF HandlerOK, Grows
    <3> QED BY <3>1, <3>2, <3>4 DEF HandlerOK
  <2> QED BY <2>1, <2>2
<1> QED BY <1>1, <1>2 DEF HandlersOK

LEMMA HandlersStay ==
    ASSUME handler \in [Slot -> Handler], HandlersOK, Grows, UNCHANGED handler
    PROVE  handler' \in [Slot -> Handler] /\ HandlersOK'
BY DEF HandlersOK, HandlerOK, Grows

LEMMA QuietHandler == Quiet \in Handler /\ Quiet.op = "quiet"
BY DEF Quiet, Handler

LEMMA DoneStep ==
    ASSUME handler \in [Slot -> Handler], HandlersOK, Grows, NEW s \in Slot, Done(s)
    PROVE  handler' \in [Slot -> Handler] /\ HandlersOK'
<1>1. HandlerOK(Quiet)'
  BY QuietHandler DEF HandlerOK, OnAsk, OnDevice, Enrolling, Deciding
<1> QED BY <1>1, QuietHandler, HandlerStep DEF Done

LEMMA GotoStep ==
    ASSUME handler \in [Slot -> Handler], HandlersOK, Grows, NEW s \in Slot,
           NEW op \in Enrolling, Goto(s, op),
           handler[s].op \in Enrolling,
           op \in OnDevice => handler[s].op \in OnDevice,
           op \in {"find", "create"} => handler[s].op \in {"find", "create"}
    PROVE  handler' \in [Slot -> Handler] /\ HandlersOK'
<1>1. PICK g \in Handler : g = handler[s]
  OBVIOUS
<1>2. HandlerOK(g)
  BY <1>1 DEF HandlersOK
<1>3. PICK h : h = [g EXCEPT !.op = op]
  OBVIOUS
<1>4. /\ h \in Handler /\ h.op = op /\ h.ask = g.ask /\ h.token = g.token
      /\ h.serial = g.serial /\ h.device = g.device
  BY <1>1, <1>3 DEF Handler
<1>5. HandlerOK(h)'
  <2>1. g.op \in Enrolling /\ h.op \in Enrolling /\ h.op \notin OnAsk
    BY <1>1, <1>4 DEF Enrolling, OnAsk, Deciding
  <2>2. h.token \in Token /\ token'[h.token] # NoToken
    BY <1>2, <1>4, <2>1 DEF HandlerOK, Grows
  <2>3. h.op \in {"find", "create"} => h.serial \in Serial
    BY <1>1, <1>2, <1>4 DEF HandlerOK
  <2>4. h.op \in OnDevice => g.op \in OnDevice
    BY <1>1, <1>4
  <2>5. h.op \in OnDevice => h.device \in Device /\ device'[h.device] # NoDevice
    BY <1>2, <1>4, <2>4 DEF HandlerOK, Grows
  <2> QED BY <2>1, <2>2, <2>3, <2>5 DEF HandlerOK
<1>6. handler' = [handler EXCEPT ![s] = h]
  BY <1>1, <1>3 DEF Goto
<1> QED BY <1>4, <1>5, <1>6, HandlerStep

\* An enrolment goes on with its device.
LEMMA OnwardStep ==
    ASSUME handler \in [Slot -> Handler], HandlersOK, Grows, NEW s \in Slot,
           handler[s].op \in {"revoke", "issue", "record"},
           NEW op, op \in {"issue", "record", "count"}, Goto(s, op)
    PROVE  handler' \in [Slot -> Handler] /\ HandlersOK'
<1>1. op \in Enrolling /\ handler[s].op \in Enrolling
  BY DEF Enrolling
<1>2. op \notin {"find", "create"} /\ handler[s].op \in OnDevice
  BY DEF OnDevice
<1> QED BY <1>1, <1>2, GotoStep

\* A handler begins.
LEMMA BeginStep ==
    ASSUME handler \in [Slot -> Handler], HandlersOK, Grows, NEW s \in Slot,
           NEW h \in Handler, HandlerOK(h)', Begin(s, h)
    PROVE  handler' \in [Slot -> Handler] /\ HandlersOK'
BY HandlerStep DEF Begin

LEMMA AskRows ==
    ASSUME EnrollmentAssumption
    PROVE  /\ NoAsk \in AskRow /\ NoAsk.status = "ABSENT"
           /\ \A r \in AskRow : r.status = "ABSENT" <=> r = NoAsk
           /\ \A n \in Limits, x \in Deadline :
                [status |-> "PENDING", limit |-> n, expiry |-> x, issued |-> None] \in AskRow \ {NoAsk}
BY DEF EnrollmentAssumption, AskRow, NoAsk

\* A decision writes the status, and a claim the token.
LEMMA AskStatus ==
    ASSUME NEW r \in AskRow \ {NoAsk}, NEW st \in {"APPROVED", "DENIED", "CANCELLED"},
           NEW u, u = [r EXCEPT !.status = st]
    PROVE  u \in AskRow /\ u # NoAsk /\ u.status = st /\ u.issued = r.issued
BY DEF AskRow, NoAsk

LEMMA AskIssued ==
    ASSUME NEW r \in AskRow \ {NoAsk}, NEW t \in Token,
           NEW u, u = [r EXCEPT !.issued = t]
    PROVE  u \in AskRow /\ u # NoAsk /\ u.status = r.status /\ u.issued = t
BY DEF AskRow, NoAsk

LEMMA TokenRows ==
    ASSUME EnrollmentAssumption
    PROVE  /\ NoToken \in TokenRow /\ NoToken.device = None /\ NoToken.ask = None
           /\ ~NoToken.active
           /\ \A r \in TokenRow : r = NoToken <=> r.limit = 0
BY DEF EnrollmentAssumption, TokenRow, NoToken

LEMMA NewTokenRow ==
    ASSUME EnrollmentAssumption, NEW n \in Limits, NEW d \in Device \cup {None},
           NEW x \in Deadline \cup {None}, NEW a \in Ask \cup {None},
           NEW u, u = NewToken(n, d, x, a)
    PROVE  u \in TokenRow /\ u # NoToken /\ u.device = d /\ u.ask = a /\ u.uses = 0
BY DEF EnrollmentAssumption, TokenRow, NoToken, NewToken

LEMMA TokenFields ==
    ASSUME EnrollmentAssumption, NEW r \in TokenRow \ {NoToken}
    PROVE  /\ r.active \in BOOLEAN /\ r.limit \in Limits /\ r.limit # 0 /\ r.uses \in Nat
           /\ r.device \in Device \cup {None} /\ r.expiry \in Deadline \cup {None}
           /\ r.ask \in Ask \cup {None}
BY DEF EnrollmentAssumption, TokenRow, NoToken

\* A token is revoked, used or pinned.
LEMMA TokenWrite ==
    ASSUME EnrollmentAssumption, NEW r \in TokenRow \ {NoToken}, NEW u,
           u = [active |-> u.active, limit |-> u.limit, uses |-> u.uses, device |-> u.device,
                expiry |-> u.expiry, ask |-> u.ask],
           u.active \in BOOLEAN, u.uses \in Nat, u.device \in Device \cup {None},
           u.limit = r.limit, u.expiry = r.expiry, u.ask = r.ask
    PROVE  u \in TokenRow /\ u # NoToken
<1>1. u.limit \in Limits /\ u.limit # 0 /\ u.expiry \in Deadline \cup {None} /\ u.ask \in Ask \cup {None}
  BY TokenFields
<1>2. u # NoToken
  BY <1>1 DEF NoToken
<1> QED BY <1>1, <1>2 DEF TokenRow

LEMMA TokenRevoked ==
    ASSUME EnrollmentAssumption, NEW r \in TokenRow \ {NoToken},
           NEW u, u = [r EXCEPT !.active = FALSE]
    PROVE  /\ u \in TokenRow /\ u # NoToken /\ u.device = r.device /\ u.ask = r.ask
           /\ u.uses = r.uses /\ u.limit = r.limit
<1>1. /\ u.active = FALSE /\ u.limit = r.limit /\ u.uses = r.uses /\ u.device = r.device
      /\ u.expiry = r.expiry /\ u.ask = r.ask
      /\ u = [active |-> u.active, limit |-> u.limit, uses |-> u.uses, device |-> u.device,
              expiry |-> u.expiry, ask |-> u.ask]
  BY DEF TokenRow, NoToken
<1>2. r.active \in BOOLEAN /\ r.uses \in Nat /\ r.device \in Device \cup {None}
  BY TokenFields
<1>3. u.active \in BOOLEAN /\ u.uses \in Nat /\ u.device \in Device \cup {None}
  BY <1>1, <1>2
<1> QED BY <1>1, <1>3, TokenWrite

LEMMA TokenCounted ==
    ASSUME EnrollmentAssumption, NEW r \in TokenRow \ {NoToken},
           NEW u, u = [r EXCEPT !.uses = @ + 1]
    PROVE  /\ u \in TokenRow /\ u # NoToken /\ u.device = r.device /\ u.ask = r.ask
           /\ u.uses = r.uses + 1 /\ u.limit = r.limit
<1>1. /\ u.active = r.active /\ u.limit = r.limit /\ u.uses = r.uses + 1 /\ u.device = r.device
      /\ u.expiry = r.expiry /\ u.ask = r.ask
      /\ u = [active |-> u.active, limit |-> u.limit, uses |-> u.uses, device |-> u.device,
              expiry |-> u.expiry, ask |-> u.ask]
  BY DEF TokenRow, NoToken
<1>2. r.active \in BOOLEAN /\ r.uses \in Nat /\ r.device \in Device \cup {None}
  BY TokenFields
<1>3. u.active \in BOOLEAN /\ u.uses \in Nat /\ u.device \in Device \cup {None}
  BY <1>1, <1>2
<1> QED BY <1>1, <1>3, TokenWrite

LEMMA TokenPinned ==
    ASSUME EnrollmentAssumption, NEW r \in TokenRow \ {NoToken},
           NEW d \in Device \cup {None}, NEW u, u = [r EXCEPT !.device = d]
    PROVE  /\ u \in TokenRow /\ u # NoToken /\ u.device = d /\ u.ask = r.ask
           /\ u.uses = r.uses /\ u.limit = r.limit
<1>1. /\ u.active = r.active /\ u.limit = r.limit /\ u.uses = r.uses /\ u.device = d
      /\ u.expiry = r.expiry /\ u.ask = r.ask
      /\ u = [active |-> u.active, limit |-> u.limit, uses |-> u.uses, device |-> u.device,
              expiry |-> u.expiry, ask |-> u.ask]
  BY DEF TokenRow, NoToken
<1>2. r.active \in BOOLEAN /\ r.uses \in Nat /\ r.device \in Device \cup {None}
  BY TokenFields
<1>3. u.active \in BOOLEAN /\ u.uses \in Nat /\ u.device \in Device \cup {None}
  BY <1>1, <1>2
<1> QED BY <1>1, <1>3, TokenWrite

LEMMA DeviceRows ==
    ASSUME EnrollmentAssumption
    PROVE  /\ \A r \in DeviceRow : r.status = "ABSENT" <=> r = NoDevice
           /\ \A n \in Serial : [status |-> "PRESENT", serial |-> n] \in DeviceRow \ {NoDevice}
           /\ \A r \in DeviceRow \ {NoDevice} :
                [r EXCEPT !.status = "DELETED"] \in DeviceRow \ {NoDevice}
BY DEF DeviceRow, NoDevice

LEMMA AgentTokenRows ==
    ASSUME EnrollmentAssumption
    PROVE  /\ NoAgentToken \in AgentTokenRow
           /\ [status |-> "DELETED", device |-> None] \in AgentTokenRow
           /\ \A d \in Device : [status |-> "LIVE", device |-> d] \in AgentTokenRow
           /\ \A r \in AgentTokenRow : r.device = None \/ r.device \in Device
           /\ \A r \in AgentTokenRow : r.status = "LIVE" =>
                /\ [r EXCEPT !.status = "REVOKED"] \in AgentTokenRow
                /\ [r EXCEPT !.status = "REVOKED"].device = r.device
           /\ \A r \in AgentTokenRow : r.status \in {"LIVE", "REVOKED"} => r.device \in Device
BY DEF AgentTokenRow, NoAgentToken
-----------------------------------------------------------------------------
(* Steps *)

Inv ==
    /\ Tables /\ References /\ RevealedOnce
    /\ handler \in [Slot -> Handler] /\ HandlersOK

\* What a step does to the tables.
Kept == Tables' /\ References' /\ RevealedOnce' /\ Grows

LEMMA InvImplies == EnrollmentAssumption /\ Inv => EnrollmentTypeOK
<1> SUFFICES ASSUME EnrollmentAssumption, Inv
             PROVE  \A s \in Slot : handler[s].op \in Enrolling \ {"find", "create"} =>
                                      handler[s].device # None
  BY DEF Inv, Tables, References, EnrollmentTypeOK
<1> TAKE s \in Slot
<1> HAVE handler[s].op \in Enrolling \ {"find", "create"}
<1>1. handler[s].op \in OnDevice /\ HandlerOK(handler[s])
  BY DEF Enrolling, OnDevice, Inv, HandlersOK
<1> QED BY <1>1, Bounds DEF HandlerOK

LEMMA NothingWritten ==
    ASSUME Inv, UNCHANGED <<ask, token, device, agentToken, passed, failures>>
    PROVE  Kept
BY DEF Inv, Kept, Tables, References, RevealedOnce, Grows, Present

\* One request is written.
LEMMA AskWritten ==
    ASSUME Inv, NEW a \in Ask, NEW u \in AskRow \ {NoAsk}, u.issued = ask[a].issued,
           ask' = [ask EXCEPT ![a] = u],
           UNCHANGED <<token, device, agentToken, passed, failures>>
    PROVE  Kept
<1>1. /\ ask' \in [Ask -> AskRow]
      /\ \A b \in Ask : ask'[b].issued = ask[b].issued
      /\ \A b \in Ask : ask[b] # NoAsk => ask'[b] # NoAsk
  BY DEF Inv, Tables
<1>2. Tables'
  BY <1>1 DEF Inv, Tables
<1>3. References'
  BY DEF Inv, References, Present
<1>4. ASSUME NEW t \in Token, token'[t].ask # None
      PROVE  ask'[token'[t].ask].issued = t
  <2>1. PICK b : b = token[t].ask
    OBVIOUS
  <2>2. ask[b].issued = t /\ b # None
    BY <1>4, <2>1 DEF Inv, RevealedOnce
  <2>3. token[t] \in TokenRow /\ b \in Ask \cup {None}
    BY <2>1 DEF Inv, Tables, TokenRow, NoToken
  <2> QED BY <1>1, <2>1, <2>2, <2>3
<1>5. RevealedOnce'
  BY <1>4 DEF RevealedOnce
<1> QED BY <1>1, <1>2, <1>3, <1>5 DEF Kept, Grows

\* Tokens are written, not those of a request anew.
LEMMA TokensWritten ==
    ASSUME Inv, token' \in [Token -> TokenRow],
           \A t \in Token : token[t] # NoToken => token'[t] # NoToken,
           \A t \in Token : token'[t].ask = token[t].ask,
           \A t \in Token : token'[t].device = token[t].device
                              \/ token'[t].device = None \/ Present(token'[t].device),
           UNCHANGED <<ask, device, agentToken, passed, failures>>
    PROVE  Kept
<1>1. Tables'
  BY DEF Inv, Tables
<1>2. References'
  BY DEF Inv, References, Present
<1>3. RevealedOnce'
  BY DEF Inv, RevealedOnce
<1> QED BY <1>1, <1>2, <1>3 DEF Kept, Grows

-----------------------------------------------------------------------------
(* Tokens and token requests *)

LEMMA CreateTokenStep ==
    ASSUME EnrollmentAssumption, Inv, NEW s \in Slot, NEW n \in Limits, NEW d \in Device \cup {None},
           NEW x \in Expiry, CreateToken(s, n, d, x)
    PROVE  Kept /\ UNCHANGED handler
<1>1. PICK t \in Token : /\ token[t] = NoToken
                         /\ token' = [token EXCEPT ![t] = NewToken(n, d, x, None)]
  BY DEF CreateToken, NextId, Inv, Tables
<1>2. PICK u : u = NewToken(n, d, x, None)
  OBVIOUS
<1>3. u \in TokenRow /\ u # NoToken /\ u.device = d /\ u.ask = None
  <2>1. x \in Deadline \cup {None}
    BY DEF EnrollmentAssumption
  <2> QED BY <1>2, <2>1, NewTokenRow
<1>4. token' = [token EXCEPT ![t] = u] /\ token \in [Token -> TokenRow]
  BY <1>1, <1>2 DEF Inv, Tables
<1>5. /\ token' \in [Token -> TokenRow]
      /\ \A q \in Token : token[q] # NoToken => token'[q] # NoToken
      /\ \A q \in Token : token'[q].ask = token[q].ask
  BY <1>1, <1>3, <1>4, TokenRows
<1>6. u.device = None \/ Present(u.device)
  BY <1>3 DEF CreateToken
<1>7. \A q \in Token : token'[q].device = token[q].device
                         \/ token'[q].device = None \/ Present(token'[q].device)
  BY <1>4, <1>6
<1>8. UNCHANGED <<ask, device, agentToken, handler, passed, failures>>
  BY DEF CreateToken
<1> QED BY <1>5, <1>7, <1>8, TokensWritten

LEMMA RevokeTokenStep ==
    ASSUME EnrollmentAssumption, Inv, NEW s \in Slot, NEW t \in Token, RevokeToken(s, t)
    PROVE  Kept /\ UNCHANGED handler
<1>1. PICK r : r = token[t]
  OBVIOUS
<1>2. PICK u : u = [r EXCEPT !.active = FALSE]
  OBVIOUS
<1>3. r \in TokenRow \ {NoToken} /\ token \in [Token -> TokenRow]
  BY <1>1 DEF RevokeToken, Inv, Tables
<1>4. u \in TokenRow /\ u # NoToken /\ u.device = r.device /\ u.ask = r.ask
  BY <1>2, <1>3, TokenRevoked
<1>5. token' = [token EXCEPT ![t] = u]
  BY <1>1, <1>2 DEF RevokeToken
<1>6. /\ token' \in [Token -> TokenRow]
      /\ \A q \in Token : token[q] # NoToken => token'[q] # NoToken
      /\ \A q \in Token : token'[q].ask = token[q].ask
      /\ \A q \in Token : token'[q].device = token[q].device
  BY <1>1, <1>3, <1>4, <1>5
<1>7. UNCHANGED <<ask, device, agentToken, handler, passed, failures>>
  BY DEF RevokeToken
<1> QED BY <1>6, <1>7, TokensWritten

LEMMA RequestTokenStep ==
    ASSUME EnrollmentAssumption, Inv, NEW s \in Slot, NEW a \in Ask, NEW n \in Limits,
           NEW x \in Deadline, RequestToken(s, a, n, x)
    PROVE  Kept /\ UNCHANGED handler
<1>1. PICK u : u = [status |-> "PENDING", limit |-> n, expiry |-> x, issued |-> None]
  OBVIOUS
<1>2. u \in AskRow \ {NoAsk} /\ u.issued = None
  BY <1>1, AskRows
<1>3. ask[a].issued = None
  BY DEF RequestToken, NoAsk
<1>4. ask' = [ask EXCEPT ![a] = u]
  BY <1>1 DEF RequestToken
<1>5. UNCHANGED <<token, device, agentToken, handler, passed, failures>>
  BY DEF RequestToken
<1> QED BY <1>2, <1>3, <1>4, <1>5, AskWritten

\* A handler that has read a pending or approved request.
OnAskRow(op, a) == [op |-> op, ask |-> a, token |-> None, pin |-> None, serial |-> None,
                    device |-> None]

LEMMA OnAskRows ==
    ASSUME NEW op, NEW a
    PROVE  [Quiet EXCEPT !.op = op, !.ask = a] = OnAskRow(op, a)
<1>1. PICK q : q = [Quiet EXCEPT !.op = op]
  OBVIOUS
<1>2. q = [op |-> op, ask |-> None, token |-> None, pin |-> None, serial |-> None,
           device |-> None]
  BY <1>1 DEF Quiet
<1>3. [q EXCEPT !.ask = a] = OnAskRow(op, a)
  BY <1>2 DEF OnAskRow
<1> QED BY <1>1, <1>3

LEMMA OnAskHandler ==
    ASSUME EnrollmentAssumption, Inv, NEW a \in Ask, ask[a] # NoAsk, ask'[a] # NoAsk,
           NEW op \in OnAsk, NEW h, h = OnAskRow(op, a)
    PROVE  h \in Handler /\ HandlerOK(h)' /\ h.op = op /\ h.ask = a
<1>1. h \in Handler /\ h.op = op /\ h.ask = a
  BY DEF Handler, OnAsk, OnAskRow
<1>2. h.op \notin Enrolling /\ h.op \notin {"find", "create"} /\ h.op \notin OnDevice
  BY <1>1 DEF OnAsk, Deciding, Enrolling, OnDevice
<1> QED BY <1>1, <1>2 DEF HandlerOK

LEMMA DecideStep ==
    ASSUME EnrollmentAssumption, Inv, NEW s \in Slot, NEW a \in Ask, NEW op \in Deciding,
           Decide(s, a, op)
    PROVE  Kept /\ handler' \in [Slot -> Handler] /\ HandlersOK'
<1>1. Kept
  BY NothingWritten DEF Decide
<1>2. ask[a] # NoAsk /\ ask'[a] # NoAsk /\ op \in OnAsk
  BY DEF Decide, NoAsk, OnAsk
<1>3. PICK h : h = OnAskRow(op, a)
  OBVIOUS
<1>4. h \in Handler /\ HandlerOK(h)'
  BY <1>2, <1>3, OnAskHandler
<1>5. Begin(s, h)
  BY <1>3, OnAskRows DEF Decide
<1> QED BY <1>1, <1>4, <1>5, BeginStep DEF Inv, Kept

LEMMA RevealReadStep ==
    ASSUME EnrollmentAssumption, Inv, NEW s \in Slot, NEW a \in Ask, RevealRead(s, a)
    PROVE  Kept /\ handler' \in [Slot -> Handler] /\ HandlersOK'
<1>1. Kept
  BY NothingWritten DEF RevealRead
<1>2. ask[a] # NoAsk /\ ask'[a] # NoAsk
  BY DEF RevealRead, NoAsk
<1>3. PICK op \in OnAsk : op = "reveal"
  BY DEF OnAsk
<1>4. PICK h : h = OnAskRow(op, a)
  OBVIOUS
<1>5. h \in Handler /\ HandlerOK(h)'
  BY <1>2, <1>3, <1>4, OnAskHandler
<1>6. Begin(s, h)
  BY <1>3, <1>4, OnAskRows DEF RevealRead
<1> QED BY <1>1, <1>5, <1>6, BeginStep DEF Inv, Kept

LEMMA SettleStep ==
    ASSUME EnrollmentAssumption, Inv, NEW s \in Slot, NEW op \in Deciding,
           NEW st \in {"APPROVED", "DENIED", "CANCELLED"}, Settle(s, op, st)
    PROVE  Kept /\ handler' \in [Slot -> Handler] /\ HandlersOK'
<1>1. PICK a : a = handler[s].ask
  OBVIOUS
<1>2. HandlerOK(handler[s]) /\ handler[s].op \in OnAsk
  BY DEF Inv, HandlersOK, Settle, OnAsk
<1>3. a \in Ask /\ ask[a] # NoAsk
  BY <1>1, <1>2 DEF HandlerOK
<1>4. PICK r \in AskRow \ {NoAsk} : r = ask[a]
  BY <1>3 DEF Inv, Tables
<1>5. PICK u : u = [r EXCEPT !.status = st]
  OBVIOUS
<1>6. u \in AskRow \ {NoAsk} /\ u.issued = ask[a].issued
  BY <1>4, <1>5, AskStatus
<1>7. ask' = [ask EXCEPT ![a] = u]
  BY <1>1, <1>4, <1>5 DEF Settle
<1>8. Kept
  <2>1. UNCHANGED <<token, device, agentToken, passed, failures>>
    BY DEF Settle
  <2> QED BY <1>3, <1>6, <1>7, <2>1, AskWritten
<1>9. Done(s)
  BY DEF Settle
<1> QED BY <1>8, <1>9, DoneStep DEF Inv, Kept

\* The claim links the token to its request, which had none.
LEMMA ClaimStep ==
    ASSUME EnrollmentAssumption, Inv, NEW s \in Slot, Claim(s)
    PROVE  Kept /\ handler' \in [Slot -> Handler] /\ HandlersOK'
<1>1. PICK a : a = handler[s].ask
  OBVIOUS
<1>2. HandlerOK(handler[s]) /\ handler[s].op \in OnAsk
  BY DEF Inv, HandlersOK, Claim, OnAsk
<1>3. a \in Ask /\ ask[a] # NoAsk /\ ask[a].issued = None
  BY <1>1, <1>2 DEF HandlerOK, Claim
<1>4. PICK r \in AskRow \ {NoAsk} : r = ask[a]
  BY <1>3 DEF Inv, Tables
<1>5. PICK n \in Limits, x \in Deadline : n = r.limit /\ x = r.expiry
  BY DEF AskRow, NoAsk
<1>6. PICK t \in Token : /\ token[t] = NoToken
                         /\ token' = [token EXCEPT ![t] = NewToken(n, None, x, a)]
                         /\ ask' = [ask EXCEPT ![a].issued = t]
  BY <1>1, <1>4, <1>5 DEF Claim, NextId, Inv, Tables
<1>7. PICK u : u = NewToken(n, None, x, a)
  OBVIOUS
<1>8. u \in TokenRow /\ u # NoToken /\ u.device = None /\ u.ask = a
  <2>1. None \in Device \cup {None} /\ a \in Ask \cup {None} /\ x \in Deadline \cup {None}
    BY <1>3
  <2> QED BY <1>7, <2>1, NewTokenRow
<1>9. PICK v : v = [r EXCEPT !.issued = t]
  OBVIOUS
<1>10. v \in AskRow /\ v # NoAsk /\ v.issued = t
  BY <1>9, AskIssued
<1>11. token' = [token EXCEPT ![t] = u] /\ ask' = [ask EXCEPT ![a] = v]
  BY <1>4, <1>6, <1>7, <1>9
<1>12. /\ ask' \in [Ask -> AskRow] /\ token' \in [Token -> TokenRow]
       /\ UNCHANGED <<device, agentToken, passed, failures>>
  BY <1>3, <1>8, <1>10, <1>11 DEF Inv, Tables, Claim
<1>13. Tables'
  BY <1>12 DEF Inv, Tables
<1>14. References'
  BY <1>8, <1>11, <1>12 DEF Inv, References, Present, Tables
<1>15. Grows
  BY <1>8, <1>10, <1>11, <1>12 DEF Grows, Inv, Tables
<1>16. ASSUME NEW q \in Token, token'[q].ask # None
       PROVE  ask'[token'[q].ask].issued = q
  <2>1. CASE q = t
    BY <1>3, <1>8, <1>10, <1>11, <2>1 DEF Inv, Tables
  <2>2. CASE q # t
    <3>1. PICK b : b = token[q].ask
      OBVIOUS
    <3>2. token'[q].ask = b /\ b # None /\ ask[b].issued = q
      BY <1>11, <1>16, <2>2, <3>1 DEF Inv, RevealedOnce
    <3>3. token[q] \in TokenRow /\ b \in Ask \cup {None}
      BY <3>1 DEF Inv, Tables, TokenRow, NoToken
    <3>4. b # a
      BY <1>3, <3>2, Bounds
    <3> QED BY <1>11, <3>2, <3>3, <3>4 DEF Inv, Tables
  <2> QED BY <2>1, <2>2
<1>17. RevealedOnce'
  BY <1>16 DEF RevealedOnce
<1>18. Done(s)
  BY DEF Claim
<1> QED BY <1>13, <1>14, <1>15, <1>17, <1>18, DoneStep DEF Inv, Kept

-----------------------------------------------------------------------------
(* Enrolments *)

LEMMA EnrollReadStep ==
    ASSUME EnrollmentAssumption, Inv, NEW s \in Slot, NEW t \in Token, NEW n \in Serial,
           EnrollRead(s, t, n)
    PROVE  Kept /\ handler' \in [Slot -> Handler] /\ HandlersOK'
<1>1. Kept
  BY NothingWritten DEF EnrollRead
<1>2. token[t] # NoToken /\ token' = token
  BY DEF EnrollRead, NoToken
<1>3. PICK d \in Device \cup {None} : d = token[t].device
  BY <1>2, TokenFields DEF Inv, Tables
<1>4. PICK h : h = [op |-> "find", ask |-> None, token |-> t, pin |-> d, serial |-> n,
                    device |-> None]
  OBVIOUS
<1>5. h \in Handler
  BY <1>3, <1>4 DEF Handler, Enrolling
<1>6. HandlerOK(h)'
  BY <1>2, <1>4 DEF HandlerOK, OnAsk, Deciding, OnDevice
<1>7. h = [Quiet EXCEPT !.op = "find", !.token = t, !.pin = d, !.serial = n]
  <2>1. PICK q : q = [Quiet EXCEPT !.op = "find", !.token = t]
    OBVIOUS
  <2>2. q = [op |-> "find", ask |-> None, token |-> t, pin |-> None, serial |-> None,
             device |-> None]
    BY <2>1 DEF Quiet
  <2>3. PICK p : p = [q EXCEPT !.pin = d]
    OBVIOUS
  <2>4. p = [op |-> "find", ask |-> None, token |-> t, pin |-> d, serial |-> None,
             device |-> None]
    BY <2>2, <2>3
  <2>5. h = [p EXCEPT !.serial = n]
    BY <1>4, <2>4
  <2> QED BY <2>1, <2>3, <2>5
<1>8. Begin(s, h)
  BY <1>3, <1>7 DEF EnrollRead
<1> QED BY <1>1, <1>5, <1>6, <1>8, BeginStep DEF Inv, Kept

\* The device of an enrolment is known: it was found or made.
LEMMA WithDevice ==
    ASSUME Inv, Grows, NEW s \in Slot, handler[s].op \in {"find", "create"},
           NEW d \in Device, device'[d] # NoDevice, NEW h,
           h = [handler[s] EXCEPT !.op = "revoke", !.device = d, !.serial = None]
    PROVE  h \in Handler /\ HandlerOK(h)'
<1>1. PICK g \in Handler : g = handler[s]
  BY DEF Inv
<1>2. HandlerOK(g) /\ g.op \in Enrolling
  BY <1>1 DEF Inv, HandlersOK, Enrolling
<1>3. PICK k : k = [op |-> "revoke", ask |-> g.ask, token |-> g.token, pin |-> g.pin, serial |-> None,
                    device |-> d]
  OBVIOUS
<1>4. g.ask \in Ask \cup {None} /\ g.token \in Token \cup {None} /\ g.pin \in Device \cup {None}
  BY DEF Handler
<1>5. k \in Handler
  BY <1>3, <1>4 DEF Handler, Enrolling
<1>6. k.op = "revoke" /\ k.token = g.token /\ k.device = d
  BY <1>3
<1>7. g.token \in Token /\ token'[g.token] # NoToken
  BY <1>2 DEF HandlerOK, Grows
<1>8. k.op \notin OnAsk /\ k.op \notin {"find", "create"}
  BY <1>6 DEF OnAsk, Deciding
<1>9. HandlerOK(k)'
  BY <1>6, <1>7, <1>8 DEF HandlerOK
<1>10. h = k
  <2>1. PICK q : q = [g EXCEPT !.op = "revoke"]
    OBVIOUS
  <2>2. q = [op |-> "revoke", ask |-> g.ask, token |-> g.token, pin |-> g.pin,
             serial |-> g.serial, device |-> g.device]
    BY <2>1 DEF Handler
  <2>3. PICK p : p = [q EXCEPT !.device = d]
    OBVIOUS
  <2>4. p = [op |-> "revoke", ask |-> g.ask, token |-> g.token, pin |-> g.pin,
             serial |-> g.serial, device |-> d]
    BY <2>2, <2>3
  <2>5. k = [p EXCEPT !.serial = None]
    BY <1>3, <2>4
  <2> QED BY <1>1, <2>1, <2>3, <2>5
<1> QED BY <1>5, <1>9, <1>10

LEMMA FindDeviceStep ==
    ASSUME EnrollmentAssumption, Inv, NEW s \in Slot, FindDevice(s)
    PROVE  Kept /\ handler' \in [Slot -> Handler] /\ HandlersOK'
<1>1. Kept /\ UNCHANGED device
  BY NothingWritten DEF FindDevice
<1>2. CASE Found(s) = {}
  BY <1>1, <1>2, GotoStep DEF FindDevice, Inv, Kept, Enrolling, OnDevice
<1>3. ASSUME Found(s) # {} PROVE handler' \in [Slot -> Handler] /\ HandlersOK'
  <2>1. PICK d \in Found(s) :
          handler' = [handler EXCEPT ![s].op = "revoke", ![s].device = d, ![s].serial = None]
    BY <1>3 DEF FindDevice
  <2>2. PICK h : h = [handler[s] EXCEPT !.op = "revoke", !.device = d, !.serial = None]
    OBVIOUS
  <2>3. d \in Device /\ device'[d] # NoDevice
    BY <1>1 DEF Found, Present, NoDevice
  <2>4. handler[s].op \in {"find", "create"}
    BY DEF FindDevice
  <2>5. h \in Handler /\ HandlerOK(h)'
    BY <1>1, <2>2, <2>3, <2>4, WithDevice DEF Kept
  <2>6. handler' = [handler EXCEPT ![s] = h]
    BY <2>1, <2>2 DEF Inv
  <2> QED BY <1>1, <2>5, <2>6, HandlerStep DEF Inv, Kept
<1> QED BY <1>1, <1>2, <1>3

LEMMA CreateDeviceStep ==
    ASSUME EnrollmentAssumption, Inv, NEW s \in Slot, CreateDevice(s)
    PROVE  Kept /\ handler' \in [Slot -> Handler] /\ HandlersOK'
<1>1. UNCHANGED <<ask, token, agentToken, passed, failures>> /\ handler[s].op = "create"
  BY DEF CreateDevice
<1>2. CASE Done(s) /\ UNCHANGED device
  <2>1. Kept
    BY <1>1, <1>2, NothingWritten
  <2> QED BY <1>2, <2>1, DoneStep DEF Inv, Kept
<1>3. CASE \E d \in NextId(device, NoDevice) :
             /\ device' = [device EXCEPT ![d] = [status |-> "PRESENT", serial |-> handler[s].serial]]
             /\ handler' = [handler EXCEPT ![s].op = "revoke", ![s].device = d, ![s].serial = None]
  <2>1. PICK n \in Serial : n = handler[s].serial
    BY <1>1 DEF Inv, HandlersOK, HandlerOK
  <2>2. PICK d \in Device :
          /\ device[d] = NoDevice
          /\ device' = [device EXCEPT ![d] = [status |-> "PRESENT", serial |-> n]]
          /\ handler' = [handler EXCEPT ![s].op = "revoke", ![s].device = d, ![s].serial = None]
    BY <1>3, <2>1 DEF NextId, Inv, Tables
  <2>3. PICK r \in DeviceRow \ {NoDevice} : r = [status |-> "PRESENT", serial |-> n]
    BY DeviceRows
  <2>4. /\ device' = [device EXCEPT ![d] = r] /\ device \in [Device -> DeviceRow]
        /\ r.status = "PRESENT"
    BY <2>2, <2>3 DEF Inv, Tables
  <2>5. Tables'
    BY <1>1, <2>4 DEF Inv, Tables
  <2>6. Grows /\ \A q \in Device : Present(q) => Present(q)'
    BY <1>1, <2>4 DEF Grows, Present
  <2>7. References'
    <3>1. \A t \in Token : token[t].device \in Device \cup {None}
      BY DEF Inv, Tables, TokenRow, NoToken
    <3>2. \A k \in AgentToken : agentToken[k].status \in {"LIVE", "REVOKED"} => agentToken[k].device \in Device
      BY AgentTokenRows DEF Inv, Tables
    <3>3. \A t \in Token : token'[t].device # None => Present(token[t].device)'
      BY <1>1, <2>6, <3>1 DEF Inv, References
    <3>4. \A k \in AgentToken : agentToken'[k].status \in {"LIVE", "REVOKED"} => Present(agentToken[k].device)'
      BY <1>1, <2>6, <3>2 DEF Inv, References
    <3> QED BY <1>1, <3>3, <3>4 DEF References
  <2>8. RevealedOnce'
    BY <1>1 DEF Inv, RevealedOnce
  <2>9. PICK h : h = [handler[s] EXCEPT !.op = "revoke", !.device = d, !.serial = None]
    OBVIOUS
  <2>10. device'[d] # NoDevice
    BY <2>4
  <2>11. h \in Handler /\ HandlerOK(h)'
    BY <1>1, <2>6, <2>9, <2>10, WithDevice
  <2>12. handler' = [handler EXCEPT ![s] = h]
    BY <2>2, <2>9 DEF Inv
  <2> QED BY <2>5, <2>6, <2>7, <2>8, <2>11, <2>12, HandlerStep DEF Inv, Kept
<1> QED BY <1>2, <1>3 DEF CreateDevice

\* Agent tokens are written.
LEMMA AgentTokensWritten ==
    ASSUME Inv, agentToken' \in [AgentToken -> AgentTokenRow],
           \A k \in AgentToken : agentToken'[k].status \in {"LIVE", "REVOKED"} =>
                                   Present(agentToken'[k].device),
           UNCHANGED <<ask, token, device, passed, failures>>
    PROVE  Kept
<1>1. Tables'
  BY DEF Inv, Tables
<1>2. References'
  BY DEF Inv, References, Present
<1>3. RevealedOnce' /\ Grows
  BY DEF Inv, RevealedOnce, Grows
<1> QED BY <1>1, <1>2, <1>3 DEF Kept

LEMMA RevokeAgentsStep ==
    ASSUME EnrollmentAssumption, Inv, NEW s \in Slot, RevokeAgents(s)
    PROVE  Kept /\ handler' \in [Slot -> Handler] /\ HandlersOK'
<1>1. ASSUME NEW k \in AgentToken
      PROVE  /\ agentToken'[k] \in AgentTokenRow
             /\ agentToken'[k].status \in {"LIVE", "REVOKED"} => Present(agentToken'[k].device)
  <2>1. PICK r \in AgentTokenRow : r = agentToken[k]
    BY DEF Inv, Tables
  <2>2. r.status \in {"LIVE", "REVOKED"} => Present(r.device)
    BY <2>1 DEF Inv, References
  <2>3. CASE r.status = "LIVE" /\ r.device = handler[s].device
    <3>1. PICK u : u = [r EXCEPT !.status = "REVOKED"]
      OBVIOUS
    <3>2. u \in AgentTokenRow /\ u.device = r.device
      BY <2>3, <3>1, AgentTokenRows
    <3>3. agentToken'[k] = u
      BY <2>1, <2>3, <3>1 DEF RevokeAgents
    <3> QED BY <2>2, <2>3, <3>2, <3>3
  <2>4. CASE ~(r.status = "LIVE" /\ r.device = handler[s].device)
    <3>1. agentToken'[k] = r
      BY <2>1, <2>4 DEF RevokeAgents
    <3> QED BY <2>2, <3>1
  <2> QED BY <2>3, <2>4
<1>2. agentToken' \in [AgentToken -> AgentTokenRow]
  BY <1>1 DEF RevokeAgents
<1>3. Kept
  <2>1. UNCHANGED <<ask, token, device, passed, failures>>
    BY DEF RevokeAgents
  <2> QED BY <1>1, <1>2, <2>1, AgentTokensWritten
<1>4. Goto(s, "issue") /\ handler[s].op = "revoke"
  BY DEF RevokeAgents
<1> QED BY <1>3, <1>4, OnwardStep DEF Inv, Kept

LEMMA IssueAgentStep ==
    ASSUME EnrollmentAssumption, Inv, NEW s \in Slot, IssueAgent(s)
    PROVE  Kept /\ handler' \in [Slot -> Handler] /\ HandlersOK'
<1>1. UNCHANGED <<ask, token, device, passed, failures>> /\ handler[s].op = "issue"
  BY DEF IssueAgent
<1>2. CASE ~Present(handler[s].device)
  <2>1. Done(s) /\ UNCHANGED agentToken
    BY <1>2 DEF IssueAgent
  <2>2. Kept
    BY <1>1, <2>1, NothingWritten
  <2> QED BY <2>1, <2>2, DoneStep DEF Inv, Kept
<1>3. CASE Present(handler[s].device)
  <2>1. PICK d \in Device : d = handler[s].device
    BY <1>1 DEF Inv, HandlersOK, HandlerOK, OnDevice
  <2>2. PICK k \in AgentToken :
          agentToken' = [agentToken EXCEPT ![k] = [status |-> "LIVE", device |-> d]]
    BY <1>3, <2>1 DEF IssueAgent, NextId, Inv, Tables
  <2>3. PICK r \in AgentTokenRow : r = [status |-> "LIVE", device |-> d]
    BY AgentTokenRows
  <2>4. agentToken' = [agentToken EXCEPT ![k] = r] /\ r.device = d /\ Present(d)
    BY <1>3, <2>1, <2>2, <2>3
  <2>5. agentToken' \in [AgentToken -> AgentTokenRow]
    BY <2>4 DEF Inv, Tables
  <2>6. \A q \in AgentToken : agentToken'[q].status \in {"LIVE", "REVOKED"} =>
                                Present(agentToken'[q].device)
    BY <2>4 DEF Inv, Tables, References
  <2>7. Kept
    BY <1>1, <2>5, <2>6, AgentTokensWritten
  <2>8. Goto(s, "record")
    BY <1>3 DEF IssueAgent
  <2> QED BY <1>1, <2>7, <2>8, OnwardStep DEF Inv, Kept
<1> QED BY <1>2, <1>3

LEMMA RecordEnrolmentStep ==
    ASSUME EnrollmentAssumption, Inv, NEW s \in Slot, RecordEnrolment(s)
    PROVE  Kept /\ handler' \in [Slot -> Handler] /\ HandlersOK'
<1>1. Kept /\ handler[s].op = "record"
  BY NothingWritten DEF RecordEnrolment
<1>2. CASE Goto(s, "count")
  BY <1>1, <1>2, OnwardStep DEF Inv, Kept
<1>3. CASE Done(s)
  BY <1>1, <1>3, DoneStep DEF Inv, Kept
<1> QED BY <1>2, <1>3 DEF RecordEnrolment

LEMMA CountUseStep ==
    ASSUME EnrollmentAssumption, Inv, NEW s \in Slot, CountUse(s)
    PROVE  Kept /\ handler' \in [Slot -> Handler] /\ HandlersOK'
<1>1. UNCHANGED <<ask, device, agentToken, passed, failures>> /\ handler[s].op = "count" /\ Done(s)
  BY DEF CountUse
<1>2. CASE UNCHANGED token
  <2>1. Kept
    BY <1>1, <1>2, NothingWritten
  <2> QED BY <1>1, <2>1, DoneStep DEF Inv, Kept
<1>3. CASE ~UNCHANGED token
  <2>1. HandlerOK(handler[s]) /\ handler[s].op \in Enrolling \cap OnDevice
    BY <1>1 DEF Inv, HandlersOK, Enrolling, OnDevice
  <2>2. PICK t \in Token : t = handler[s].token /\ token[t] # NoToken
    BY <2>1 DEF HandlerOK
  <2>3. PICK r \in TokenRow \ {NoToken} : r = token[t]
    BY <2>2 DEF Inv, Tables
  <2>4. PICK d \in Device \cup {None} :
          /\ d = r.device \/ Present(d)
          /\ token' = [token EXCEPT ![t].uses = @ + 1, ![t].device = d]
    <3> DEFINE pins == handler[s].pin = None /\ token[t].limit = 1
    <3>1. CASE pins /\ Present(handler[s].device)
      <4>1. handler[s].device \in Device
        BY <2>1 DEF HandlerOK
      <4>2. token' = [token EXCEPT ![t].uses = @ + 1, ![t].device = handler[s].device]
        BY <2>2, <3>1 DEF CountUse
      <4> QED BY <3>1, <4>1, <4>2
    <3>2. CASE pins /\ ~Present(handler[s].device)
      BY <1>3, <2>2, <3>2 DEF CountUse
    <3>3. CASE ~pins
      <4>1. token' = [token EXCEPT ![t].uses = @ + 1, ![t].device = @]
        BY <2>2, <3>3 DEF CountUse
      <4>2. PICK d : d = r.device
        OBVIOUS
      <4>3. d \in Device \cup {None}
        BY <4>2, TokenFields
      <4>4. token' = [token EXCEPT ![t].uses = @ + 1, ![t].device = d]
        BY <2>3, <4>1, <4>2 DEF Inv, Tables, TokenRow, NoToken
      <4> QED BY <4>2, <4>3, <4>4
    <3> QED BY <3>1, <3>2, <3>3
  <2>5. PICK v : v = [r EXCEPT !.uses = @ + 1]
    OBVIOUS
  <2>6. PICK u : u = [v EXCEPT !.device = d]
    OBVIOUS
  <2>7. u \in TokenRow /\ u # NoToken /\ u.device = d /\ u.ask = r.ask
    <3>1. v \in TokenRow /\ v # NoToken /\ v.ask = r.ask
      BY <2>3, <2>5, TokenCounted
    <3>2. u \in TokenRow /\ u # NoToken /\ u.device = d /\ u.ask = v.ask
      BY <2>4, <2>6, <3>1, TokenPinned
    <3> QED BY <3>1, <3>2
  <2>8. token' = [token EXCEPT ![t] = u] /\ token \in [Token -> TokenRow]
    BY <2>3, <2>4, <2>5, <2>6 DEF Inv, Tables
  <2>9. /\ token' \in [Token -> TokenRow]
        /\ \A q \in Token : token[q] # NoToken => token'[q] # NoToken
        /\ \A q \in Token : token'[q].ask = token[q].ask
    BY <2>3, <2>7, <2>8
  <2>10. token'[t].device = token[t].device \/ Present(token'[t].device)
    BY <2>3, <2>4, <2>7, <2>8
  <2>11. \A q \in Token : token'[q].device = token[q].device
                             \/ token'[q].device = None \/ Present(token'[q].device)
    BY <2>8, <2>10
  <2>12. Kept
    BY <1>1, <2>9, <2>11, TokensWritten
  <2> QED BY <1>1, <2>12, DoneStep DEF Inv, Kept
<1> QED BY <1>2, <1>3

-----------------------------------------------------------------------------
(* Deletions, deadlines and failures *)

LEMMA UnpinnedRows ==
    ASSUME EnrollmentAssumption, Inv, NEW d \in Device
    PROVE  /\ Unpinned(d) \in [Token -> TokenRow]
           /\ \A t \in Token : /\ token[t] # NoToken => Unpinned(d)[t] # NoToken
                               /\ Unpinned(d)[t].ask = token[t].ask
                               /\ Unpinned(d)[t].uses = token[t].uses
                               /\ Unpinned(d)[t].limit = token[t].limit
                               /\ \/ Unpinned(d)[t].device = None
                                  \/ token[t].device # d /\ Unpinned(d)[t].device = token[t].device
<1>1. ASSUME NEW t \in Token
      PROVE  /\ Unpinned(d)[t] \in TokenRow
             /\ token[t] # NoToken => Unpinned(d)[t] # NoToken
             /\ Unpinned(d)[t].ask = token[t].ask
             /\ Unpinned(d)[t].uses = token[t].uses
             /\ Unpinned(d)[t].limit = token[t].limit
             /\ \/ Unpinned(d)[t].device = None
                \/ token[t].device # d /\ Unpinned(d)[t].device = token[t].device
  <2>1. PICK r \in TokenRow : r = token[t]
    BY DEF Inv, Tables
  <2>2. CASE r.device = d
    <3>1. r \in TokenRow \ {NoToken}
      BY <2>1, <2>2, Bounds DEF NoToken
    <3>2. PICK u : u = [r EXCEPT !.device = None]
      OBVIOUS
    <3>3. /\ u \in TokenRow /\ u # NoToken /\ u.device = None /\ u.ask = r.ask
          /\ u.uses = r.uses /\ u.limit = r.limit
      BY <3>1, <3>2, TokenPinned
    <3>4. Unpinned(d)[t] = u
      BY <2>1, <2>2, <3>2 DEF Unpinned
    <3> QED BY <2>1, <3>3, <3>4
  <2>3. CASE r.device # d
    <3>1. Unpinned(d)[t] = r
      BY <2>1, <2>3 DEF Unpinned
    <3> QED BY <2>1, <2>3, <3>1
  <2> QED BY <2>2, <2>3
<1>2. Unpinned(d) = [t \in Token |-> Unpinned(d)[t]]
  BY DEF Unpinned
<1> QED BY <1>1, <1>2

LEMMA UnpinTokensStep ==
    ASSUME EnrollmentAssumption, Inv, NEW s \in Slot, NEW d \in Device, UnpinTokens(s, d)
    PROVE  Kept /\ handler' \in [Slot -> Handler] /\ HandlersOK'
<1>1. PICK T : T = Unpinned(d)
  OBVIOUS
<1>2. /\ T \in [Token -> TokenRow]
      /\ \A t \in Token : /\ token[t] # NoToken => T[t] # NoToken
                          /\ T[t].ask = token[t].ask
                          /\ T[t].device = token[t].device \/ T[t].device = None
  BY <1>1, UnpinnedRows
<1>3. token' = T /\ UNCHANGED <<ask, device, agentToken, passed, failures>>
  BY <1>1 DEF UnpinTokens
<1>4. Kept
  BY <1>2, <1>3, TokensWritten
<1>5. PICK h : h = [op |-> "delete", ask |-> None, token |-> None, pin |-> None, serial |-> None,
                    device |-> d]
  OBVIOUS
<1>6. h \in Handler
  BY <1>5 DEF Handler
<1>7. device'[d] # NoDevice
  BY <1>3 DEF UnpinTokens, Present, NoDevice
<1>8. HandlerOK(h)'
  BY <1>5, <1>7 DEF HandlerOK, OnAsk, Deciding, Enrolling
<1>9. h = [Quiet EXCEPT !.op = "delete", !.device = d]
  <2>1. PICK q : q = [Quiet EXCEPT !.op = "delete"]
    OBVIOUS
  <2>2. q = [op |-> "delete", ask |-> None, token |-> None, pin |-> None, serial |-> None,
             device |-> None]
    BY <2>1 DEF Quiet
  <2>3. h = [q EXCEPT !.device = d]
    BY <1>5, <2>2
  <2> QED BY <2>1, <2>3
<1>10. Begin(s, h)
  BY <1>9 DEF UnpinTokens
<1> QED BY <1>4, <1>6, <1>8, <1>10, BeginStep DEF Inv, Kept

LEMMA DeleteDeviceStep ==
    ASSUME EnrollmentAssumption, Inv, NEW s \in Slot, DeleteDevice(s)
    PROVE  Kept /\ handler' \in [Slot -> Handler] /\ HandlersOK'
<1>1. PICK d \in Device : d = handler[s].device /\ device[d] # NoDevice
  BY DEF DeleteDevice, Inv, HandlersOK, HandlerOK, OnDevice
<1>2. PICK r \in DeviceRow \ {NoDevice} : r = device[d]
  BY <1>1 DEF Inv, Tables
<1>3. PICK u : u = [r EXCEPT !.status = "DELETED"]
  OBVIOUS
<1>4. u \in DeviceRow /\ u # NoDevice
  BY <1>2, <1>3, DeviceRows
<1>5. device' = [device EXCEPT ![d] = u]
  BY <1>1, <1>2, <1>3 DEF DeleteDevice
<1>6. /\ device' \in [Device -> DeviceRow]
      /\ \A q \in Device : device[q] # NoDevice => device'[q] # NoDevice
      /\ \A q \in Device : q # d /\ Present(q) => Present(q)'
  BY <1>4, <1>5 DEF Inv, Tables, Present
<1>7. PICK T : T = Unpinned(d)
  OBVIOUS
<1>8. /\ T \in [Token -> TokenRow]
      /\ \A t \in Token : /\ token[t] # NoToken => T[t] # NoToken
                          /\ T[t].ask = token[t].ask
                          /\ \/ T[t].device = None
                             \/ token[t].device # d /\ T[t].device = token[t].device
  BY <1>7, UnpinnedRows
<1>9. token' = T /\ UNCHANGED <<ask, passed, failures>> /\ Done(s)
  BY <1>1, <1>7 DEF DeleteDevice
<1>10. ASSUME NEW k \in AgentToken
       PROVE  /\ agentToken'[k] \in AgentTokenRow
              /\ agentToken'[k].status \in {"LIVE", "REVOKED"} => device'[agentToken'[k].device].status = "PRESENT"
  <2>1. PICK a \in AgentTokenRow : a = agentToken[k]
    BY DEF Inv, Tables
  <2>2. CASE a.device = d
    <3>1. agentToken'[k] = [status |-> "DELETED", device |-> None]
      BY <1>1, <2>1, <2>2 DEF DeleteDevice
    <3> QED BY <3>1, AgentTokenRows
  <2>3. CASE a.device # d
    <3>1. agentToken'[k] = a
      BY <1>1, <2>1, <2>3 DEF DeleteDevice
    <3>2. a.status \in {"LIVE", "REVOKED"} => a.device \in Device /\ Present(a.device)
      BY <2>1, AgentTokenRows DEF Inv, References
    <3>3. a.status \in {"LIVE", "REVOKED"} => Present(a.device)'
      BY <1>6, <2>3, <3>2
    <3> QED BY <3>1, <3>3 DEF Present
  <2> QED BY <2>2, <2>3
<1>11. Tables'
  <2>1. agentToken' \in [AgentToken -> AgentTokenRow]
    BY <1>10 DEF DeleteDevice
  <2> QED BY <1>6, <1>8, <1>9, <2>1 DEF Inv, Tables
<1>12. References'
  <2>1. ASSUME NEW t \in Token, token'[t].device # None
        PROVE  device'[token'[t].device].status = "PRESENT"
    <3>1. PICK q : q = token[t].device
      OBVIOUS
    <3>2. token'[t].device = q /\ q # d /\ q # None
      BY <1>8, <1>9, <2>1, <3>1
    <3>3. q \in Device /\ Present(q)
      BY <3>1, <3>2 DEF Inv, Tables, TokenRow, NoToken, References
    <3>4. Present(q)'
      BY <1>6, <3>2, <3>3
    <3> QED BY <3>2, <3>4 DEF Present
  <2>2. \A k \in AgentToken : agentToken'[k].status \in {"LIVE", "REVOKED"} =>
                                device'[agentToken'[k].device].status = "PRESENT"
    BY <1>10
  <2> QED BY <2>1, <2>2 DEF References, Present
<1>13. RevealedOnce' /\ Grows
  BY <1>6, <1>8, <1>9 DEF Inv, RevealedOnce, Grows
<1> QED BY <1>9, <1>11, <1>12, <1>13, DoneStep DEF Inv, Kept

LEMMA ClaimFailsStep ==
    ASSUME Inv, NEW s \in Slot, ClaimFails(s)
    PROVE  Kept /\ handler' \in [Slot -> Handler] /\ HandlersOK'
<1>1. Kept /\ Done(s)
  BY NothingWritten DEF ClaimFails
<1> QED BY <1>1, DoneStep DEF Inv, Kept

LEMMA PassStep ==
    ASSUME Inv, NEW x \in Deadline, Pass(x)
    PROVE  Kept /\ UNCHANGED handler
BY DEF Pass, Inv, Kept, Tables, References, RevealedOnce, Grows, Present

LEMMA HandlerFailsStep ==
    ASSUME EnrollmentAssumption, Inv, NEW s \in Slot, HandlerFails(s)
    PROVE  Kept /\ handler' \in [Slot -> Handler] /\ HandlersOK'
<1>1. failures' \in 0 .. MaxFailures
  BY DEF HandlerFails, Inv, Tables, EnrollmentAssumption
<1>2. Kept
  BY <1>1 DEF HandlerFails, Inv, Kept, Tables, References, RevealedOnce, Grows, Present
<1>3. Done(s)
  BY DEF HandlerFails
<1> QED BY <1>2, <1>3, DoneStep DEF Inv, Kept

-----------------------------------------------------------------------------
(* Invariance *)

LEMMA InitInv == EnrollmentAssumption /\ EnrollmentInit => Inv
<1> SUFFICES ASSUME EnrollmentAssumption, EnrollmentInit PROVE Inv
  OBVIOUS
<1>1. Tables
  BY AskRows, TokenRows, AgentTokenRows DEF EnrollmentInit, Tables, DeviceRow, EnrollmentAssumption
<1>2. References
  BY DEF EnrollmentInit, References, NoToken, NoAgentToken
<1>3. RevealedOnce
  BY DEF EnrollmentInit, RevealedOnce, NoToken
<1>4. handler \in [Slot -> Handler] /\ \A s \in Slot : handler[s] = Quiet
  BY QuietHandler DEF EnrollmentInit
<1>5. HandlersOK
  BY <1>4, QuietHandler DEF HandlersOK, HandlerOK, OnAsk, OnDevice, Enrolling, Deciding
<1> QED BY <1>1, <1>2, <1>3, <1>4, <1>5 DEF Inv

LEMMA AdminStep ==
    ASSUME EnrollmentAssumption, Inv, NEW s \in Slot, Admin(s)
    PROVE  Inv'
<1>1. SUFFICES Kept /\ (UNCHANGED handler \/ (handler' \in [Slot -> Handler] /\ HandlersOK'))
  BY HandlersStay DEF Kept, Inv
<1>2. CASE \E n \in Limits, d \in Device \cup {None}, x \in Expiry : CreateToken(s, n, d, x)
  BY <1>2, CreateTokenStep
<1>3. CASE \E t \in Token : RevokeToken(s, t)
  BY <1>3, RevokeTokenStep
<1>4. CASE \E a \in Ask, n \in Limits, x \in Deadline : RequestToken(s, a, n, x)
  BY <1>4, RequestTokenStep
<1>5. ASSUME NEW a \in Ask, ApproveRead(s, a) \/ DenyRead(s, a) \/ CancelRead(s, a)
      PROVE  Kept /\ handler' \in [Slot -> Handler] /\ HandlersOK'
  <2>1. PICK op \in Deciding : Decide(s, a, op)
    BY <1>5 DEF ApproveRead, DenyRead, CancelRead, Deciding
  <2> QED BY <2>1, DecideStep
<1>6. CASE \E a \in Ask : RevealRead(s, a)
  BY <1>6, RevealReadStep
<1>7. CASE ApproveWrite(s) \/ DenyWrite(s) \/ CancelWrite(s)
  <2>1. PICK op \in Deciding, st \in {"APPROVED", "DENIED", "CANCELLED"} : Settle(s, op, st)
    BY <1>7 DEF ApproveWrite, DenyWrite, CancelWrite, Deciding
  <2> QED BY <2>1, SettleStep
<1>8. CASE Claim(s)
  BY <1>8, ClaimStep
<1>9. CASE ClaimFails(s)
  BY <1>9, ClaimFailsStep
<1>10. CASE \E d \in Device : UnpinTokens(s, d)
  BY <1>10, UnpinTokensStep
<1>11. CASE DeleteDevice(s)
  BY <1>11, DeleteDeviceStep
<1> QED BY <1>2, <1>3, <1>4, <1>5, <1>6, <1>7, <1>8, <1>9, <1>10, <1>11 DEF Admin

LEMMA MachineStep ==
    ASSUME EnrollmentAssumption, Inv, NEW s \in Slot, Machine(s)
    PROVE  Inv'
<1>1. SUFFICES Kept /\ handler' \in [Slot -> Handler] /\ HandlersOK'
  BY DEF Kept, Inv
<1>2. CASE \E t \in Token, n \in Serial : EnrollRead(s, t, n)
  BY <1>2, EnrollReadStep
<1>3. CASE FindDevice(s) \/ CreateDevice(s)
  BY <1>3, FindDeviceStep, CreateDeviceStep
<1>4. CASE RevokeAgents(s) \/ IssueAgent(s)
  BY <1>4, RevokeAgentsStep, IssueAgentStep
<1>5. CASE RecordEnrolment(s) \/ CountUse(s)
  BY <1>5, RecordEnrolmentStep, CountUseStep
<1> QED BY <1>2, <1>3, <1>4, <1>5 DEF Machine

LEMMA InvStep == EnrollmentAssumption /\ Inv /\ [Next]_enrollmentVars => Inv'
<1> SUFFICES ASSUME EnrollmentAssumption, Inv, [Next]_enrollmentVars PROVE Inv'
  OBVIOUS
<1>1. CASE \E s \in Slot : Admin(s)
  BY <1>1, AdminStep
<1>2. CASE \E s \in Slot : Machine(s)
  BY <1>2, MachineStep
<1>3. CASE \E s \in Slot : HandlerFails(s)
  BY <1>3, HandlerFailsStep DEF Kept, Inv
<1>4. CASE \E x \in Deadline : Pass(x)
  <2>1. Kept /\ UNCHANGED handler
    BY <1>4, PassStep
  <2> QED BY <2>1, HandlersStay DEF Kept, Inv
<1>5. CASE UNCHANGED enrollmentVars
  <2>1. Kept /\ UNCHANGED handler
    BY <1>5, NothingWritten DEF enrollmentVars
  <2> QED BY <2>1, HandlersStay DEF Kept, Inv
<1> QED BY <1>1, <1>2, <1>3, <1>4, <1>5 DEF Next

\* The rows are well formed, a token is pinned only to a device that is there,
\* and the agent tokens of a deleted device are gone: deletions may overlap
\* enrolments as they will.
THEOREM EnrollmentTypeCorrect == Spec => []EnrollmentTypeOK
<1>1. EnrollmentInit => Inv
  BY EnrollmentAssumption, InitInv
<1>2. Inv /\ [Next]_enrollmentVars => Inv'
  BY EnrollmentAssumption, InvStep
<1>3. Inv => EnrollmentTypeOK
  BY EnrollmentAssumption, InvImplies
<1> QED BY <1>1, <1>2, <1>3, PTL DEF Spec

\* However many callers reveal an approved request at once, it makes one token:
\* two tokens of the same request would both be the one its row names.
THEOREM RevealedExactlyOnce == Spec => []RevealedOnce
<1>1. EnrollmentInit => Inv
  BY EnrollmentAssumption, InitInv
<1>2. Inv /\ [Next]_enrollmentVars => Inv'
  BY EnrollmentAssumption, InvStep
<1>3. Inv => RevealedOnce
  BY DEF Inv
<1> QED BY <1>1, <1>2, <1>3, PTL DEF Spec

-----------------------------------------------------------------------------
(* Decisions *)

\* A step that decides no request, and after which the handlers that moved are
\* not deciding one that was decided already.
LEMMA DecidedKept ==
    ASSUME DecidedOnce, \A a \in Ask : Decided(a)' => Decided(a),
           \A q \in Slot : \/ handler'[q] = handler[q]
                           \/ handler'[q].op \notin Deciding
                           \/ ~Decided(handler'[q].ask)
    PROVE  DecidedOnce'
<1> SUFFICES ASSUME NEW a \in Ask, Decided(a)'
             PROVE  \E q \in Slot : ~(handler'[q].op \in Deciding /\ handler'[q].ask = a)
  BY DEF DecidedOnce
<1>1. Decided(a)
  OBVIOUS
<1>2. PICK q \in Slot : ~(handler[q].op \in Deciding /\ handler[q].ask = a)
  BY <1>1 DEF DecidedOnce
<1>3. ~(handler'[q].op \in Deciding /\ handler'[q].ask = a)
  BY <1>1, <1>2
<1> QED BY <1>3

\* A handler that moves does not decide, or decides on a pending request.
Harmless == \A q \in Slot : \/ handler'[q] = handler[q]
                            \/ handler'[q].op \notin Deciding
                            \/ ~Decided(handler'[q].ask)

LEMMA DoneHarmless ==
    ASSUME Inv, NEW s \in Slot, Done(s)
    PROVE  Harmless
BY QuietHandler DEF Inv, Done, Harmless, Deciding

LEMMA MoveHarmless ==
    ASSUME Inv, NEW s \in Slot, NEW h, handler' = [handler EXCEPT ![s] = h],
           h.op \notin Deciding \/ ~Decided(h.ask)
    PROVE  Harmless
BY DEF Inv, Harmless

LEMMA GotoHarmless ==
    ASSUME Inv, NEW s \in Slot, NEW op, op \in Enrolling, Goto(s, op)
    PROVE  Harmless
<1>1. PICK h : h = [handler[s] EXCEPT !.op = op]
  OBVIOUS
<1>2. h.op = op
  BY <1>1 DEF Inv, Handler
<1>3. h.op \notin Deciding
  BY <1>2 DEF Enrolling, Deciding
<1>4. handler' = [handler EXCEPT ![s] = h]
  BY <1>1 DEF Goto
<1> QED BY <1>3, <1>4, MoveHarmless

LEMMA AdminDecided ==
    ASSUME EnrollmentAssumption, Inv, DecidedOnce, NEW s \in Slot, Admin(s)
    PROVE  DecidedOnce'
<1>1. ASSUME UNCHANGED <<ask, handler>> PROVE DecidedOnce'
  BY <1>1 DEF DecidedOnce, Decided
<1>2. ASSUME UNCHANGED ask, Harmless PROVE DecidedOnce'
  BY <1>2, DecidedKept DEF Harmless, Decided
<1>3. CASE \E n \in Limits, d \in Device \cup {None}, x \in Expiry : CreateToken(s, n, d, x)
  BY <1>1, <1>3 DEF CreateToken
<1>4. CASE \E t \in Token : RevokeToken(s, t)
  BY <1>1, <1>4 DEF RevokeToken
<1>5. ASSUME NEW a \in Ask, NEW n \in Limits, NEW x \in Deadline, RequestToken(s, a, n, x)
      PROVE  DecidedOnce'
  <2>1. ask'[a].status = "PENDING" /\ \A b \in Ask : b # a => ask'[b] = ask[b]
    BY <1>5 DEF RequestToken, Inv, Tables
  <2>2. \A b \in Ask : Decided(b)' => Decided(b)
    BY <2>1 DEF Decided
  <2>3. UNCHANGED handler
    BY <1>5 DEF RequestToken
  <2> QED BY <2>2, <2>3, DecidedKept
<1>6. ASSUME NEW a \in Ask, ApproveRead(s, a) \/ DenyRead(s, a) \/ CancelRead(s, a)
      PROVE  DecidedOnce'
  <2>1. PICK op \in Deciding : Decide(s, a, op)
    BY <1>6 DEF ApproveRead, DenyRead, CancelRead, Deciding
  <2>2. PICK h : h = [Quiet EXCEPT !.op = op, !.ask = a]
    OBVIOUS
  <2>3. h.ask = a /\ ~Decided(a)
    BY <2>1, <2>2 DEF Quiet, Decide, Decided
  <2>4. handler' = [handler EXCEPT ![s] = h] /\ UNCHANGED ask
    BY <2>1, <2>2 DEF Decide, Begin
  <2> QED BY <1>2, <2>3, <2>4, MoveHarmless
<1>7. ASSUME NEW a \in Ask, RevealRead(s, a) PROVE DecidedOnce'
  <2>1. PICK h : h = [Quiet EXCEPT !.op = "reveal", !.ask = a]
    OBVIOUS
  <2>2. h.op \notin Deciding
    BY <2>1 DEF Quiet, Deciding
  <2>3. handler' = [handler EXCEPT ![s] = h] /\ UNCHANGED ask
    BY <1>7, <2>1 DEF RevealRead, Begin
  <2> QED BY <1>2, <2>2, <2>3, MoveHarmless
<1>8. CASE ApproveWrite(s) \/ DenyWrite(s) \/ CancelWrite(s)
  <2>1. PICK op \in Deciding, st \in {"APPROVED", "DENIED", "CANCELLED"} : Settle(s, op, st)
    BY <1>8 DEF ApproveWrite, DenyWrite, CancelWrite, Deciding
  <2>2. handler'[s] = Quiet
    BY <2>1 DEF Settle, Done, Inv
  <2>3. \A b \in Ask : ~(handler'[s].op \in Deciding /\ handler'[s].ask = b)
    BY <2>2, QuietHandler DEF Deciding
  <2> QED BY <2>3 DEF DecidedOnce
<1>9. CASE Claim(s)
  <2>1. PICK a : a = handler[s].ask
    OBVIOUS
  <2>2. PICK t : ask' = [ask EXCEPT ![a].issued = t]
    BY <1>9, <2>1 DEF Claim
  <2>3. ASSUME NEW b \in Ask PROVE Decided(b)' => Decided(b)
    <3>1. PICK r \in AskRow : r = ask[b]
      BY DEF Inv, Tables
    <3>2. PICK u : u = [r EXCEPT !.issued = t]
      OBVIOUS
    <3>3. u.status = r.status
      BY <3>2 DEF AskRow, NoAsk
    <3>4. ask'[b] = u \/ ask'[b] = r
      BY <2>2, <3>1, <3>2 DEF Inv, Tables
    <3> QED BY <3>1, <3>3, <3>4 DEF Decided
  <2>4. Harmless
    BY <1>9, DoneHarmless DEF Claim
  <2> QED BY <2>3, <2>4, DecidedKept DEF Harmless
<1>10. CASE ClaimFails(s) \/ DeleteDevice(s)
  BY <1>2, <1>10, DoneHarmless DEF ClaimFails, DeleteDevice
<1>11. ASSUME NEW d \in Device, UnpinTokens(s, d) PROVE DecidedOnce'
  <2>1. PICK h : h = [Quiet EXCEPT !.op = "delete", !.device = d]
    OBVIOUS
  <2>2. h.op \notin Deciding
    BY <2>1 DEF Quiet, Deciding
  <2>3. handler' = [handler EXCEPT ![s] = h] /\ UNCHANGED ask
    BY <1>11, <2>1 DEF UnpinTokens, Begin
  <2> QED BY <1>2, <2>2, <2>3, MoveHarmless
<1> QED BY <1>3, <1>4, <1>5, <1>6, <1>7, <1>8, <1>9, <1>10, <1>11 DEF Admin

LEMMA MachineDecided ==
    ASSUME EnrollmentAssumption, Inv, DecidedOnce, NEW s \in Slot, Machine(s)
    PROVE  DecidedOnce'
<1>1. SUFFICES UNCHANGED ask /\ Harmless
  BY DecidedKept DEF Harmless, Decided
<1>2. UNCHANGED ask
  BY DEF Machine, EnrollRead, FindDevice, CreateDevice, RevokeAgents, IssueAgent,
         RecordEnrolment, CountUse
<1>3. ASSUME NEW t \in Token, NEW n \in Serial, EnrollRead(s, t, n) PROVE Harmless
  <2>1. PICK d : d = token[t].device
    OBVIOUS
  <2>2. PICK q : q = [Quiet EXCEPT !.op = "find", !.token = t]
    OBVIOUS
  <2>3. q = [op |-> "find", ask |-> None, token |-> t, pin |-> None, serial |-> None,
             device |-> None]
    BY <2>2 DEF Quiet
  <2>4. PICK h : h = [q EXCEPT !.pin = d, !.serial = n]
    OBVIOUS
  <2>5. h.op = "find"
    BY <2>3, <2>4
  <2>6. handler' = [handler EXCEPT ![s] = h]
    BY <1>3, <2>1, <2>2, <2>4 DEF EnrollRead, Begin
  <2>7. h.op \notin Deciding
    BY <2>5 DEF Deciding
  <2> QED BY <2>6, <2>7, MoveHarmless
<1>4. ASSUME NEW d,
             handler' = [handler EXCEPT ![s].op = "revoke", ![s].device = d, ![s].serial = None]
      PROVE  Harmless
  <2>1. PICK h : h = [handler[s] EXCEPT !.op = "revoke", !.device = d, !.serial = None]
    OBVIOUS
  <2>2. h.op = "revoke"
    BY <2>1 DEF Inv, Handler
  <2>3. handler' = [handler EXCEPT ![s] = h]
    BY <1>4, <2>1 DEF Inv
  <2>4. h.op \notin Deciding
    BY <2>2 DEF Deciding
  <2> QED BY <2>3, <2>4, MoveHarmless
<1>5. ASSUME FindDevice(s) PROVE Harmless
  <2>1. Goto(s, "create") \/ \E d \in Found(s) :
          handler' = [handler EXCEPT ![s].op = "revoke", ![s].device = d, ![s].serial = None]
    BY <1>5 DEF FindDevice
  <2> QED BY <1>4, <2>1, GotoHarmless DEF Enrolling
<1>6. ASSUME CreateDevice(s) PROVE Harmless
  <2>1. Done(s) \/ \E d \in NextId(device, NoDevice) :
          handler' = [handler EXCEPT ![s].op = "revoke", ![s].device = d, ![s].serial = None]
    BY <1>6 DEF CreateDevice
  <2> QED BY <1>4, <2>1, DoneHarmless
<1>7. ASSUME RevokeAgents(s) \/ IssueAgent(s) \/ RecordEnrolment(s) \/ CountUse(s)
      PROVE  Harmless
  <2>1. Done(s) \/ Goto(s, "issue") \/ Goto(s, "record") \/ Goto(s, "count")
    BY <1>7 DEF RevokeAgents, IssueAgent, RecordEnrolment, CountUse
  <2> QED BY <2>1, DoneHarmless, GotoHarmless DEF Enrolling
<1> QED BY <1>2, <1>3, <1>5, <1>6, <1>7 DEF Machine

LEMMA DecidedStep ==
    ASSUME EnrollmentAssumption, Inv, DecidedOnce, [Next]_enrollmentVars
    PROVE  DecidedOnce'
<1>1. CASE \E s \in Slot : Admin(s)
  BY <1>1, AdminDecided
<1>2. CASE \E s \in Slot : Machine(s)
  BY <1>2, MachineDecided
<1>3. ASSUME NEW s \in Slot, HandlerFails(s) PROVE DecidedOnce'
  <2>1. Harmless /\ UNCHANGED ask
    BY <1>3, DoneHarmless DEF HandlerFails
  <2> QED BY <2>1, DecidedKept DEF Harmless, Decided
<1>4. CASE \E x \in Deadline : Pass(x)
  BY <1>4 DEF Pass, DecidedOnce, Decided
<1>5. CASE UNCHANGED enrollmentVars
  BY <1>5 DEF enrollmentVars, DecidedOnce, Decided
<1> QED BY <1>1, <1>2, <1>3, <1>4, <1>5 DEF Next

\* However many admins work at once, a decided request is decided anew only by
\* handlers that had read it while it was pending.
THEOREM DecidedOnceOrAtOnce == Spec => []DecidedOnce
<1>1. EnrollmentInit => Inv /\ DecidedOnce
  BY EnrollmentAssumption, InitInv DEF EnrollmentInit, DecidedOnce, Decided, NoAsk
<1>2. Inv /\ DecidedOnce /\ [Next]_enrollmentVars => Inv' /\ DecidedOnce'
  BY EnrollmentAssumption, InvStep, DecidedStep
<1> QED BY <1>1, <1>2, PTL DEF Spec
-----------------------------------------------------------------------------
(* Uses and agent tokens, counted *)

\* The handlers of an enrolment with token t that have not counted it; those
\* about to issue an agent token of device d; and those that have issued one.
Pending(t) == {s \in Slot : handler[s].op \in Enrolling /\ handler[s].token = t}
Issuing(d) == {s \in Slot : handler[s].op = "issue" /\ handler[s].device = d}
Counting(d) == {s \in Slot : handler[s].op \in {"record", "count"} /\ handler[s].device = d}

\* All of those, on devices that are there, and the agent tokens of a device.
Uncounted == {s \in Slot : /\ handler[s].op \in {"record", "count"}
                           /\ Present(handler[s].device)}
IssuedFor(d) == {k \in Issued : agentToken[k].device = d}

\* An enrolment under way has a use of its token coming.
Charged ==
    \A t \in Token : token[t].uses + Cardinality(Pending(t)) <= token[t].limit + Cardinality(Slot) - 1

\* A handler that has issued an agent token finds it, as long as the device is
\* there; the token counts as a use, a use to come or a failure.
Owned == \A d \in Device : Present(d) => Cardinality(Counting(d)) <= Cardinality(IssuedFor(d))
Tallied ==
    /\ IsFiniteSet(Used)
    /\ Cardinality(Issued) <= Cardinality(Used) + Cardinality(Uncounted) + failures

\* A handler that is about to issue an agent token has revoked all before.
Bounded ==
    \A d \in Device : Cardinality(LiveTokens(d)) + Cardinality(Issuing(d)) <= Cardinality(Slot)

CountInv == Charged /\ Owned /\ Tallied /\ Bounded /\ FewLockedOut

\* Finite sets that grow or shrink by one.
LEMMA Fewer ==
    ASSUME NEW S, IsFiniteSet(S), NEW T, T \subseteq S
    PROVE  /\ IsFiniteSet(T) /\ Cardinality(T) \in Nat /\ Cardinality(S) \in Nat
           /\ Cardinality(T) <= Cardinality(S)
<1>1. T \in SUBSET S
  OBVIOUS
<1>2. IsFiniteSet(T) /\ Cardinality(T) <= Cardinality(S)
  BY <1>1, FS_Subset
<1> QED BY <1>2, FS_CardinalityType

LEMMA OneMore ==
    ASSUME NEW S, IsFiniteSet(S), NEW x, NEW T, T \subseteq S \cup {x}
    PROVE  /\ IsFiniteSet(T) /\ Cardinality(T) \in Nat /\ Cardinality(S) \in Nat
           /\ Cardinality(T) <= Cardinality(S) + 1
<1>1. PICK U : U = S \cup {x}
  OBVIOUS
<1>2. IsFiniteSet(U) /\ (Cardinality(U) = Cardinality(S) \/ Cardinality(U) = Cardinality(S) + 1)
  BY <1>1, FS_AddElement
<1>3. IsFiniteSet(T) /\ Cardinality(T) \in Nat /\ Cardinality(T) <= Cardinality(U)
  BY <1>1, <1>2, Fewer
<1>4. Cardinality(S) \in Nat
  BY FS_CardinalityType
<1> QED BY <1>2, <1>3, <1>4

LEMMA OneLess ==
    ASSUME NEW S, IsFiniteSet(S), NEW x \in S, NEW T, T \subseteq S \ {x}
    PROVE  /\ IsFiniteSet(T) /\ Cardinality(T) \in Nat /\ Cardinality(S) \in Nat
           /\ Cardinality(T) + 1 <= Cardinality(S)
<1>1. PICK U : U = S \ {x}
  OBVIOUS
<1>2. IsFiniteSet(U) /\ Cardinality(U) = Cardinality(S) - 1
  BY <1>1, FS_RemoveElement
<1>3. IsFiniteSet(T) /\ Cardinality(T) \in Nat /\ Cardinality(T) <= Cardinality(U)
  BY <1>1, <1>2, Fewer
<1>4. Cardinality(S) \in Nat
  BY FS_CardinalityType
<1> QED BY <1>2, <1>3, <1>4

\* There are finitely many handlers, and one at least.
LEMMA Slots ==
    ASSUME EnrollmentAssumption
    PROVE  /\ IsFiniteSet(Slot) /\ Cardinality(Slot) \in Nat /\ Cardinality(Slot) >= 1
           /\ IsFiniteSet(AgentToken) /\ IsFiniteSet(Device)
<1>1. IsFiniteSet(Slot) /\ Slot # {}
  BY DEF EnrollmentAssumption
<1>2. Cardinality(Slot) \in Nat /\ Cardinality(Slot) # 0
  BY <1>1, FS_CardinalityType, FS_EmptySet
<1>3. 1 \in Int /\ MaxAgentTokens \in Int /\ MaxDevices \in Int
  BY DEF EnrollmentAssumption
<1>4. IsFiniteSet(AgentToken) /\ IsFiniteSet(Device)
  BY <1>3, FS_Interval DEF AgentToken, Device
<1> QED BY <1>1, <1>2, <1>4

LEMMA SlotSet ==
    ASSUME EnrollmentAssumption, NEW T, T \subseteq Slot
    PROVE  IsFiniteSet(T) /\ Cardinality(T) \in Nat /\ Cardinality(T) <= Cardinality(Slot)
BY Slots, Fewer

LEMMA AgentTokenSet ==
    ASSUME EnrollmentAssumption, NEW T, T \subseteq AgentToken
    PROVE  IsFiniteSet(T) /\ Cardinality(T) \in Nat
BY Slots, Fewer

\* Only handler s moves.
Only(s) == \A q \in Slot : q # s => handler'[q] = handler[q]

LEMMA OnlyOne ==
    ASSUME Inv, NEW s \in Slot, NEW h, handler' = [handler EXCEPT ![s] = h]
    PROVE  Only(s) /\ handler'[s] = h
BY DEF Inv, Only

LEMMA OnlyDone ==
    ASSUME Inv, NEW s \in Slot, Done(s)
    PROVE  Only(s) /\ handler'[s].op = "quiet"
BY OnlyOne, QuietHandler DEF Done

LEMMA OnlyGoto ==
    ASSUME Inv, NEW s \in Slot, NEW op, Goto(s, op)
    PROVE  /\ Only(s) /\ handler'[s].op = op
           /\ handler'[s].token = handler[s].token /\ handler'[s].device = handler[s].device
<1>1. PICK g \in Handler : g = handler[s]
  BY DEF Inv
<1>2. PICK h : h = [g EXCEPT !.op = op]
  OBVIOUS
<1>3. h.op = op /\ h.token = g.token /\ h.device = g.device
  BY <1>2 DEF Handler
<1>4. handler' = [handler EXCEPT ![s] = h]
  BY <1>1, <1>2 DEF Goto
<1> QED BY <1>1, <1>3, <1>4, OnlyOne

LEMMA OnlyRevoke ==
    ASSUME Inv, NEW s \in Slot, NEW d,
           handler' = [handler EXCEPT ![s].op = "revoke", ![s].device = d, ![s].serial = None]
    PROVE  Only(s) /\ handler'[s].op = "revoke" /\ handler'[s].token = handler[s].token
<1>1. PICK g \in Handler : g = handler[s]
  BY DEF Inv
<1>2. PICK h : h = [g EXCEPT !.op = "revoke", !.device = d, !.serial = None]
  OBVIOUS
<1>3. h.op = "revoke" /\ h.token = g.token
  BY <1>2 DEF Handler
<1>4. handler' = [handler EXCEPT ![s] = h]
  BY <1>1, <1>2 DEF Inv
<1> QED BY <1>1, <1>3, <1>4, OnlyOne

\* A token whose uses stay, and on which no enrolment begins, stays charged.
LEMMA ChargedStays ==
    ASSUME EnrollmentAssumption, Inv, Inv', Charged, NEW t \in Token,
           token'[t].uses = token[t].uses,
           token[t] # NoToken => token'[t].limit = token[t].limit,
           \A q \in Slot : handler'[q].op \in Enrolling /\ handler'[q].token = t =>
                             handler[q].op \in Enrolling /\ handler[q].token = t
    PROVE  token'[t].uses + Cardinality(Pending(t)') <= token'[t].limit + Cardinality(Slot) - 1
<1>1. PICK P : P = Pending(t)
  OBVIOUS
<1>2. PICK Q : Q = Pending(t)'
  OBVIOUS
<1>3. Q \subseteq P /\ P \subseteq Slot
  BY <1>1, <1>2 DEF Pending
<1>4. /\ Cardinality(P) \in Nat /\ Cardinality(Q) \in Nat /\ Cardinality(Q) <= Cardinality(P)
      /\ Cardinality(Slot) \in Nat /\ Cardinality(Slot) >= 1
  BY <1>3, SlotSet, Fewer, Slots
<1>5. token[t].uses + Cardinality(P) <= token[t].limit + Cardinality(Slot) - 1
  BY <1>1 DEF Charged
<1>6. CASE token[t] # NoToken
  <2>1. PICK u \in Nat, n \in Nat : u = token[t].uses /\ n = token[t].limit
    BY <1>6, TokenFields DEF Inv, Tables, EnrollmentAssumption
  <2>2. u + Cardinality(P) <= n + Cardinality(Slot) - 1
    BY <1>5, <2>1
  <2>3. u + Cardinality(Q) <= n + Cardinality(Slot) - 1
    BY <1>4, <2>2
  <2> QED BY <1>2, <1>6, <2>1, <2>3
<1>7. CASE token[t] = NoToken
  <2>1. \A q \in Slot : handler[q].op \in Enrolling => handler[q].token # t
    BY <1>7 DEF Inv, HandlersOK, HandlerOK
  <2>2. Q = {}
    BY <1>1, <1>3, <2>1 DEF Pending
  <2>3. token'[t].uses = 0 /\ Cardinality(Q) = 0
    BY <1>7, <2>2, FS_EmptySet DEF NoToken
  <2>4. PICK n \in Nat : n = token'[t].limit
    <3>1. token'[t] \in TokenRow
      BY DEF Inv, Tables
    <3>2. NoToken.limit = 0 /\ Limits \subseteq Nat
      BY DEF NoToken, EnrollmentAssumption
    <3>3. token'[t] # NoToken => token'[t].limit \in Limits
      BY <3>1, TokenFields
    <3>4. CASE token'[t] = NoToken
      <4>1. token'[t].limit = 0
        BY <3>4 DEF NoToken
      <4> QED BY <4>1
    <3>5. CASE token'[t] # NoToken
      <4>1. token'[t].limit \in Nat
        BY <3>2, <3>3, <3>5
      <4> QED BY <4>1
    <3> QED BY <3>4, <3>5
  <2>5. 0 + 0 <= n + Cardinality(Slot) - 1
    BY <1>4
  <2> QED BY <1>2, <2>3, <2>4, <2>5
<1> QED BY <1>6, <1>7

\* No handler comes to have issued an agent token, and no agent token goes but
\* with its device.
LEMMA OwnedStays ==
    ASSUME EnrollmentAssumption, Inv, Owned, NEW d \in Device, Present(d)',
           Present(d) \/ device[d] = NoDevice,
           \A q \in Slot : handler'[q].op \in {"record", "count"} /\ handler'[q].device = d =>
                             handler[q].op \in {"record", "count"} /\ handler[q].device = d,
           \A k \in AgentToken :
             agentToken[k].status \in {"LIVE", "REVOKED"} /\ agentToken[k].device = d =>
               agentToken'[k].status \in {"LIVE", "REVOKED"} /\ agentToken'[k].device = d
    PROVE  Cardinality(Counting(d)') <= Cardinality(IssuedFor(d)')
<1>1. PICK P, Q : P = Counting(d) /\ Q = Counting(d)'
  OBVIOUS
<1>2. PICK K, L : K = IssuedFor(d) /\ L = IssuedFor(d)'
  OBVIOUS
<1>3. Q \subseteq P /\ P \subseteq Slot
  BY <1>1 DEF Counting
<1>4. K \subseteq L /\ L \subseteq AgentToken
  BY <1>2 DEF IssuedFor, Issued
<1>5. /\ Cardinality(P) \in Nat /\ Cardinality(Q) \in Nat /\ Cardinality(Q) <= Cardinality(P)
      /\ Cardinality(K) \in Nat /\ Cardinality(L) \in Nat /\ Cardinality(K) <= Cardinality(L)
  BY <1>3, <1>4, SlotSet, AgentTokenSet, Fewer
<1>6. CASE Present(d)
  <2>1. Cardinality(P) <= Cardinality(K)
    BY <1>1, <1>2, <1>6 DEF Owned
  <2> QED BY <1>1, <1>2, <1>5, <2>1
<1>7. CASE device[d] = NoDevice
  <2>1. \A q \in Slot : handler[q].op \in OnDevice => handler[q].device # d
    BY <1>7 DEF Inv, HandlersOK, HandlerOK
  <2>2. P = {}
    BY <1>1, <2>1 DEF Counting, OnDevice
  <2>3. Cardinality(Q) = 0
    BY <1>3, <2>2, FS_EmptySet
  <2> QED BY <1>1, <1>2, <1>5, <2>3
<1> QED BY <1>6, <1>7

\* Uses and failures stay, no agent token is issued and no handler that has
\* issued one ends.
LEMMA TalliedStays ==
    ASSUME EnrollmentAssumption, Inv, Tallied, UNCHANGED failures,
           \A t \in Token : token'[t].uses = token[t].uses,
           \A k \in AgentToken : agentToken'[k].status \in {"LIVE", "REVOKED"} =>
                                   agentToken[k].status \in {"LIVE", "REVOKED"},
           \A q \in Slot :
             handler[q].op \in {"record", "count"} /\ Present(handler[q].device) =>
               handler'[q].op \in {"record", "count"} /\ Present(handler[q].device)'
    PROVE  Tallied'
<1>1. PICK P, Q : P = Uncounted /\ Q = Uncounted'
  OBVIOUS
<1>2. PICK K, L : K = Issued /\ L = Issued'
  OBVIOUS
<1>3. P \subseteq Q /\ Q \subseteq Slot
  BY <1>1 DEF Uncounted
<1>4. L \subseteq K /\ K \subseteq AgentToken
  BY <1>2 DEF Issued
<1>5. /\ Cardinality(P) \in Nat /\ Cardinality(Q) \in Nat /\ Cardinality(P) <= Cardinality(Q)
      /\ Cardinality(K) \in Nat /\ Cardinality(L) \in Nat /\ Cardinality(L) <= Cardinality(K)
  BY <1>3, <1>4, SlotSet, AgentTokenSet, Fewer
<1>6. PICK U : U = Used
  OBVIOUS
<1>7. Used' = U
  BY <1>6 DEF Used
<1>8. IsFiniteSet(U) /\ Cardinality(K) <= Cardinality(U) + Cardinality(P) + failures
  BY <1>1, <1>2, <1>6 DEF Tallied
<1>9. Cardinality(U) \in Nat /\ failures \in Nat
  BY <1>8, FS_CardinalityType DEF Inv, Tables, EnrollmentAssumption
<1>10. Cardinality(L) <= Cardinality(U) + Cardinality(Q) + failures
  BY <1>5, <1>8, <1>9
<1> QED BY <1>1, <1>2, <1>7, <1>8, <1>10 DEF Tallied

\* No agent token of the device comes to life, and no handler comes to issue one.
LEMMA BoundedStays ==
    ASSUME EnrollmentAssumption, Bounded, NEW d \in Device,
           \A k \in AgentToken :
             agentToken'[k].status = "LIVE" /\ agentToken'[k].device = d =>
               agentToken[k].status = "LIVE" /\ agentToken[k].device = d,
           \A q \in Slot : handler'[q].op = "issue" /\ handler'[q].device = d =>
                             handler[q].op = "issue" /\ handler[q].device = d
    PROVE  Cardinality(LiveTokens(d)') + Cardinality(Issuing(d)') <= Cardinality(Slot)
<1>1. PICK P, Q : P = Issuing(d) /\ Q = Issuing(d)'
  OBVIOUS
<1>2. PICK K, L : K = LiveTokens(d) /\ L = LiveTokens(d)'
  OBVIOUS
<1>3. Q \subseteq P /\ P \subseteq Slot
  BY <1>1 DEF Issuing
<1>4. L \subseteq K /\ K \subseteq AgentToken
  BY <1>2 DEF LiveTokens
<1>5. /\ Cardinality(P) \in Nat /\ Cardinality(Q) \in Nat /\ Cardinality(Q) <= Cardinality(P)
      /\ Cardinality(K) \in Nat /\ Cardinality(L) \in Nat /\ Cardinality(L) <= Cardinality(K)
      /\ Cardinality(Slot) \in Nat
  BY <1>3, <1>4, SlotSet, AgentTokenSet, Fewer, Slots
<1>6. Cardinality(K) + Cardinality(P) <= Cardinality(Slot)
  BY <1>1, <1>2 DEF Bounded
<1>7. Cardinality(L) + Cardinality(Q) <= Cardinality(Slot)
  BY <1>5, <1>6
<1> QED BY <1>1, <1>2, <1>7

\* No device comes to be locked out.
LEMMA LockedStays ==
    ASSUME EnrollmentAssumption, FewLockedOut, UNCHANGED failures, failures \in Nat,
           \A d \in Device : LockedOut(d)' => LockedOut(d)
    PROVE  FewLockedOut'
<1>1. PICK D, E : D = {d \in Device : LockedOut(d)} /\ E = {d \in Device : LockedOut(d)'}
  OBVIOUS
<1>2. E \subseteq D /\ D \subseteq Device
  BY <1>1
<1>3. Cardinality(D) \in Nat /\ Cardinality(E) \in Nat /\ Cardinality(E) <= Cardinality(D)
  <2>1. IsFiniteSet(D)
    BY <1>2, Slots, Fewer
  <2> QED BY <1>2, <2>1, Fewer
<1>4. Cardinality(D) <= failures
  BY <1>1 DEF FewLockedOut
<1>5. Cardinality(E) <= failures'
  BY <1>3, <1>4
<1> QED BY <1>1, <1>5 DEF FewLockedOut

\* A device is locked out only where it was already, or where the last agent
\* token went or the last handler to issue one ended.
LEMMA NotLockedOut ==
    ASSUME EnrollmentAssumption, Inv, NEW d \in Device, LockedOut(d)',
           Present(d)' => Present(d) \/ device[d] = NoDevice,
           \A k \in AgentToken : agentToken'[k].device = d => agentToken[k].device = d,
           \A k \in AgentToken :
             agentToken[k].status = "LIVE" /\ agentToken[k].device = d =>
               \/ agentToken'[k].status = "LIVE" /\ agentToken'[k].device = d
               \/ \E q \in Slot : handler'[q].op = "issue" /\ handler'[q].device = d,
           \A q \in Slot : handler[q].op = "issue" /\ handler[q].device = d =>
             \/ handler'[q].op = "issue" /\ handler'[q].device = d
             \/ LiveTokens(d)' # {}
    PROVE  LockedOut(d)
<1>1. PICK k \in AgentToken : agentToken'[k].device = d
  BY DEF LockedOut
<1>2. agentToken[k].device = d
  BY <1>1
<1>3. Present(d)
  <2>1. agentToken[k] \in AgentTokenRow
    BY DEF Inv, Tables
  <2>2. agentToken[k].status \in {"LIVE", "REVOKED"}
    BY <1>2, <2>1, Bounds DEF AgentTokenRow, NoAgentToken
  <2> QED BY <1>2, <2>2 DEF Inv, References
<1>4. \A q \in Slot : ~(handler'[q].op = "issue" /\ handler'[q].device = d)
  BY DEF LockedOut
<1>5. LiveTokens(d)' = {}
  BY DEF LockedOut
<1>6. LiveTokens(d) = {}
  BY <1>4, <1>5 DEF LiveTokens
<1>7. \A q \in Slot : ~(handler[q].op = "issue" /\ handler[q].device = d)
  BY <1>4, <1>5
<1> QED BY <1>2, <1>3, <1>6, <1>7 DEF LockedOut

-----------------------------------------------------------------------------
(* Steps that issue and count nothing *)

Issues == {"issue", "record", "count"}

\* A handler that moves goes on with its token, if it enrolls, and has not come
\* to the issue of its agent token.
Onward(q) ==
    \/ handler'[q] = handler[q]
    \/ /\ handler[q].op \notin Issues /\ handler'[q].op \notin Issues
       /\ handler'[q].op \in Enrolling =>
            handler[q].op \in Enrolling /\ handler'[q].token = handler[q].token

DevicesStay == \A d \in Device : device[d] # NoDevice => (Present(d)' <=> Present(d))

UsesStay ==
    \A t \in Token : /\ token'[t].uses = token[t].uses
                     /\ token[t] # NoToken => token'[t].limit = token[t].limit

Aside ==
    /\ UNCHANGED <<agentToken, failures>>
    /\ DevicesStay /\ UsesStay
    /\ \A q \in Slot : Onward(q)

LEMMA OnDevicePresent ==
    ASSUME Inv, NEW q \in Slot, handler[q].op \in Issues
    PROVE  handler[q].device \in Device /\ device[handler[q].device] # NoDevice
BY DEF Inv, HandlersOK, HandlerOK, OnDevice, Issues

LEMMA PresentRow ==
    ASSUME NEW d
    PROVE  Present(d) => device[d] # NoDevice
BY DEF Present, NoDevice

\* The handlers that issue agent tokens and count uses stay where they are.
LEMMA CalmCounts ==
    ASSUME EnrollmentAssumption, Inv, Inv', CountInv,
           UNCHANGED <<agentToken, failures>>, DevicesStay, UsesStay,
           \A q \in Slot : \/ handler'[q] = handler[q]
                           \/ handler[q].op \notin Issues /\ handler'[q].op \notin Issues
    PROVE  Owned' /\ Tallied' /\ Bounded' /\ FewLockedOut'
<1>1. \A q \in Slot : handler[q].op \in Issues \/ handler'[q].op \in Issues => handler'[q] = handler[q]
  OBVIOUS
<1>2. Owned'
  <2>1. ASSUME NEW d \in Device, Present(d)'
        PROVE  Cardinality(Counting(d)') <= Cardinality(IssuedFor(d)')
    <3>1. Present(d) \/ device[d] = NoDevice
      BY <2>1 DEF DevicesStay
    <3>2. \A q \in Slot : handler'[q].op \in {"record", "count"} /\ handler'[q].device = d =>
                            handler[q].op \in {"record", "count"} /\ handler[q].device = d
      BY <1>1 DEF Issues
    <3> QED BY <2>1, <3>1, <3>2, OwnedStays DEF CountInv
  <2> QED BY <2>1 DEF Owned
<1>3. Tallied'
  <2>1. ASSUME NEW q \in Slot, handler[q].op \in {"record", "count"}, Present(handler[q].device)
        PROVE  handler'[q].op \in {"record", "count"} /\ Present(handler[q].device)'
    <3>1. handler'[q] = handler[q] /\ handler[q].op \in Issues
      BY <1>1, <2>1 DEF Issues
    <3>2. PICK d \in Device : d = handler[q].device /\ device[d] # NoDevice
      BY <3>1, OnDevicePresent
    <3>3. Present(d)'
      BY <2>1, <3>2 DEF DevicesStay
    <3> QED BY <2>1, <3>1, <3>2, <3>3 DEF Present
  <2> QED BY <2>1, TalliedStays DEF UsesStay, CountInv
<1>4. Bounded'
  <2>1. ASSUME NEW d \in Device
        PROVE  Cardinality(LiveTokens(d)') + Cardinality(Issuing(d)') <= Cardinality(Slot)
    <3>1. \A q \in Slot : handler'[q].op = "issue" /\ handler'[q].device = d =>
                            handler[q].op = "issue" /\ handler[q].device = d
      BY <1>1 DEF Issues
    <3> QED BY <3>1, BoundedStays DEF CountInv
  <2> QED BY <2>1 DEF Bounded
<1>5. FewLockedOut'
  <2>1. ASSUME NEW d \in Device, LockedOut(d)' PROVE LockedOut(d)
    <3>1. Present(d)' => Present(d) \/ device[d] = NoDevice
      BY DEF DevicesStay
    <3>2. \A q \in Slot : handler[q].op = "issue" /\ handler[q].device = d =>
                            handler'[q].op = "issue" /\ handler'[q].device = d
      BY <1>1 DEF Issues
    <3> QED BY <2>1, <3>1, <3>2, NotLockedOut
  <2>2. failures \in Nat /\ UNCHANGED failures
    BY DEF Inv, Tables, EnrollmentAssumption
  <2> QED BY <2>1, <2>2, LockedStays DEF CountInv
<1> QED BY <1>2, <1>3, <1>4, <1>5

LEMMA AsideCounts ==
    ASSUME EnrollmentAssumption, Inv, Inv', CountInv, Aside
    PROVE  CountInv'
<1>1. ASSUME NEW t \in Token
      PROVE  token'[t].uses + Cardinality(Pending(t)') <= token'[t].limit + Cardinality(Slot) - 1
  <2>1. \A q \in Slot : handler'[q].op \in Enrolling /\ handler'[q].token = t =>
                          handler[q].op \in Enrolling /\ handler[q].token = t
    BY DEF Aside, Onward
  <2> QED BY <2>1, ChargedStays DEF Aside, UsesStay, CountInv
<1>2. Charged'
  BY <1>1 DEF Charged
<1>3. Owned' /\ Tallied' /\ Bounded' /\ FewLockedOut'
  BY CalmCounts DEF Aside, Onward
<1> QED BY <1>2, <1>3 DEF CountInv

\* A handler that ends, decides or has read a request issues nothing.
LEMMA OnwardFrom ==
    ASSUME Inv, NEW s \in Slot, Only(s), handler[s].op \notin Issues, handler'[s].op \notin Issues,
           handler'[s].op \in Enrolling =>
             handler[s].op \in Enrolling /\ handler'[s].token = handler[s].token
    PROVE  \A q \in Slot : Onward(q)
BY DEF Only, Onward

LEMMA OnwardBegin ==
    ASSUME Inv, NEW s \in Slot, NEW h, Begin(s, h), h.op \notin Enrolling
    PROVE  \A q \in Slot : Onward(q)
<1>1. Only(s) /\ handler'[s] = h /\ handler[s].op = "quiet"
  BY OnlyOne, QuietHandler DEF Begin
<1>2. h.op \notin Issues /\ handler[s].op \notin Issues
  BY <1>1 DEF Enrolling, Issues
<1> QED BY <1>1, <1>2, OnwardFrom

LEMMA OnwardDone ==
    ASSUME Inv, NEW s \in Slot, Done(s), handler[s].op \notin Issues
    PROVE  \A q \in Slot : Onward(q)
<1>1. Only(s) /\ handler'[s].op = "quiet"
  BY OnlyDone
<1>2. handler'[s].op \notin Enrolling /\ handler'[s].op \notin Issues
  BY <1>1 DEF Enrolling, Issues
<1> QED BY <1>1, <1>2, OnwardFrom

\* Rows that are not written keep their devices and uses.
LEMMA RowsStay ==
    /\ UNCHANGED device => DevicesStay
    /\ UNCHANGED token => UsesStay
BY DEF DevicesStay, UsesStay, Present

LEMMA TokenMade ==
    ASSUME EnrollmentAssumption, Inv, NEW t \in Token, token[t] = NoToken, NEW u, u.uses = 0,
           token' = [token EXCEPT ![t] = u]
    PROVE  UsesStay
<1>1. NoToken.uses = 0
  BY DEF NoToken
<1>2. token'[t] = u /\ \A q \in Token : q # t => token'[q] = token[q]
  BY DEF Inv, Tables
<1> QED BY <1>1, <1>2 DEF UsesStay

LEMMA AdminAside ==
    ASSUME EnrollmentAssumption, Inv, NEW s \in Slot, Admin(s), ~DeleteDevice(s)
    PROVE  Aside
<1>1. CASE \E n \in Limits, d \in Device \cup {None}, x \in Expiry : CreateToken(s, n, d, x)
  <2>1. PICK n \in Limits, d \in Device \cup {None}, x \in Expiry : CreateToken(s, n, d, x)
    BY <1>1
  <2>2. PICK t \in Token : /\ token[t] = NoToken
                           /\ token' = [token EXCEPT ![t] = NewToken(n, d, x, None)]
    BY <2>1 DEF CreateToken, NextId, Inv, Tables
  <2>3. PICK u : u = NewToken(n, d, x, None)
    OBVIOUS
  <2>4. u.uses = 0
    BY <2>3 DEF NewToken
  <2>5. UsesStay
    BY <2>2, <2>3, <2>4, TokenMade
  <2>6. UNCHANGED <<device, agentToken, failures, handler>>
    BY <2>1 DEF CreateToken
  <2> QED BY <2>5, <2>6, RowsStay DEF Aside, Onward
<1>2. CASE \E t \in Token : RevokeToken(s, t)
  <2>1. PICK t \in Token : RevokeToken(s, t)
    BY <1>2
  <2>2. PICK r \in TokenRow \ {NoToken} : r = token[t]
    BY <2>1 DEF RevokeToken, Inv, Tables
  <2>3. PICK u : u = [r EXCEPT !.active = FALSE]
    OBVIOUS
  <2>4. u.uses = r.uses /\ u.limit = r.limit
    BY <2>3, TokenRevoked
  <2>5. token' = [token EXCEPT ![t] = u] /\ token \in [Token -> TokenRow]
    BY <2>1, <2>2, <2>3 DEF RevokeToken, Inv, Tables
  <2>6. token'[t] = u /\ \A q \in Token : q # t => token'[q] = token[q]
    BY <2>5
  <2>7. UsesStay
    BY <2>2, <2>4, <2>6 DEF UsesStay
  <2>8. UNCHANGED <<device, agentToken, failures, handler>>
    BY <2>1 DEF RevokeToken
  <2> QED BY <2>7, <2>8, RowsStay DEF Aside, Onward
<1>3. CASE \E a \in Ask, n \in Limits, x \in Deadline : RequestToken(s, a, n, x)
  BY <1>3, RowsStay DEF RequestToken, Aside, Onward
<1>4. ASSUME NEW a \in Ask, ApproveRead(s, a) \/ DenyRead(s, a) \/ CancelRead(s, a) \/ RevealRead(s, a)
      PROVE  Aside
  <2>1. PICK op \in OnAsk : /\ Begin(s, [Quiet EXCEPT !.op = op, !.ask = a])
                            /\ UNCHANGED <<ask, token, device, agentToken, passed, failures>>
    BY <1>4 DEF ApproveRead, DenyRead, CancelRead, RevealRead, Decide, OnAsk, Deciding
  <2>2. PICK h : h = OnAskRow(op, a)
    OBVIOUS
  <2>3. h.op = op
    BY <2>2 DEF OnAskRow
  <2>4. h.op \notin Enrolling
    BY <2>3 DEF OnAsk, Deciding, Enrolling
  <2>5. Begin(s, h)
    BY <2>1, <2>2, OnAskRows
  <2> QED BY <2>1, <2>4, <2>5, OnwardBegin, RowsStay DEF Aside
<1>5. CASE ApproveWrite(s) \/ DenyWrite(s) \/ CancelWrite(s)
  <2>1. /\ Done(s) /\ handler[s].op \in Deciding
        /\ UNCHANGED <<token, device, agentToken, passed, failures>>
    BY <1>5 DEF ApproveWrite, DenyWrite, CancelWrite, Settle, Deciding
  <2>2. handler[s].op \notin Issues
    BY <2>1 DEF Deciding, Issues
  <2> QED BY <2>1, <2>2, OnwardDone, RowsStay DEF Aside
<1>6. CASE Claim(s)
  <2>1. PICK a, n, x : a = handler[s].ask /\ n = ask[a].limit /\ x = ask[a].expiry
    OBVIOUS
  <2>2. PICK u : u = NewToken(n, None, x, a)
    OBVIOUS
  <2>3. PICK t \in Token : token[t] = NoToken /\ token' = [token EXCEPT ![t] = u]
    BY <1>6, <2>1, <2>2 DEF Claim, NextId, Inv, Tables
  <2>4. u.uses = 0
    BY <2>2 DEF NewToken
  <2>5. UsesStay
    BY <2>4, <2>3, TokenMade
  <2>6. Done(s) /\ UNCHANGED <<device, agentToken, failures>> /\ handler[s].op = "reveal"
    BY <1>6 DEF Claim
  <2>7. handler[s].op \notin Issues
    BY <2>6 DEF Issues
  <2> QED BY <2>5, <2>6, <2>7, OnwardDone, RowsStay DEF Aside
<1>7. CASE ClaimFails(s)
  <2>1. Done(s) /\ handler[s].op \notin Issues
    BY <1>7 DEF ClaimFails, Issues
  <2> QED BY <1>7, <2>1, OnwardDone, RowsStay DEF Aside, ClaimFails
<1>8. ASSUME NEW d \in Device, UnpinTokens(s, d) PROVE Aside
  <2>1. PICK T : T = Unpinned(d)
    OBVIOUS
  <2>2. \A t \in Token : T[t].uses = token[t].uses /\ T[t].limit = token[t].limit
    BY <2>1, UnpinnedRows
  <2>3. token' = T
    BY <1>8, <2>1 DEF UnpinTokens
  <2>4. UsesStay
    BY <2>2, <2>3 DEF UsesStay
  <2>5. PICK h : h = [Quiet EXCEPT !.op = "delete", !.device = d]
    OBVIOUS
  <2>6. h.op = "delete"
    BY <2>5 DEF Quiet
  <2>7. h.op \notin Enrolling
    BY <2>6 DEF Enrolling
  <2>8. Begin(s, h) /\ UNCHANGED <<device, agentToken, failures>>
    BY <1>8, <2>5 DEF UnpinTokens
  <2> QED BY <2>4, <2>7, <2>8, OnwardBegin, RowsStay DEF Aside
<1> QED BY <1>1, <1>2, <1>3, <1>4, <1>5, <1>6, <1>7, <1>8 DEF Admin

LEMMA FindAside ==
    ASSUME EnrollmentAssumption, Inv, NEW s \in Slot, FindDevice(s)
    PROVE  Aside
<1>1. UNCHANGED <<token, device, agentToken, failures>> /\ handler[s].op = "find"
  BY DEF FindDevice
<1>2. /\ Only(s) /\ handler'[s].op \in {"create", "revoke"}
      /\ handler'[s].token = handler[s].token
  <2>1. CASE Found(s) = {}
    BY <2>1, OnlyGoto DEF FindDevice
  <2>2. CASE Found(s) # {}
    BY <2>2, OnlyRevoke DEF FindDevice
  <2> QED BY <2>1, <2>2
<1>3. /\ handler[s].op \notin Issues /\ handler'[s].op \notin Issues
      /\ handler[s].op \in Enrolling
  BY <1>1, <1>2 DEF Issues, Enrolling
<1> QED BY <1>1, <1>2, <1>3, OnwardFrom, RowsStay DEF Aside

LEMMA CreateAside ==
    ASSUME EnrollmentAssumption, Inv, NEW s \in Slot, CreateDevice(s)
    PROVE  Aside
<1>1. UNCHANGED <<token, agentToken, failures>> /\ handler[s].op = "create"
  BY DEF CreateDevice
<1>2. handler[s].op \notin Issues /\ handler[s].op \in Enrolling
  BY <1>1 DEF Issues, Enrolling
<1>3. CASE Done(s) /\ UNCHANGED device
  BY <1>1, <1>2, <1>3, OnwardDone, RowsStay DEF Aside
<1>4. CASE \E d \in NextId(device, NoDevice) :
             /\ device' = [device EXCEPT ![d] = [status |-> "PRESENT", serial |-> handler[s].serial]]
             /\ handler' = [handler EXCEPT ![s].op = "revoke", ![s].device = d, ![s].serial = None]
  <2>1. PICK d \in Device :
          /\ device[d] = NoDevice
          /\ device' = [device EXCEPT ![d] = [status |-> "PRESENT", serial |-> handler[s].serial]]
          /\ handler' = [handler EXCEPT ![s].op = "revoke", ![s].device = d, ![s].serial = None]
    BY <1>4 DEF NextId, Inv, Tables
  <2>2. DevicesStay
    BY <2>1 DEF DevicesStay, Present, Inv, Tables
  <2>3. Only(s) /\ handler'[s].op = "revoke" /\ handler'[s].token = handler[s].token
    BY <2>1, OnlyRevoke
  <2>4. handler'[s].op \notin Issues
    BY <2>3 DEF Issues
  <2> QED BY <1>1, <1>2, <2>2, <2>3, <2>4, OnwardFrom, RowsStay DEF Aside
<1> QED BY <1>3, <1>4 DEF CreateDevice

-----------------------------------------------------------------------------
(* Steps of an enrolment, and deletions *)

\* An enrolment begins with a use left.
LEMMA EnrollReadCounts ==
    ASSUME EnrollmentAssumption, Inv, Inv', CountInv, NEW s \in Slot, NEW t \in Token,
           NEW n \in Serial, EnrollRead(s, t, n)
    PROVE  CountInv'
<1>1. PICK h : h = [Quiet EXCEPT !.op = "find", !.token = t, !.pin = token[t].device, !.serial = n]
  OBVIOUS
<1>2. h.op = "find" /\ h.token = t
  BY <1>1 DEF Quiet
<1>3. Only(s) /\ handler'[s] = h /\ handler[s].op = "quiet"
  BY <1>1, OnlyOne, QuietHandler DEF EnrollRead, Begin
<1>4. UNCHANGED <<token, device, agentToken, failures>> /\ DevicesStay /\ UsesStay
  BY RowsStay DEF EnrollRead
<1>5. \A q \in Slot : \/ handler'[q] = handler[q]
                      \/ handler[q].op \notin Issues /\ handler'[q].op \notin Issues
  BY <1>2, <1>3 DEF Only, Issues
<1>6. ASSUME NEW r \in Token
      PROVE  token'[r].uses + Cardinality(Pending(r)') <= token'[r].limit + Cardinality(Slot) - 1
  <2>1. CASE r # t
    <3>1. \A q \in Slot : handler'[q].op \in Enrolling /\ handler'[q].token = r =>
                            handler[q].op \in Enrolling /\ handler[q].token = r
      BY <1>2, <1>3, <2>1 DEF Only
    <3> QED BY <1>4, <3>1, ChargedStays DEF UsesStay, CountInv
  <2>2. CASE r = t
    <3>1. PICK Q : Q = Pending(t)'
      OBVIOUS
    <3>2. Q \subseteq Slot
      BY <3>1 DEF Pending
    <3>3. Cardinality(Q) \in Nat /\ Cardinality(Q) <= Cardinality(Slot) /\ Cardinality(Slot) \in Nat
      BY <3>2, SlotSet, Slots
    <3>4. token[t] \in TokenRow \ {NoToken} /\ token[t].uses < token[t].limit
      BY DEF EnrollRead, Inv, Tables, NoToken
    <3>5. PICK u \in Nat, m \in Nat : u = token[t].uses /\ m = token[t].limit
      BY <3>4, TokenFields DEF EnrollmentAssumption
    <3>6. u < m
      BY <3>4, <3>5
    <3>7. u + Cardinality(Q) <= m + Cardinality(Slot) - 1
      BY <3>3, <3>6
    <3> QED BY <1>4, <2>2, <3>1, <3>5, <3>7
  <2> QED BY <2>1, <2>2
<1>7. Charged'
  BY <1>6 DEF Charged
<1> QED BY <1>4, <1>5, <1>7, CalmCounts DEF CountInv

\* The same facts for a step in which one handler moves.
LEMMA ChargedOn ==
    ASSUME EnrollmentAssumption, Inv, Inv', Charged, UsesStay, NEW s \in Slot, Only(s),
           handler'[s].op \in Enrolling =>
             handler[s].op \in Enrolling /\ handler'[s].token = handler[s].token
    PROVE  Charged'
<1>1. ASSUME NEW t \in Token
      PROVE  token'[t].uses + Cardinality(Pending(t)') <= token'[t].limit + Cardinality(Slot) - 1
  <2>1. \A q \in Slot : handler'[q].op \in Enrolling /\ handler'[q].token = t =>
                          handler[q].op \in Enrolling /\ handler[q].token = t
    BY DEF Only
  <2> QED BY <2>1, ChargedStays DEF UsesStay
<1> QED BY <1>1 DEF Charged

LEMMA OwnedOn ==
    ASSUME EnrollmentAssumption, Inv, Owned, UNCHANGED device, NEW s \in Slot, Only(s),
           handler'[s].op \in {"record", "count"} =>
             handler[s].op \in {"record", "count"} /\ handler'[s].device = handler[s].device,
           \A k \in AgentToken :
             agentToken[k].status \in {"LIVE", "REVOKED"} =>
               agentToken'[k].status \in {"LIVE", "REVOKED"} /\ agentToken'[k].device = agentToken[k].device
    PROVE  Owned'
<1>1. ASSUME NEW d \in Device, Present(d)'
      PROVE  Cardinality(Counting(d)') <= Cardinality(IssuedFor(d)')
  <2>1. Present(d)
    BY <1>1 DEF Present
  <2>2. \A q \in Slot : handler'[q].op \in {"record", "count"} /\ handler'[q].device = d =>
                          handler[q].op \in {"record", "count"} /\ handler[q].device = d
    BY DEF Only
  <2> QED BY <1>1, <2>1, <2>2, OwnedStays
<1> QED BY <1>1 DEF Owned

LEMMA BoundedOn ==
    ASSUME EnrollmentAssumption, Bounded, UNCHANGED agentToken, NEW s \in Slot, Only(s),
           handler'[s].op # "issue"
    PROVE  Bounded'
<1>1. ASSUME NEW d \in Device
      PROVE  Cardinality(LiveTokens(d)') + Cardinality(Issuing(d)') <= Cardinality(Slot)
  <2>1. \A q \in Slot : handler'[q].op = "issue" /\ handler'[q].device = d =>
                          handler[q].op = "issue" /\ handler[q].device = d
    BY DEF Only
  <2> QED BY <2>1, BoundedStays
<1> QED BY <1>1 DEF Bounded

\* A handler that was not about to issue an agent token locks out no device.
LEMMA LockedOn ==
    ASSUME EnrollmentAssumption, Inv, FewLockedOut, UNCHANGED <<device, agentToken, failures>>,
           NEW s \in Slot, Only(s), handler[s].op # "issue" \/ ~Present(handler[s].device)
    PROVE  FewLockedOut'
<1>1. ASSUME NEW d \in Device, LockedOut(d)' PROVE LockedOut(d)
  <2>1. Present(d)
    BY <1>1 DEF LockedOut, Present
  <2>2. \A q \in Slot : handler[q].op = "issue" /\ handler[q].device = d =>
                          handler'[q].op = "issue" /\ handler'[q].device = d
    BY <2>1 DEF Only
  <2> QED BY <1>1, <2>1, <2>2, NotLockedOut
<1>2. failures \in Nat
  BY DEF Inv, Tables, EnrollmentAssumption
<1> QED BY <1>1, <1>2, LockedStays

\* Revoking leaves the device no live agent token, and a handler to issue one.
LEMMA RevokeAgentsCounts ==
    ASSUME EnrollmentAssumption, Inv, Inv', CountInv, NEW s \in Slot, RevokeAgents(s)
    PROVE  CountInv'
<1>1. PICK d \in Device : d = handler[s].device
  BY DEF RevokeAgents, Inv, HandlersOK, HandlerOK, OnDevice
<1>2. /\ Only(s) /\ handler[s].op = "revoke" /\ handler'[s].op = "issue"
      /\ handler'[s].token = handler[s].token /\ handler'[s].device = d
  BY <1>1, OnlyGoto DEF RevokeAgents
<1>3. UNCHANGED <<token, device, failures>> /\ UsesStay
  BY RowsStay DEF RevokeAgents
<1>4. ASSUME NEW k \in AgentToken
      PROVE  /\ agentToken'[k].device = agentToken[k].device
             /\ agentToken'[k].status \in {"LIVE", "REVOKED"} <=> agentToken[k].status \in {"LIVE", "REVOKED"}
             /\ agentToken'[k].status = "LIVE" => agentToken[k].status = "LIVE" /\ agentToken[k].device # d
             /\ agentToken[k].status = "LIVE" /\ agentToken[k].device # d => agentToken'[k].status = "LIVE"
  <2>1. PICK r \in AgentTokenRow : r = agentToken[k]
    BY DEF Inv, Tables
  <2>2. CASE r.status = "LIVE" /\ r.device = d
    <3>1. PICK u : u = [r EXCEPT !.status = "REVOKED"]
      OBVIOUS
    <3>2. u.status = "REVOKED" /\ u.device = r.device
      BY <2>2, <3>1 DEF AgentTokenRow, NoAgentToken
    <3>3. agentToken'[k] = u
      BY <1>1, <2>1, <2>2, <3>1 DEF RevokeAgents
    <3> QED BY <2>1, <2>2, <3>2, <3>3
  <2>3. CASE ~(r.status = "LIVE" /\ r.device = d)
    <3>1. agentToken'[k] = r
      BY <1>1, <2>1, <2>3 DEF RevokeAgents
    <3> QED BY <2>1, <2>3, <3>1
  <2> QED BY <2>2, <2>3
<1>5. Charged'
  <2>1. handler[s].op \in Enrolling
    BY <1>2 DEF Enrolling
  <2> QED BY <1>2, <1>3, <2>1, ChargedOn DEF CountInv
<1>6. Owned'
  <2>1. \A k \in AgentToken :
          agentToken[k].status \in {"LIVE", "REVOKED"} =>
            agentToken'[k].status \in {"LIVE", "REVOKED"} /\ agentToken'[k].device = agentToken[k].device
    BY <1>4
  <2>2. handler'[s].op \notin {"record", "count"}
    BY <1>2
  <2> QED BY <1>2, <1>3, <2>1, <2>2, OwnedOn DEF CountInv
<1>7. Tallied'
  <2>1. \A q \in Slot :
          handler[q].op \in {"record", "count"} /\ Present(handler[q].device) =>
            handler'[q].op \in {"record", "count"} /\ Present(handler[q].device)'
    BY <1>2, <1>3 DEF Only, Present
  <2> QED BY <1>3, <1>4, <2>1, TalliedStays DEF UsesStay, CountInv
<1>8. ASSUME NEW e \in Device
      PROVE  Cardinality(LiveTokens(e)') + Cardinality(Issuing(e)') <= Cardinality(Slot)
  <2>1. CASE e = d
    <3>1. PICK L, Q : L = LiveTokens(e)' /\ Q = Issuing(e)'
      OBVIOUS
    <3>2. L = {}
      BY <1>4, <2>1, <3>1 DEF LiveTokens
    <3>3. Q \subseteq Slot
      BY <3>1 DEF Issuing
    <3>4. Cardinality(L) = 0 /\ Cardinality(Q) \in Nat /\ Cardinality(Q) <= Cardinality(Slot)
      BY <3>2, <3>3, SlotSet, FS_EmptySet
    <3> QED BY <3>1, <3>4
  <2>2. CASE e # d
    <3>1. \A q \in Slot : handler'[q].op = "issue" /\ handler'[q].device = e =>
                            handler[q].op = "issue" /\ handler[q].device = e
      BY <1>2, <2>2 DEF Only
    <3> QED BY <1>4, <3>1, BoundedStays DEF CountInv
  <2> QED BY <2>1, <2>2
<1>9. FewLockedOut'
  <2>1. ASSUME NEW e \in Device, LockedOut(e)' PROVE LockedOut(e)
    <3>1. Present(e)
      BY <1>3, <2>1 DEF LockedOut, Present
    <3>2. \A k \in AgentToken : agentToken'[k].device = e => agentToken[k].device = e
      BY <1>4
    <3>3. \A k \in AgentToken :
            agentToken[k].status = "LIVE" /\ agentToken[k].device = e =>
              \/ agentToken'[k].status = "LIVE" /\ agentToken'[k].device = e
              \/ \E q \in Slot : handler'[q].op = "issue" /\ handler'[q].device = e
      BY <1>2, <1>4
    <3>4. \A q \in Slot : handler[q].op = "issue" /\ handler[q].device = e =>
                            handler'[q].op = "issue" /\ handler'[q].device = e
      BY <1>2 DEF Only
    <3> QED BY <2>1, <3>1, <3>2, <3>3, <3>4, NotLockedOut
  <2>2. failures \in Nat
    BY DEF Inv, Tables, EnrollmentAssumption
  <2> QED BY <1>3, <2>1, <2>2, LockedStays DEF CountInv
<1> QED BY <1>5, <1>6, <1>7, <1>8, <1>9 DEF CountInv, Bounded

\* The handler that issues an agent token turns from one to issue into one to
\* count.
LEMMA IssuedCounts ==
    ASSUME EnrollmentAssumption, Inv, Inv', CountInv, NEW s \in Slot, IssueAgent(s),
           Present(handler[s].device)
    PROVE  CountInv'
<1>1. PICK d \in Device : d = handler[s].device
  BY DEF IssueAgent, Inv, HandlersOK, HandlerOK, OnDevice
<1>2. /\ Only(s) /\ handler[s].op = "issue" /\ handler[s].device = d
      /\ handler'[s].op = "record" /\ handler'[s].token = handler[s].token /\ handler'[s].device = d
  BY <1>1, OnlyGoto DEF IssueAgent
<1>3. UNCHANGED <<token, device, failures>> /\ UsesStay
  BY RowsStay DEF IssueAgent
<1>4. PICK k \in AgentToken : /\ agentToken[k] = NoAgentToken
                              /\ agentToken'[k] = [status |-> "LIVE", device |-> d]
                              /\ \A j \in AgentToken : j # k => agentToken'[j] = agentToken[j]
  BY <1>1 DEF IssueAgent, NextId, Inv, Tables
<1>5. /\ agentToken[k].status = "ABSENT" /\ agentToken[k].device = None
      /\ agentToken'[k].status = "LIVE" /\ agentToken'[k].device = d
  BY <1>4 DEF NoAgentToken
<1>6. Present(d) /\ Present(d)' /\ failures \in Nat
  BY <1>1, <1>3 DEF Present, Inv, Tables, EnrollmentAssumption
<1>7. Charged'
  <2>1. handler[s].op \in Enrolling
    BY <1>2 DEF Enrolling
  <2> QED BY <1>2, <1>3, <2>1, ChargedOn DEF CountInv
<1>8. ASSUME NEW e \in Device, Present(e)'
      PROVE  Cardinality(Counting(e)') <= Cardinality(IssuedFor(e)')
  <2>1. CASE e = d
    <3>1. PICK P, Q : P = Counting(d) /\ Q = Counting(d)'
      OBVIOUS
    <3>2. PICK K, L : K = IssuedFor(d) /\ L = IssuedFor(d)'
      OBVIOUS
    <3>3. Q \subseteq P \cup {s} /\ P \subseteq Slot
      BY <1>2, <3>1 DEF Counting, Only
    <3>4. L \subseteq AgentToken /\ k \in L /\ K \subseteq L \ {k}
      BY <1>4, <1>5, <3>2 DEF IssuedFor, Issued
    <3>5. /\ Cardinality(P) \in Nat /\ Cardinality(Q) \in Nat
          /\ Cardinality(Q) <= Cardinality(P) + 1
      BY <3>3, SlotSet, OneMore
    <3>6. /\ Cardinality(K) \in Nat /\ Cardinality(L) \in Nat
          /\ Cardinality(K) + 1 <= Cardinality(L)
      BY <3>4, AgentTokenSet, OneLess
    <3>7. Cardinality(P) <= Cardinality(K)
      BY <1>6, <3>1, <3>2 DEF Owned, CountInv
    <3> QED BY <2>1, <3>1, <3>2, <3>5, <3>6, <3>7
  <2>2. CASE e # d
    <3>1. Present(e)
      BY <1>3, <1>8 DEF Present
    <3>2. \A q \in Slot : handler'[q].op \in {"record", "count"} /\ handler'[q].device = e =>
                            handler[q].op \in {"record", "count"} /\ handler[q].device = e
      BY <1>2, <2>2 DEF Only
    <3>3. \A j \in AgentToken :
            agentToken[j].status \in {"LIVE", "REVOKED"} /\ agentToken[j].device = e =>
              agentToken'[j].status \in {"LIVE", "REVOKED"} /\ agentToken'[j].device = e
      BY <1>4, <1>5
    <3> QED BY <1>8, <3>1, <3>2, <3>3, OwnedStays DEF CountInv
  <2> QED BY <2>1, <2>2
<1>9. Tallied'
  <2>1. PICK P, Q : P = Uncounted /\ Q = Uncounted'
    OBVIOUS
  <2>2. PICK K, L : K = Issued /\ L = Issued'
    OBVIOUS
  <2>3. PICK U : U = Used /\ U = Used'
    BY <1>3 DEF Used
  <2>4. s \in Q
    BY <1>2, <1>6, <2>1 DEF Uncounted, Present
  <2>5. Q \subseteq Slot /\ P \subseteq Q \ {s}
    BY <1>2, <1>3, <2>1, <2>4 DEF Uncounted, Only, Present
  <2>6. K \subseteq AgentToken /\ L \subseteq K \cup {k}
    BY <1>4, <2>2 DEF Issued
  <2>7. /\ Cardinality(P) \in Nat /\ Cardinality(Q) \in Nat
        /\ Cardinality(P) + 1 <= Cardinality(Q)
    BY <2>4, <2>5, SlotSet, OneLess
  <2>8. /\ Cardinality(K) \in Nat /\ Cardinality(L) \in Nat
        /\ Cardinality(L) <= Cardinality(K) + 1
    BY <2>6, AgentTokenSet, OneMore
  <2>9. /\ IsFiniteSet(U) /\ Cardinality(U) \in Nat
        /\ Cardinality(K) <= Cardinality(U) + Cardinality(P) + failures
    BY <2>1, <2>2, <2>3, FS_CardinalityType DEF Tallied, CountInv
  <2>10. Cardinality(L) <= Cardinality(U) + Cardinality(Q) + failures'
    BY <1>3, <1>6, <2>7, <2>8, <2>9
  <2> QED BY <2>1, <2>2, <2>3, <2>9, <2>10 DEF Tallied
<1>10. ASSUME NEW e \in Device
       PROVE  Cardinality(LiveTokens(e)') + Cardinality(Issuing(e)') <= Cardinality(Slot)
  <2>1. CASE e = d
    <3>1. PICK P, Q : P = Issuing(d) /\ Q = Issuing(d)'
      OBVIOUS
    <3>2. PICK K, L : K = LiveTokens(d) /\ L = LiveTokens(d)'
      OBVIOUS
    <3>3. s \in P /\ P \subseteq Slot /\ Q \subseteq P \ {s}
      BY <1>2, <3>1 DEF Issuing, Only
    <3>4. K \subseteq AgentToken /\ L \subseteq K \cup {k}
      BY <1>4, <3>2 DEF LiveTokens
    <3>5. /\ Cardinality(P) \in Nat /\ Cardinality(Q) \in Nat
          /\ Cardinality(Q) + 1 <= Cardinality(P)
      BY <3>3, SlotSet, OneLess
    <3>6. /\ Cardinality(K) \in Nat /\ Cardinality(L) \in Nat
          /\ Cardinality(L) <= Cardinality(K) + 1
      BY <3>4, AgentTokenSet, OneMore
    <3>7. Cardinality(K) + Cardinality(P) <= Cardinality(Slot) /\ Cardinality(Slot) \in Nat
      BY <3>1, <3>2, Slots DEF Bounded, CountInv
    <3> QED BY <2>1, <3>1, <3>2, <3>5, <3>6, <3>7
  <2>2. CASE e # d
    <3>1. \A q \in Slot : handler'[q].op = "issue" /\ handler'[q].device = e =>
                            handler[q].op = "issue" /\ handler[q].device = e
      BY <1>2 DEF Only
    <3>2. \A j \in AgentToken :
            agentToken'[j].status = "LIVE" /\ agentToken'[j].device = e =>
              agentToken[j].status = "LIVE" /\ agentToken[j].device = e
      BY <1>4, <1>5, <2>2
    <3> QED BY <3>1, <3>2, BoundedStays DEF CountInv
  <2> QED BY <2>1, <2>2
<1>11. FewLockedOut'
  <2>1. ASSUME NEW e \in Device, LockedOut(e)' PROVE LockedOut(e)
    <3>1. Present(e)
      BY <1>3, <2>1 DEF LockedOut, Present
    <3>2. e # d
      <4>1. k \in LiveTokens(d)'
        BY <1>5 DEF LiveTokens
      <4> QED BY <2>1, <4>1 DEF LockedOut
    <3>3. \A j \in AgentToken : agentToken'[j].device = e => agentToken[j].device = e
      BY <1>4, <1>5, <3>2
    <3>4. \A j \in AgentToken :
            agentToken[j].status = "LIVE" /\ agentToken[j].device = e =>
              agentToken'[j].status = "LIVE" /\ agentToken'[j].device = e
      BY <1>4, <1>5
    <3>5. \A q \in Slot : handler[q].op = "issue" /\ handler[q].device = e =>
                            handler'[q].op = "issue" /\ handler'[q].device = e
      BY <1>2, <3>2 DEF Only
    <3> QED BY <2>1, <3>1, <3>3, <3>4, <3>5, NotLockedOut
  <2> QED BY <1>3, <1>6, <2>1, LockedStays DEF CountInv
<1> QED BY <1>7, <1>8, <1>9, <1>10, <1>11 DEF CountInv, Owned, Bounded

\* A handler goes on, or ends since its device is gone.
LEMMA MovesOn ==
    ASSUME EnrollmentAssumption, Inv, Inv', CountInv, NEW s \in Slot, Only(s),
           UNCHANGED <<token, device, agentToken, failures>>,
           handler'[s].op = "quiet" \/
             (/\ handler[s].op = "record" /\ handler'[s].op = "count"
              /\ handler'[s].token = handler[s].token /\ handler'[s].device = handler[s].device),
           handler'[s].op = "quiet" => ~Present(handler[s].device)
    PROVE  CountInv'
<1>1. UsesStay
  BY RowsStay
<1>2. Charged'
  <2>1. handler'[s].op \in Enrolling =>
          handler[s].op \in Enrolling /\ handler'[s].token = handler[s].token
    BY DEF Enrolling
  <2> QED BY <1>1, <2>1, ChargedOn DEF CountInv
<1>3. Owned'
  <2>1. handler'[s].op \in {"record", "count"} =>
          handler[s].op \in {"record", "count"} /\ handler'[s].device = handler[s].device
    OBVIOUS
  <2> QED BY <2>1, OwnedOn DEF CountInv
<1>4. Tallied'
  <2>1. \A q \in Slot :
          handler[q].op \in {"record", "count"} /\ Present(handler[q].device) =>
            handler'[q].op \in {"record", "count"} /\ Present(handler[q].device)'
    BY DEF Only, Present
  <2> QED BY <1>1, <2>1, TalliedStays DEF UsesStay, CountInv
<1>5. Bounded'
  BY BoundedOn DEF CountInv
<1>6. FewLockedOut'
  BY LockedOn DEF CountInv
<1> QED BY <1>2, <1>3, <1>4, <1>5, <1>6 DEF CountInv

LEMMA IssueAgentCounts ==
    ASSUME EnrollmentAssumption, Inv, Inv', CountInv, NEW s \in Slot, IssueAgent(s)
    PROVE  CountInv'
<1>1. CASE Present(handler[s].device)
  BY <1>1, IssuedCounts
<1>2. CASE ~Present(handler[s].device)
  <2>1. Only(s) /\ handler'[s].op = "quiet" /\ UNCHANGED <<token, device, agentToken, failures>>
    BY <1>2, OnlyDone DEF IssueAgent
  <2> QED BY <1>2, <2>1, MovesOn
<1> QED BY <1>1, <1>2

LEMMA RecordEnrolmentCounts ==
    ASSUME EnrollmentAssumption, Inv, Inv', CountInv, NEW s \in Slot, RecordEnrolment(s)
    PROVE  CountInv'
<1>1. handler[s].op = "record" /\ UNCHANGED <<token, device, agentToken, failures>>
  BY DEF RecordEnrolment
<1>2. CASE Present(handler[s].device)
  <2>1. Only(s) /\ handler'[s].op = "count"
        /\ handler'[s].token = handler[s].token /\ handler'[s].device = handler[s].device
    BY <1>2, OnlyGoto DEF RecordEnrolment
  <2> QED BY <1>1, <2>1, MovesOn
<1>3. CASE ~Present(handler[s].device)
  <2>1. Only(s) /\ handler'[s].op = "quiet"
    BY <1>3, OnlyDone DEF RecordEnrolment
  <2> QED BY <1>1, <1>3, <2>1, MovesOn
<1> QED BY <1>2, <1>3

\* A use more is counted, and an enrolment fewer is to come.
LEMMA UseCounted ==
    ASSUME EnrollmentAssumption, Inv, Inv', CountInv, NEW s \in Slot, NEW t \in Token,
           Only(s), handler[s].op = "count", handler[s].token = t, handler'[s].op = "quiet",
           UNCHANGED <<device, agentToken, failures>>,
           token[t] # NoToken,
           token'[t].uses = token[t].uses + 1, token'[t].limit = token[t].limit,
           \A r \in Token : r # t => token'[r] = token[r]
    PROVE  CountInv'
<1>1. PICK u \in Nat, m \in Nat : u = token[t].uses /\ m = token[t].limit
  <2>1. token[t] \in TokenRow \ {NoToken}
    BY DEF Inv, Tables
  <2> QED BY <2>1, TokenFields DEF EnrollmentAssumption
<1>2. ASSUME NEW r \in Token
      PROVE  token'[r].uses + Cardinality(Pending(r)') <= token'[r].limit + Cardinality(Slot) - 1
  <2>1. CASE r # t
    <3>1. \A q \in Slot : handler'[q].op \in Enrolling /\ handler'[q].token = r =>
                            handler[q].op \in Enrolling /\ handler[q].token = r
      BY DEF Only, Enrolling
    <3> QED BY <2>1, <3>1, ChargedStays DEF CountInv
  <2>2. CASE r = t
    <3>1. PICK P, Q : P = Pending(t) /\ Q = Pending(t)'
      OBVIOUS
    <3>2. s \in P /\ P \subseteq Slot
      BY <3>1 DEF Pending, Enrolling
    <3>3. s \notin Q
      BY <3>1 DEF Pending, Enrolling
    <3>4. Q \subseteq P \ {s}
      BY <3>1, <3>3 DEF Pending, Only
    <3>5. /\ Cardinality(P) \in Nat /\ Cardinality(Q) \in Nat /\ Cardinality(Slot) \in Nat
          /\ Cardinality(Q) + 1 <= Cardinality(P)
      BY <3>2, <3>4, SlotSet, OneLess, Slots
    <3>6. u + Cardinality(P) <= m + Cardinality(Slot) - 1
      BY <1>1, <3>1 DEF Charged, CountInv
    <3>7. (u + 1) + Cardinality(Q) <= m + Cardinality(Slot) - 1
      BY <3>5, <3>6
    <3> QED BY <1>1, <2>2, <3>1, <3>7
  <2> QED BY <2>1, <2>2
<1>3. Owned'
  <2>1. handler'[s].op \notin {"record", "count"}
    OBVIOUS
  <2> QED BY <2>1, OwnedOn DEF CountInv
<1>4. Tallied'
  <2>1. PICK P, Q : P = Uncounted /\ Q = Uncounted'
    OBVIOUS
  <2>2. PICK K : K = Issued /\ K = Issued'
    BY DEF Issued
  <2>3. PICK U, V : U = Used /\ V = Used'
    OBVIOUS
  <2>4. P \subseteq Q \cup {s} /\ Q \subseteq Slot
    BY <2>1 DEF Uncounted, Only, Present
  <2>5. /\ Cardinality(P) \in Nat /\ Cardinality(Q) \in Nat
        /\ Cardinality(P) <= Cardinality(Q) + 1
    BY <2>4, SlotSet, OneMore
  <2>6. IsFiniteSet(U) /\ Cardinality(U) \in Nat
    BY <2>3, FS_CardinalityType DEF Tallied, CountInv
  <2>7. PICK x : x = <<t, u + 1>>
    OBVIOUS
  <2>8. V = U \cup {x} /\ x \notin U
    <3>1. \A r, n : <<r, n>> \in U <=> r \in Token /\ n \in 1 .. token[r].uses
      BY <2>3 DEF Used
    <3>2. \A r, n : <<r, n>> \in V <=> r \in Token /\ n \in 1 .. token'[r].uses
      BY <2>3 DEF Used
    <3>3. 1 .. (u + 1) = (1 .. u) \cup {u + 1} /\ u + 1 \notin 1 .. u
      BY <1>1
    <3>4. x \notin U
      BY <1>1, <2>7, <3>1, <3>3
    <3>5. ASSUME NEW y \in V PROVE y \in U \cup {x}
      <4>1. PICK r \in Token : \E n \in 1 .. token'[r].uses : y = <<r, n>>
        BY <2>3 DEF Used
      <4>2. CASE r = t
        BY <1>1, <2>7, <3>1, <3>3, <4>1, <4>2
      <4>3. CASE r # t
        BY <3>1, <4>1, <4>3
      <4> QED BY <4>2, <4>3
    <3>6. ASSUME NEW y \in U PROVE y \in V
      <4>1. PICK r \in Token : \E n \in 1 .. token[r].uses : y = <<r, n>>
        BY <2>3 DEF Used
      <4>2. CASE r = t
        BY <1>1, <3>2, <3>3, <4>1, <4>2
      <4>3. CASE r # t
        BY <3>2, <4>1, <4>3
      <4> QED BY <4>2, <4>3
    <3>7. x \in V
      BY <1>1, <2>7, <3>2, <3>3
    <3> QED BY <3>4, <3>5, <3>6, <3>7
  <2>9. IsFiniteSet(V) /\ Cardinality(V) = Cardinality(U) + 1
    BY <2>6, <2>8, FS_AddElement
  <2>10. Cardinality(K) <= Cardinality(U) + Cardinality(P) + failures
    BY <2>1, <2>2, <2>3 DEF Tallied, CountInv
  <2>11. Cardinality(K) \in Nat /\ failures \in Nat /\ failures' = failures
    BY <2>2, AgentTokenSet DEF Issued, Inv, Tables, EnrollmentAssumption
  <2>12. Cardinality(K) <= Cardinality(V) + Cardinality(Q) + failures'
    BY <2>5, <2>6, <2>9, <2>10, <2>11
  <2> QED BY <2>1, <2>2, <2>3, <2>9, <2>12 DEF Tallied
<1>5. Bounded'
  BY BoundedOn DEF CountInv
<1>6. FewLockedOut'
  BY LockedOn DEF CountInv
<1> QED BY <1>2, <1>3, <1>4, <1>5, <1>6 DEF CountInv, Charged

LEMMA CountUseCounts ==
    ASSUME EnrollmentAssumption, Inv, Inv', CountInv, NEW s \in Slot, CountUse(s)
    PROVE  CountInv'
<1>1. /\ Only(s) /\ handler[s].op = "count" /\ handler'[s].op = "quiet"
      /\ UNCHANGED <<device, agentToken, failures>>
  BY OnlyDone DEF CountUse
<1>2. PICK t \in Token : t = handler[s].token /\ token[t] # NoToken
  BY <1>1 DEF Inv, HandlersOK, HandlerOK, Enrolling
<1>3. PICK r \in TokenRow \ {NoToken} : r = token[t]
  BY <1>2 DEF Inv, Tables
<1> DEFINE pins == handler[s].pin = None /\ token[t].limit = 1
<1>4. CASE pins /\ ~Present(handler[s].device)
  <2>1. UNCHANGED token
    BY <1>2, <1>4 DEF CountUse
  <2> QED BY <1>1, <1>4, <2>1, MovesOn
<1>5. CASE ~(pins /\ ~Present(handler[s].device))
  <2>1. PICK d : token' = [token EXCEPT ![t].uses = @ + 1, ![t].device = d]
    <3>1. CASE pins
      BY <1>2, <1>5, <3>1 DEF CountUse
    <3>2. CASE ~pins
      <4>1. token' = [token EXCEPT ![t].uses = @ + 1, ![t].device = @]
        BY <1>2, <3>2 DEF CountUse
      <4>2. PICK d : d = r.device
        OBVIOUS
      <4>3. token' = [token EXCEPT ![t].uses = @ + 1, ![t].device = d]
        BY <1>3, <4>1, <4>2 DEF Inv, Tables, TokenRow, NoToken
      <4> QED BY <4>3
    <3> QED BY <3>1, <3>2
  <2>2. PICK v : v = [r EXCEPT !.uses = @ + 1]
    OBVIOUS
  <2>3. PICK w : w = [v EXCEPT !.device = d]
    OBVIOUS
  <2>4. v \in TokenRow /\ v # NoToken /\ v.uses = r.uses + 1 /\ v.limit = r.limit
    BY <2>2, TokenCounted
  <2>5. w.uses = v.uses /\ w.limit = v.limit
    BY <2>3, <2>4 DEF TokenRow, NoToken
  <2>6. token' = [token EXCEPT ![t] = w] /\ token \in [Token -> TokenRow]
    BY <1>3, <2>1, <2>2, <2>3 DEF Inv, Tables
  <2>7. token'[t] = w /\ \A q \in Token : q # t => token'[q] = token[q]
    BY <2>6
  <2>8. token'[t].uses = token[t].uses + 1 /\ token'[t].limit = token[t].limit
    BY <1>3, <2>4, <2>5, <2>7
  <2> QED BY <1>1, <1>2, <2>7, <2>8, UseCounted
<1> QED BY <1>4, <1>5

\* The agent tokens of a deleted device go, and the handlers that had issued
\* them are counted no more.
LEMMA DeleteDeviceCounts ==
    ASSUME EnrollmentAssumption, Inv, Inv', CountInv, NEW s \in Slot, DeleteDevice(s)
    PROVE  CountInv'
<1>1. PICK d \in Device : d = handler[s].device /\ device[d] # NoDevice
  BY DEF DeleteDevice, Inv, HandlersOK, HandlerOK, OnDevice
<1>2. /\ Only(s) /\ handler[s].op = "delete" /\ handler'[s].op = "quiet"
      /\ UNCHANGED failures /\ failures \in Nat
  BY OnlyDone DEF DeleteDevice, Inv, Tables, EnrollmentAssumption
<1>3. ~Present(d)' /\ \A e \in Device : e # d => (Present(e)' <=> Present(e))
  <2>1. PICK r \in DeviceRow \ {NoDevice} : r = device[d]
    BY <1>1 DEF Inv, Tables
  <2>2. PICK u : u = [r EXCEPT !.status = "DELETED"]
    OBVIOUS
  <2>3. u.status = "DELETED"
    BY <2>2 DEF DeviceRow, NoDevice
  <2>4. device' = [device EXCEPT ![d] = u] /\ device \in [Device -> DeviceRow]
    BY <1>1, <2>1, <2>2 DEF DeleteDevice, Inv, Tables
  <2> QED BY <2>3, <2>4 DEF Present
<1>4. UsesStay
  BY <1>1, UnpinnedRows DEF DeleteDevice, UsesStay
<1>5. ASSUME NEW k \in AgentToken
      PROVE  IF agentToken[k].device = d
             THEN agentToken'[k].status = "DELETED" /\ agentToken'[k].device = None
             ELSE agentToken'[k] = agentToken[k]
  BY <1>1, <1>5 DEF DeleteDevice
<1>6. None \notin Device
  BY Bounds
<1>7. Charged'
  <2>1. handler'[s].op \notin Enrolling
    BY <1>2 DEF Enrolling
  <2> QED BY <1>2, <1>4, <2>1, ChargedOn DEF CountInv
<1>8. ASSUME NEW e \in Device, Present(e)'
      PROVE  Cardinality(Counting(e)') <= Cardinality(IssuedFor(e)')
  <2>1. e # d /\ Present(e)
    BY <1>3, <1>8
  <2>2. \A q \in Slot : handler'[q].op \in {"record", "count"} /\ handler'[q].device = e =>
                          handler[q].op \in {"record", "count"} /\ handler[q].device = e
    BY <1>2 DEF Only
  <2>3. \A k \in AgentToken :
          agentToken[k].status \in {"LIVE", "REVOKED"} /\ agentToken[k].device = e =>
            agentToken'[k].status \in {"LIVE", "REVOKED"} /\ agentToken'[k].device = e
    BY <1>5, <2>1
  <2> QED BY <1>8, <2>1, <2>2, <2>3, OwnedStays DEF CountInv
<1>9. ASSUME ~Present(d) PROVE Tallied'
  <2>1. \A q \in Slot :
          handler[q].op \in {"record", "count"} /\ Present(handler[q].device) =>
            handler'[q].op \in {"record", "count"} /\ Present(handler[q].device)'
    <3>1. ASSUME NEW q \in Slot, handler[q].op \in {"record", "count"}, Present(handler[q].device)
          PROVE  handler'[q].op \in {"record", "count"} /\ Present(handler[q].device)'
      <4>1. handler'[q] = handler[q] /\ handler[q].op \in Issues
        BY <1>2, <3>1 DEF Only, Issues
      <4>2. PICK e \in Device : e = handler[q].device
        BY <4>1, OnDevicePresent
      <4>3. Present(e)'
        BY <1>3, <1>9, <3>1, <4>2
      <4> QED BY <3>1, <4>1, <4>2, <4>3 DEF Present
    <3> QED BY <3>1
  <2>2. \A k \in AgentToken : agentToken'[k].status \in {"LIVE", "REVOKED"} =>
                                agentToken[k].status \in {"LIVE", "REVOKED"}
    BY <1>5
  <2>3. Tallied'
    BY <1>2, <1>4, <2>1, <2>2, TalliedStays DEF UsesStay, CountInv
  <2> QED BY <2>3
<1>10. ASSUME Present(d) PROVE Tallied'
  <2>1. PICK P, Q, C : P = Uncounted /\ Q = Uncounted' /\ C = Counting(d)
    OBVIOUS
  <2>2. PICK K, L, D : K = Issued /\ L = Issued' /\ D = IssuedFor(d)
    OBVIOUS
  <2>3. PICK U : U = Used /\ U = Used'
    BY <1>4 DEF Used, UsesStay
  <2>4. P \subseteq Q \cup C
    <3>1. ASSUME NEW q \in P, q \notin C PROVE q \in Q
      <4>1. q \in Slot /\ handler[q].op \in {"record", "count"} /\ Present(handler[q].device)
        BY <2>1, <3>1 DEF Uncounted
      <4>2. handler'[q] = handler[q] /\ handler[q].op \in Issues
        BY <1>2, <4>1 DEF Only, Issues
      <4>3. PICK e \in Device : e = handler[q].device
        BY <4>1, <4>2, OnDevicePresent
      <4>4. e # d
        BY <2>1, <3>1, <4>1, <4>3 DEF Counting
      <4>5. Present(e)'
        BY <1>3, <4>1, <4>3, <4>4
      <4> QED BY <2>1, <4>1, <4>2, <4>3, <4>5 DEF Uncounted, Present
    <3> QED BY <3>1
  <2>5. Q \subseteq Slot /\ C \subseteq Slot
    BY <2>1 DEF Uncounted, Counting
  <2>6. L \subseteq K \ D /\ D \subseteq K /\ K \subseteq AgentToken
    BY <1>5, <2>2 DEF Issued, IssuedFor
  <2>7. /\ Cardinality(P) \in Nat /\ Cardinality(Q) \in Nat /\ Cardinality(C) \in Nat
        /\ Cardinality(P) <= Cardinality(Q) + Cardinality(C)
    <3>1. IsFiniteSet(Q) /\ IsFiniteSet(C) /\ Cardinality(Q) \in Nat /\ Cardinality(C) \in Nat
      BY <2>5, SlotSet
    <3>2. PICK W : W = Q \cup C
      OBVIOUS
    <3>3. PICK I : I = Q \cap C
      OBVIOUS
    <3>4. IsFiniteSet(W) /\ Cardinality(W) = Cardinality(Q) + Cardinality(C) - Cardinality(I)
      BY <3>1, <3>2, <3>3, FS_Union
    <3>5. Cardinality(I) \in Nat
      BY <3>1, <3>3, Fewer
    <3>6. Cardinality(P) \in Nat /\ Cardinality(P) <= Cardinality(W) /\ Cardinality(W) \in Nat
      BY <2>4, <3>2, <3>4, Fewer
    <3> QED BY <3>1, <3>4, <3>5, <3>6
  <2>8. /\ Cardinality(K) \in Nat /\ Cardinality(L) \in Nat /\ Cardinality(D) \in Nat
        /\ Cardinality(L) <= Cardinality(K) - Cardinality(D)
    <3>1. IsFiniteSet(K) /\ Cardinality(K) \in Nat /\ Cardinality(D) \in Nat
      BY <2>6, AgentTokenSet
    <3>2. PICK W : W = K \ D
      OBVIOUS
    <3>3. K \cap D = D
      BY <2>6
    <3>4. IsFiniteSet(W) /\ Cardinality(W) = Cardinality(K) - Cardinality(D)
      BY <3>1, <3>2, <3>3, FS_Difference
    <3>5. Cardinality(L) \in Nat /\ Cardinality(L) <= Cardinality(W)
      BY <2>6, <3>2, <3>4, Fewer
    <3> QED BY <3>1, <3>4, <3>5
  <2>9. Cardinality(C) <= Cardinality(D)
    BY <1>10, <2>1, <2>2 DEF Owned, CountInv
  <2>10. /\ IsFiniteSet(U) /\ Cardinality(U) \in Nat
         /\ Cardinality(K) <= Cardinality(U) + Cardinality(P) + failures
    BY <2>1, <2>2, <2>3, FS_CardinalityType DEF Tallied, CountInv
  <2>11. Cardinality(L) <= Cardinality(U) + Cardinality(Q) + failures'
    BY <1>2, <2>7, <2>8, <2>9, <2>10
  <2> QED BY <2>1, <2>2, <2>3, <2>10, <2>11 DEF Tallied
<1>11. ASSUME NEW e \in Device
       PROVE  Cardinality(LiveTokens(e)') + Cardinality(Issuing(e)') <= Cardinality(Slot)
  <2>1. \A q \in Slot : handler'[q].op = "issue" /\ handler'[q].device = e =>
                          handler[q].op = "issue" /\ handler[q].device = e
    BY <1>2 DEF Only
  <2>2. \A k \in AgentToken :
          agentToken'[k].status = "LIVE" /\ agentToken'[k].device = e =>
            agentToken[k].status = "LIVE" /\ agentToken[k].device = e
    BY <1>5
  <2> QED BY <2>1, <2>2, BoundedStays DEF CountInv
<1>12. FewLockedOut'
  <2>1. ASSUME NEW e \in Device, LockedOut(e)' PROVE LockedOut(e)
    <3>1. e # d /\ Present(e)
      BY <1>3, <2>1 DEF LockedOut
    <3>2. \A k \in AgentToken : agentToken'[k].device = e => agentToken[k].device = e
      BY <1>5, <1>6
    <3>3. \A k \in AgentToken :
            agentToken[k].status = "LIVE" /\ agentToken[k].device = e =>
              agentToken'[k].status = "LIVE" /\ agentToken'[k].device = e
      BY <1>5, <3>1
    <3>4. \A q \in Slot : handler[q].op = "issue" /\ handler[q].device = e =>
                            handler'[q].op = "issue" /\ handler'[q].device = e
      BY <1>2 DEF Only
    <3> QED BY <2>1, <3>1, <3>2, <3>3, <3>4, NotLockedOut
  <2> QED BY <1>2, <2>1, LockedStays DEF CountInv
<1> QED BY <1>7, <1>8, <1>9, <1>10, <1>11, <1>12 DEF CountInv, Owned, Bounded

\* Each failure leaves at most one device without an agent token, or one agent
\* token without a use.
LEMMA HandlerFailsCounts ==
    ASSUME EnrollmentAssumption, Inv, Inv', CountInv, NEW s \in Slot, HandlerFails(s)
    PROVE  CountInv'
<1>1. /\ Only(s) /\ handler'[s].op = "quiet" /\ UNCHANGED <<token, device, agentToken>>
      /\ failures' = failures + 1 /\ failures \in Nat
  BY OnlyDone DEF HandlerFails, Inv, Tables, EnrollmentAssumption
<1>2. Charged'
  <2>1. handler'[s].op \notin Enrolling /\ UsesStay
    BY <1>1, RowsStay DEF Enrolling
  <2> QED BY <1>1, <2>1, ChargedOn DEF CountInv
<1>3. Owned'
  <2>1. handler'[s].op \notin {"record", "count"}
    BY <1>1
  <2> QED BY <1>1, <2>1, OwnedOn DEF CountInv
<1>4. Tallied'
  <2>1. PICK P, Q : P = Uncounted /\ Q = Uncounted'
    OBVIOUS
  <2>2. PICK K : K = Issued /\ K = Issued'
    BY <1>1 DEF Issued
  <2>3. PICK U : U = Used /\ U = Used'
    BY <1>1 DEF Used
  <2>4. P \subseteq Q \cup {s} /\ Q \subseteq Slot
    BY <1>1, <2>1 DEF Uncounted, Only, Present
  <2>5. /\ Cardinality(P) \in Nat /\ Cardinality(Q) \in Nat
        /\ Cardinality(P) <= Cardinality(Q) + 1
    BY <2>4, SlotSet, OneMore
  <2>6. /\ IsFiniteSet(U) /\ Cardinality(U) \in Nat /\ Cardinality(K) \in Nat
        /\ Cardinality(K) <= Cardinality(U) + Cardinality(P) + failures
    BY <2>1, <2>2, <2>3, FS_CardinalityType, AgentTokenSet DEF Issued, Tallied, CountInv
  <2>7. Cardinality(K) <= Cardinality(U) + Cardinality(Q) + failures'
    BY <1>1, <2>5, <2>6
  <2> QED BY <2>1, <2>2, <2>3, <2>6, <2>7 DEF Tallied
<1>5. Bounded'
  BY <1>1, BoundedOn DEF CountInv
<1>6. FewLockedOut'
  <2>1. PICK c : c = handler[s].device
    OBVIOUS
  <2>2. ASSUME NEW d \in Device, LockedOut(d)', d # c PROVE LockedOut(d)
    <3>1. Present(d)
      BY <1>1, <2>2 DEF LockedOut, Present
    <3>2. \A q \in Slot : handler[q].op = "issue" /\ handler[q].device = d =>
                            handler'[q].op = "issue" /\ handler'[q].device = d
      BY <1>1, <2>1, <2>2 DEF Only
    <3> QED BY <1>1, <2>2, <3>1, <3>2, NotLockedOut
  <2>3. PICK D, E : D = {d \in Device : LockedOut(d)} /\ E = {d \in Device : LockedOut(d)'}
    OBVIOUS
  <2>4. IsFiniteSet(D)
    BY <2>3, Slots, Fewer
  <2>5. E \subseteq D \cup {c}
    BY <2>2, <2>3
  <2>6. /\ Cardinality(D) \in Nat /\ Cardinality(E) \in Nat
        /\ Cardinality(E) <= Cardinality(D) + 1
    BY <2>4, <2>5, OneMore
  <2>7. Cardinality(D) <= failures
    BY <2>3 DEF FewLockedOut, CountInv
  <2>8. Cardinality(E) <= failures'
    BY <1>1, <2>6, <2>7
  <2> QED BY <2>3, <2>8 DEF FewLockedOut
<1> QED BY <1>2, <1>3, <1>4, <1>5, <1>6 DEF CountInv

LEMMA CountStep ==
    ASSUME EnrollmentAssumption, Inv, Inv', CountInv, [Next]_enrollmentVars
    PROVE  CountInv'
<1>1. ASSUME NEW s \in Slot, Admin(s) PROVE CountInv'
  <2>1. CASE DeleteDevice(s)
    BY <2>1, DeleteDeviceCounts
  <2>2. CASE ~DeleteDevice(s)
    BY <1>1, <2>2, AdminAside, AsideCounts
  <2> QED BY <2>1, <2>2
<1>2. ASSUME NEW s \in Slot, Machine(s) PROVE CountInv'
  <2>1. CASE \E t \in Token, n \in Serial : EnrollRead(s, t, n)
    BY <2>1, EnrollReadCounts
  <2>2. CASE FindDevice(s) \/ CreateDevice(s)
    BY <2>2, FindAside, CreateAside, AsideCounts
  <2>3. CASE RevokeAgents(s) \/ IssueAgent(s)
    BY <2>3, RevokeAgentsCounts, IssueAgentCounts
  <2>4. CASE RecordEnrolment(s) \/ CountUse(s)
    BY <2>4, RecordEnrolmentCounts, CountUseCounts
  <2> QED BY <1>2, <2>1, <2>2, <2>3, <2>4 DEF Machine
<1>3. CASE \E s \in Slot : HandlerFails(s)
  BY <1>3, HandlerFailsCounts
<1>4. CASE (\E x \in Deadline : Pass(x)) \/ UNCHANGED enrollmentVars
  <2>1. UNCHANGED <<token, device, agentToken, handler, failures>>
    BY <1>4 DEF Pass, enrollmentVars
  <2>2. Aside
    BY <2>1, RowsStay DEF Aside, Onward
  <2> QED BY <2>2, AsideCounts
<1> QED BY <1>1, <1>2, <1>3, <1>4 DEF Next

LEMMA InitCounts == EnrollmentAssumption /\ EnrollmentInit => CountInv
<1> SUFFICES ASSUME EnrollmentAssumption, EnrollmentInit PROVE CountInv
  OBVIOUS
<1>1. /\ \A s \in Slot : handler[s].op = "quiet"
      /\ \A t \in Token : token[t].uses = 0 /\ token[t].limit = 0
      /\ \A d \in Device : ~Present(d)
      /\ \A k \in AgentToken : agentToken[k].status = "ABSENT"
      /\ failures = 0
  BY QuietHandler DEF EnrollmentInit, NoToken, NoDevice, NoAgentToken, Present
<1>2. Cardinality({}) = 0 /\ IsFiniteSet({}) /\ Cardinality(Slot) \in Nat /\ Cardinality(Slot) >= 1
  BY FS_EmptySet, Slots
<1>3. Charged
  <2>1. \A t \in Token : Pending(t) = {}
    BY <1>1 DEF Pending, Enrolling
  <2> QED BY <1>1, <1>2, <2>1 DEF Charged
<1>4. Owned
  BY <1>1 DEF Owned
<1>5. Tallied
  <2>1. Issued = {} /\ Uncounted = {}
    BY <1>1 DEF Issued, Uncounted
  <2>2. Used = {}
    <3>1. 1 .. 0 = {}
      OBVIOUS
    <3>2. \A t \in Token : {t} \X (1 .. token[t].uses) = {}
      BY <1>1, <3>1
    <3> QED BY <3>2 DEF Used
  <2> QED BY <1>1, <1>2, <2>1, <2>2 DEF Tallied
<1>6. Bounded
  <2>1. \A d \in Device : LiveTokens(d) = {} /\ Issuing(d) = {}
    BY <1>1 DEF LiveTokens, Issuing
  <2>2. 0 + 0 <= Cardinality(Slot)
    BY <1>2
  <2> QED BY <1>2, <2>1, <2>2 DEF Bounded
<1>7. FewLockedOut
  <2>1. PICK D : D = {d \in Device : LockedOut(d)}
    OBVIOUS
  <2>2. D = {}
    BY <1>1, <2>1 DEF LockedOut
  <2>3. Cardinality(D) <= failures
    BY <1>1, <1>2, <2>2
  <2> QED BY <2>1, <2>3 DEF FewLockedOut
<1> QED BY <1>3, <1>4, <1>5, <1>6, <1>7 DEF CountInv

\* An enrolment that overlaps others takes a token beyond its limit only as far
\* as they read the token before its last use was counted; and every agent token
\* of a device that is there is paid for by a use, an enrolment about to count
\* one, or a failure.
THEOREM UseLimitHolds == Spec => []UseLimit
<1>1. EnrollmentInit => Inv /\ CountInv
  BY EnrollmentAssumption, InitInv, InitCounts
<1>2. Inv /\ CountInv /\ [Next]_enrollmentVars => Inv' /\ CountInv'
  BY EnrollmentAssumption, InvStep, CountStep
<1>3. Inv /\ CountInv => UseLimit
  <2> SUFFICES ASSUME Inv, CountInv PROVE UsesBounded /\ UsesCounted
    BY DEF UseLimit
  <2>1. ASSUME NEW t \in Token PROVE token[t].uses <= token[t].limit + Cardinality(Slot) - 1
    <3>1. PICK P : P = Pending(t)
      OBVIOUS
    <3>2. Cardinality(P) \in Nat /\ Cardinality(Slot) \in Nat
      BY <3>1, EnrollmentAssumption, SlotSet, Slots DEF Pending
    <3>3. token[t].uses \in Nat /\ token[t].limit \in Nat
      <4>1. token[t] \in TokenRow
        BY DEF Inv, Tables
      <4>2. CASE token[t] = NoToken
        BY <4>2 DEF NoToken
      <4>3. CASE token[t] # NoToken
        BY <4>1, <4>3, EnrollmentAssumption, TokenFields DEF EnrollmentAssumption
      <4> QED BY <4>2, <4>3
    <3>4. token[t].uses + Cardinality(P) <= token[t].limit + Cardinality(Slot) - 1
      BY <3>1 DEF CountInv, Charged
    <3> QED BY <3>2, <3>3, <3>4
  <2>2. UsesCounted
    <3>1. PICK P, Q : P = Uncounted /\ Q = {s \in Slot : handler[s].op \in {"record", "count"}}
      OBVIOUS
    <3>2. P \subseteq Q /\ Q \subseteq Slot
      BY <3>1 DEF Uncounted
    <3>3. Cardinality(P) \in Nat /\ Cardinality(Q) \in Nat /\ Cardinality(P) <= Cardinality(Q)
      BY <3>2, EnrollmentAssumption, SlotSet, Fewer
    <3>4. PICK K, U : K = Issued /\ U = Used
      OBVIOUS
    <3>5. /\ Cardinality(K) \in Nat /\ Cardinality(U) \in Nat /\ failures \in Nat
          /\ Cardinality(K) <= Cardinality(U) + Cardinality(P) + failures
      BY <3>1, <3>4, EnrollmentAssumption, AgentTokenSet, FS_CardinalityType
         DEF Issued, CountInv, Tallied, Inv, Tables, EnrollmentAssumption
    <3>6. Cardinality(K) <= Cardinality(U) + Cardinality(Q) + failures
      BY <3>3, <3>5
    <3> QED BY <3>1, <3>4, <3>6 DEF UsesCounted
  <2> QED BY <2>1, <2>2 DEF UsesBounded
<1> QED BY <1>1, <1>2, <1>3, PTL DEF Spec

\* A device keeps a live agent token, and never more than there are enrolments
\* at once: the last handler to revoke is still to issue one, or has.
THEOREM LiveTokensAreKept == Spec => []LiveTokensKept
<1>1. EnrollmentInit => Inv /\ CountInv
  BY EnrollmentAssumption, InitInv, InitCounts
<1>2. Inv /\ CountInv /\ [Next]_enrollmentVars => Inv' /\ CountInv'
  BY EnrollmentAssumption, InvStep, CountStep
<1>3. Inv /\ CountInv => LiveTokensKept
  <2> SUFFICES ASSUME Inv, CountInv, NEW d \in Device
               PROVE  Cardinality(LiveTokens(d)) <= Cardinality(Slot)
    BY DEF LiveTokensKept, LiveTokensBounded, CountInv
  <2>1. PICK K, P : K = LiveTokens(d) /\ P = Issuing(d)
    OBVIOUS
  <2>2. Cardinality(K) \in Nat /\ Cardinality(P) \in Nat /\ Cardinality(Slot) \in Nat
    BY <2>1, EnrollmentAssumption, AgentTokenSet, SlotSet, Slots DEF LiveTokens, Issuing
  <2>3. Cardinality(K) + Cardinality(P) <= Cardinality(Slot)
    BY <2>1 DEF CountInv, Bounded
  <2> QED BY <2>1, <2>2, <2>3
<1> QED BY <1>1, <1>2, <1>3, PTL DEF Spec
=============================================================================
