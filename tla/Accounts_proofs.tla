---------------------------- MODULE Accounts_proofs ---------------------------
(***************************************************************************)
(* Proofs about Accounts: the rows are well formed, requests stay within   *)
(* an organization, the last active administrator is kept and super        *)
(* administrators are protected.                                           *)
(***************************************************************************)
EXTENDS Accounts, TLAPS

-----------------------------------------------------------------------------
(* The inductive invariant *)

\* What the handler of a request relies on, given the accounts us and the
\* organizations os.
ShapeOf(h, us, os) ==
    /\ h.op = "allowed" =>
         h.actor \in User /\ us[h.actor] # NoUser /\ h.role \in AdminRole /\ h.org \in os
    /\ h.op \in Changing \cup {"count"} => h.target \in User /\ us[h.target] # NoUser
    /\ h.op = "count" => h.next \in Changing
    /\ h.op = "register" => h.target \in User /\ h.org \in os /\ h.give \in Lesser

TypeInv == AccountsTypeOK /\ \A s \in Slot : ShapeOf(handler[s], user, org)

\* Two changes in one organization have made it contested.
Sole == \A s, t \in Slot, o \in Org :
            s # t /\ Busy(handler[s], o) /\ Busy(handler[t], o) => o \in contested

\* The change takes an administrator away.
Takes(h, row) ==
    /\ row.status = "ACTIVE" /\ row.role \in AdminRole
    /\ \/ h.op = "delete"
       \/ h.give # None /\ h.give \notin AdminRole
       \/ h.set = "INACTIVE"

\* Where changes do not overlap, what a handler has checked still holds when it
\* writes: another administrator remains ...
Counted == \A s \in Slot : \A o \in Org \ contested :
    LET u == handler[s].target IN
    handler[s].op \in Changing /\ Busy(handler[s], o) /\ Takes(handler[s], user[u])
      => ActiveAdmins(o) \ {u} # {}

\* ... and the account is no super administrator, unless the actor is.
Protected == \A s \in Slot : \A o \in Org \ contested :
    Busy(handler[s], o) /\ user[handler[s].target].role = "SUPER_ADMIN"
      => handler[s].role = "SUPER_ADMIN"

AccountsInv == TypeInv /\ TenantIsolation /\ Sole /\ Counted /\ Protected

-----------------------------------------------------------------------------
(* What a step may change *)

\* An account stays, in its organization, though it may be deleted.
RowsKept == \A u \in User : user[u] # NoUser => user'[u] # NoUser /\ user'[u].org = user[u].org

\* The part of the state a step leaves well formed.
RowsOK ==
    /\ org \subseteq org' /\ org' \subseteq Org
    /\ user' \in [User -> UserRow] /\ RowsKept
    /\ switched' \in [User -> SUBSET org'] /\ contested' \subseteq org'
    /\ \A u \in User : user'[u] # NoUser => user'[u].org \in org'

\* A step that leaves the rows well formed and puts one well formed request in
\* place of another keeps the type invariant.
LEMMA StepType ==
    ASSUME TypeInv, RowsOK, NEW s \in Slot, NEW r \in Handler,
           handler' = [handler EXCEPT ![s] = r], ShapeOf(r, user', org')
    PROVE  TypeInv'
<1>1. \A t \in Slot : handler'[t] = IF t = s THEN r ELSE handler[t]
  BY DEF TypeInv, AccountsTypeOK
<1>2. handler' \in [Slot -> Handler]
  BY DEF TypeInv, AccountsTypeOK
<1>3. ASSUME NEW t \in Slot PROVE ShapeOf(handler'[t], user', org')
  <2>1. CASE t = s
    BY <2>1, <1>1
  <2>2. CASE t # s
    <3>1. handler'[t] = handler[t] /\ ShapeOf(handler[t], user, org)
      BY <2>2, <1>1 DEF TypeInv
    <3>2. QED
      BY <3>1 DEF ShapeOf, RowsOK, RowsKept
  <2>3. QED
    BY <2>1, <2>2
<1>4. \A t \in Slot : handler'[t].op \in Changing \cup {"count"} => user'[handler'[t].target] # NoUser
  BY <1>3 DEF ShapeOf
<1>5. AccountsTypeOK'
  BY <1>2, <1>4 DEF RowsOK, AccountsTypeOK
<1>6. QED
  BY <1>3, <1>5 DEF TypeInv

LEMMA QuietShape == Quiet \in Handler /\ \A us, os : ShapeOf(Quiet, us, os)
  BY DEF Quiet, Request, Handler, ShapeOf, Changing

\* A request that has counted goes on to write.
LEMMA TurnRecord ==
    ASSUME NEW h \in Handler
    PROVE  Turn(h) = [op |-> h.next, next |-> "quiet", actor |-> h.actor, role |-> h.role, org |-> h.org,
                      target |-> h.target, give |-> h.give, set |-> h.set]
<1>1. PICK g : g = [h EXCEPT !.op = h.next]
  OBVIOUS
<1>2. g = [op |-> h.next, next |-> h.next, actor |-> h.actor, role |-> h.role, org |-> h.org,
           target |-> h.target, give |-> h.give, set |-> h.set]
  BY <1>1 DEF Handler
<1>3. Turn(h) = [g EXCEPT !.next = "quiet"]
  BY <1>1 DEF Turn
<1>4. QED
  BY <1>2, <1>3

\* Nothing but the requests changes.
LEMMA SameRows ==
    ASSUME TypeInv, UNCHANGED <<org, user, switched, contested>> PROVE RowsOK
  BY DEF TypeInv, AccountsTypeOK, RowsOK, RowsKept

\* An account is made, in an organization there is.
LEMMA NewRow ==
    ASSUME TypeInv, NEW u \in User, NEW o \in Org, NEW r \in Role, user[u] = NoUser,
           user' = [user EXCEPT ![u] = NewUser(o, r)], org \subseteq org', org' \subseteq Org, o \in org',
           UNCHANGED <<switched, contested>>
    PROVE  RowsOK
<1>1. NewUser(o, r) \in UserRow /\ NewUser(o, r).org = o
  BY DEF NewUser, UserRow
<1>2. QED
  BY <1>1 DEF TypeInv, AccountsTypeOK, RowsOK, RowsKept

\* A row is rewritten.
LEMMA Rewritten ==
    ASSUME TypeInv, NEW u \in User, NEW row \in UserRow, user[u] # NoUser, row # NoUser,
           row.org = user[u].org, user' = [user EXCEPT ![u] = row],
           UNCHANGED <<org, switched, contested>>
    PROVE  RowsOK
  BY DEF TypeInv, AccountsTypeOK, RowsOK, RowsKept

\* The rows a change can leave.
LEMMA ChangedRow ==
    ASSUME AccountsAssumption, NEW h \in Handler, NEW row \in UserRow, row.status \in {"ACTIVE", "INACTIVE"}
    PROVE  /\ Updated(h, row) \in UserRow /\ Updated(h, row) # NoUser /\ Updated(h, row).org = row.org
           /\ Deleted(row) \in UserRow /\ Deleted(row) # NoUser /\ Deleted(row).org = row.org
<1>1. row.org \in Org /\ row.role \in Role
  BY DEF UserRow, NoUser
<1>2. Or(h.give, row.role) \in Role /\ Or(h.set, row.status) \in {"ACTIVE", "INACTIVE"}
  BY <1>1 DEF Handler, Or
<1>3. QED
  BY <1>1, <1>2 DEF UserRow, NoUser, Updated, Deleted

-----------------------------------------------------------------------------
(* The type invariant *)

LEMMA TypeInit == ASSUME AccountsAssumption, AccountsInit PROVE TypeInv
<1>1. user \in [User -> UserRow] /\ \A u \in User : user[u] # NoUser => user[u].org \in org
  BY DEF AccountsAssumption, AccountsInit, NewUser, UserRow, Role, AdminRole
<1>2. \A s \in Slot : handler[s] = Quiet
  BY DEF AccountsInit
<1>3. QED
  BY <1>1, <1>2, QuietShape DEF AccountsAssumption, AccountsInit, TypeInv, AccountsTypeOK, Quiet, Request, Changing

LEMMA TypeNext == ASSUME AccountsAssumption, TypeInv, [Next]_accountsVars PROVE TypeInv'
<1>1. CASE UNCHANGED accountsVars
  BY <1>1 DEF TypeInv, AccountsTypeOK, accountsVars, ShapeOf
<1>. SUFFICES ASSUME Next PROVE TypeInv'
  BY <1>1
<1>2. PICK s \in Slot :
        \/ \E u \in User, o \in Org, r \in Lesser : RegisterOrg(s, u, o, r)
        \/ \E u \in User, p, o \in Org : SwitchOrganization(s, u, p, o)
        \/ \E u \in User, o \in Org : Allow(s, u, o)
        \/ \E o \in Org, u \in User \cup {None} : CreateOrganization(s, o, u)
        \/ \E u \in User, o \in Org, r \in Role : CreateUser(s, u, o, r)
        \/ \E u \in User, c \in Change : UpdateRead(s, u, c.give, c.set)
        \/ \E u \in User : DeleteRead(s, u)
        \/ RegisterUser(s) \/ CountAdmins(s) \/ UpdateWrite(s) \/ DeleteWrite(s) \/ RequestFails(s)
  BY DEF Next
<1>. DEFINE h == handler[s]
<1>3. h \in Handler /\ ShapeOf(h, user, org)
  BY DEF TypeInv, AccountsTypeOK
<1>4. ASSUME RowsOK, Done(s) PROVE TypeInv'
  BY <1>4, StepType, QuietShape DEF Done
<1>5. ASSUME NEW u \in User, NEW o \in Org, NEW r \in Lesser, RegisterOrg(s, u, o, r) PROVE TypeInv'
  <2>. DEFINE q == Request("register", None, None, o, u, r)
  <2>2. q \in Handler /\ \A us : ShapeOf(q, us, org')
    BY <1>5 DEF Request, Handler, ShapeOf, Changing, Role, RegisterOrg
  <2>3. RowsOK
    BY <1>5 DEF RegisterOrg, TypeInv, AccountsTypeOK, RowsOK, RowsKept
  <2>4. handler' = [handler EXCEPT ![s] = q]
    BY <1>5 DEF RegisterOrg
  <2>. HIDE DEF q
  <2>5. QED
    BY <2>2, <2>3, <2>4, StepType
<1>6. ASSUME NEW u \in User, NEW p \in Org, NEW o \in Org, SwitchOrganization(s, u, p, o) PROVE TypeInv'
  <2>1. switched' \in [User -> SUBSET org]
    BY <1>6 DEF SwitchOrganization, TypeInv, AccountsTypeOK
  <2>2. UNCHANGED <<org, user, handler, contested>>
    BY <1>6 DEF SwitchOrganization
  <2>3. QED
    BY <2>1, <2>2 DEF TypeInv, AccountsTypeOK, ShapeOf
<1>7. ASSUME NEW u \in User, NEW o \in Org, Allow(s, u, o) PROVE TypeInv'
  <2>. DEFINE q == Request("allowed", u, user[u].role, o, None, None)
  <2>2. user[u] # NoUser /\ user[u].role \in AdminRole /\ o \in org
    BY <1>7 DEF Allow, Accepted, Active, NoUser, Scopes, TypeInv, AccountsTypeOK
  <2>3. q \in Handler /\ ShapeOf(q, user', org')
    BY <2>2, <1>7 DEF Request, Handler, ShapeOf, Changing, Allow
  <2>4. RowsOK
    BY <1>7, SameRows DEF Allow
  <2>5. handler' = [handler EXCEPT ![s] = q]
    BY <1>7 DEF Allow
  <2>. HIDE DEF q
  <2>6. QED
    BY <2>3, <2>4, <2>5, StepType
<1>8. ASSUME NEW o \in Org, NEW u \in User \cup {None}, CreateOrganization(s, o, u) PROVE TypeInv'
  <2>1. CASE u = None /\ UNCHANGED user
    BY <1>8, <2>1, <1>4 DEF CreateOrganization, TypeInv, AccountsTypeOK, RowsOK, RowsKept
  <2>2. CASE u # None /\ user[u] = NoUser /\ user' = [user EXCEPT ![u] = NewUser(o, "ORG_ADMIN")]
    <3>1. u \in User /\ "ORG_ADMIN" \in Role
      BY <2>2 DEF Role, AdminRole
    <3>2. RowsOK
      BY <1>8, <2>2, <3>1, NewRow DEF CreateOrganization, TypeInv, AccountsTypeOK
    <3>3. QED
      BY <1>8, <3>2, <1>4 DEF CreateOrganization
  <2>3. QED
    BY <1>8, <2>1, <2>2 DEF CreateOrganization
<1>9. ASSUME NEW u \in User, NEW o \in Org, NEW r \in Role, CreateUser(s, u, o, r) PROVE TypeInv'
  <2>1. o \in org
    BY <1>9, <1>3 DEF CreateUser, ShapeOf
  <2>2. RowsOK
    BY <1>9, <2>1, NewRow DEF CreateUser, TypeInv, AccountsTypeOK
  <2>3. QED
    BY <1>9, <2>2, <1>4 DEF CreateUser
<1>10. ASSUME NEW u \in User, NEW next \in Changing, NEW r \in Role \cup {None},
              NEW x \in {"ACTIVE", "INACTIVE", None}, NEW removes \in BOOLEAN,
              MayChange(h, u), Proceed(s, u, next, r, x, removes)
       PROVE TypeInv'
  <2>. DEFINE q == [op |-> IF removes THEN "count" ELSE next,
                    next |-> IF removes THEN next ELSE "quiet",
                    actor |-> None, role |-> h.role, org |-> h.org,
                    target |-> u, give |-> r, set |-> x]
  <2>1. handler' = [handler EXCEPT ![s] = q]
    BY <1>10, <1>3 DEF Proceed, TypeInv, AccountsTypeOK
  <2>2. user[u] # NoUser /\ user[u].org \in org
    BY <1>10 DEF MayChange, Present, NoUser, TypeInv, AccountsTypeOK
  <2>3. q \in Handler
    BY <1>3 DEF Handler, Changing
  <2>4. ShapeOf(q, user', org')
    BY <2>2, <1>10 DEF ShapeOf, Changing, Proceed
  <2>5. RowsOK
    BY <1>10, <2>2 DEF Proceed, TypeInv, AccountsTypeOK, RowsOK, RowsKept
  <2>. HIDE DEF q
  <2>6. QED
    BY <2>1, <2>3, <2>4, <2>5, StepType
<1>11. ASSUME NEW u \in User, NEW c \in Change, UpdateRead(s, u, c.give, c.set) PROVE TypeInv'
  <2>1. c.give \in Role \cup {None} /\ c.set \in {"ACTIVE", "INACTIVE", None}
    BY DEF AccountsAssumption
  <2>2. PICK removes \in BOOLEAN : Proceed(s, u, "update", c.give, c.set, removes)
    <3>. DEFINE rm == \/ c.give # None /\ c.give \notin AdminRole /\ user[u].role \in AdminRole
                      \/ c.set = "INACTIVE" /\ Active(u) /\ user[u].role \in AdminRole
    <3>1. Proceed(s, u, "update", c.give, c.set, rm)
      BY <1>11, Zenon DEF UpdateRead
    <3>2. rm \in BOOLEAN
      OBVIOUS
    <3>3. QED
      BY <3>1, <3>2, Zenon
  <2>3. MayChange(h, u)
    BY <1>11 DEF UpdateRead
  <2>4. QED
    BY <2>1, <2>2, <2>3, <1>10 DEF Changing
<1>12. ASSUME NEW u \in User, DeleteRead(s, u) PROVE TypeInv'
  <2>1. PICK removes \in BOOLEAN : Proceed(s, u, "delete", None, None, removes)
    <3>. DEFINE rm == Active(u) /\ user[u].role \in AdminRole
    <3>1. Proceed(s, u, "delete", None, None, rm)
      BY <1>12, Zenon DEF DeleteRead
    <3>2. rm \in BOOLEAN
      OBVIOUS
    <3>3. QED
      BY <3>1, <3>2, Zenon
  <2>2. MayChange(h, u)
    BY <1>12 DEF DeleteRead
  <2>3. QED
    BY <2>1, <2>2, <1>10 DEF Changing
<1>13. ASSUME RegisterUser(s) PROVE TypeInv'
  <2>1. h.target \in User /\ h.org \in org /\ h.org \in Org /\ h.give \in Role
    BY <1>13, <1>3 DEF RegisterUser, ShapeOf, Role, TypeInv, AccountsTypeOK
  <2>2. RowsOK
    <3>1. CASE user[h.target] = NoUser
      BY <1>13, <2>1, <3>1, NewRow DEF RegisterUser, TypeInv, AccountsTypeOK
    <3>2. CASE user[h.target] # NoUser
      BY <1>13, <3>2, SameRows DEF RegisterUser
    <3>3. QED
      BY <3>1, <3>2
  <2>3. QED
    BY <1>13, <2>2, <1>4 DEF RegisterUser
<1>14. ASSUME CountAdmins(s) PROVE TypeInv'
  <2>1. RowsOK
    BY <1>14, SameRows DEF CountAdmins
  <2>2. CASE Done(s)
    BY <2>1, <2>2, <1>4
  <2>3. CASE handler' = [handler EXCEPT ![s] = Turn(@)]
    <3>. DEFINE q == [op |-> h.next, next |-> "quiet", actor |-> h.actor, role |-> h.role, org |-> h.org,
                      target |-> h.target, give |-> h.give, set |-> h.set]
    <3>1. handler' = [handler EXCEPT ![s] = q]
      BY <2>3, <1>3, TurnRecord DEF TypeInv, AccountsTypeOK
    <3>2. q \in Handler
      BY <1>3 DEF Handler, Changing
    <3>3. ShapeOf(q, user', org')
      BY <1>3, <1>14 DEF ShapeOf, Changing, CountAdmins
    <3>. HIDE DEF q
    <3>4. QED
      BY <2>1, <3>1, <3>2, <3>3, StepType
  <2>4. QED
    BY <1>14, <2>2, <2>3 DEF CountAdmins
<1>15. ASSUME h.op \in Changing, Done(s), UNCHANGED <<org, switched, contested>>,
              \/ UNCHANGED user
              \/ /\ Present(h.target)
                 /\ \/ user' = [user EXCEPT ![h.target] = Updated(h, user[h.target])]
                    \/ user' = [user EXCEPT ![h.target] = Deleted(user[h.target])]
       PROVE TypeInv'
  <2>1. h.target \in User /\ user[h.target] # NoUser /\ user[h.target] \in UserRow
    BY <1>15, <1>3 DEF ShapeOf, TypeInv, AccountsTypeOK
  <2>2. CASE UNCHANGED user
    BY <1>15, <2>2, SameRows, <1>4
  <2>3. CASE Present(h.target)
    <3>1. user[h.target].status \in {"ACTIVE", "INACTIVE"}
      BY <2>3 DEF Present
    <3>2. /\ Updated(h, user[h.target]) \in UserRow /\ Updated(h, user[h.target]) # NoUser
          /\ Updated(h, user[h.target]).org = user[h.target].org
          /\ Deleted(user[h.target]) \in UserRow /\ Deleted(user[h.target]) # NoUser
          /\ Deleted(user[h.target]).org = user[h.target].org
      BY <3>1, <2>1, <1>3, ChangedRow
    <3>3. CASE user' = [user EXCEPT ![h.target] = Updated(h, user[h.target])]
      BY <1>15, <2>1, <3>2, <3>3, Rewritten, <1>4
    <3>4. CASE user' = [user EXCEPT ![h.target] = Deleted(user[h.target])]
      BY <1>15, <2>1, <3>2, <3>4, Rewritten, <1>4
    <3>5. QED
      BY <1>15, <2>2, <3>3, <3>4
  <2>4. QED
    BY <1>15, <2>2, <2>3
<1>16. ASSUME UpdateWrite(s) PROVE TypeInv'
  BY <1>15, <1>16 DEF UpdateWrite, Changing
<1>17. ASSUME DeleteWrite(s) PROVE TypeInv'
  BY <1>15, <1>17 DEF DeleteWrite, Changing
<1>18. ASSUME RequestFails(s) PROVE TypeInv'
  BY <1>18, <1>4, SameRows DEF RequestFails
<1>19. QED
  BY <1>2, <1>5, <1>6, <1>7, <1>8, <1>9, <1>11, <1>12, <1>13, <1>14, <1>16, <1>17, <1>18

\* The rows and the requests stay well formed, for any number of requests in flight.
THEOREM AccountsTypeCorrect == Spec => []AccountsTypeOK
<1>1. AccountsInit => TypeInv
  BY TypeInit, AccountsAssumption
<1>2. TypeInv /\ [Next]_accountsVars => TypeInv'
  BY TypeNext, AccountsAssumption
<1>3. TypeInv => AccountsTypeOK
  BY DEF TypeInv
<1>4. QED
  BY <1>1, <1>2, <1>3, PTL DEF Spec
-----------------------------------------------------------------------------
(* The kinds of steps *)

Sets(s, r) == handler' = [handler EXCEPT ![s] = r]

\* The request begins, or ends without effect on the accounts.
Turns(s, r) ==
    /\ UNCHANGED <<user, contested>> /\ Sets(s, r)
    /\ r.op \notin Changing \cup {"count"}
    /\ r.op = "allowed" => r.role = "SUPER_ADMIN" \/ r.org = user[r.actor].org

Makes(s, u) ==
    /\ user[u] = NoUser /\ \E row \in UserRow : user' = [user EXCEPT ![u] = row]
    /\ Sets(s, Quiet) /\ UNCHANGED contested

Selects(s, u, r) ==
    /\ MayChange(handler[s], u) /\ Sets(s, r) /\ UNCHANGED user
    /\ r.op \in Changing \cup {"count"} /\ r.target = u
    /\ r.role = handler[s].role /\ r.org = handler[s].org
    /\ r.op \in Changing => ~Takes(r, user[u])
    /\ contested \subseteq contested'
    /\ (\E t \in Slot \ {s} : Busy(handler[t], user[u].org)) => user[u].org \in contested'

Counts(s) ==
    /\ handler[s].op = "count" /\ Sets(s, Turn(handler[s])) /\ UNCHANGED <<user, contested>>
    /\ ActiveAdmins(user[handler[s].target].org) \ {handler[s].target} # {}

Admin(row) == row.status = "ACTIVE" /\ row.role \in AdminRole

Writes(s, row) ==
    /\ handler[s].op \in Changing /\ Sets(s, Quiet) /\ UNCHANGED contested
    /\ user' = [user EXCEPT ![handler[s].target] = row]
    /\ row \in UserRow /\ row # NoUser /\ row.org = user[handler[s].target].org
    /\ Admin(user[handler[s].target]) /\ ~Admin(row) => Takes(handler[s], user[handler[s].target])

Kinds(s) ==
    \/ \E r : Turns(s, r)
    \/ \E u \in User : Makes(s, u)
    \/ \E u \in User : \E r : Selects(s, u, r)
    \/ Counts(s)
    \/ \E row : Writes(s, row)

\* A request that is done with: nothing else changes.
LEMMA DoneTurns == ASSUME NEW s \in Slot, Done(s), UNCHANGED <<user, contested>> PROVE Kinds(s)
<1>1. Turns(s, Quiet)
  BY DEF Turns, Sets, Done, Quiet, Request, Changing
<1>2. QED
  BY <1>1 DEF Kinds

LEMMA MakesRow ==
    ASSUME NEW s \in Slot, NEW u \in User, NEW o \in Org, NEW r \in Role, user[u] = NoUser, Done(s),
           user' = [user EXCEPT ![u] = NewUser(o, r)], UNCHANGED contested
    PROVE  Kinds(s)
<1>1. NewUser(o, r) \in UserRow
  BY DEF NewUser, UserRow
<1>2. Makes(s, u)
  BY <1>1 DEF Makes, Sets, Done
<1>3. QED
  BY <1>2 DEF Kinds

\* What the change of an administrator's account may take away.
LEMMA TakesAway ==
    ASSUME NEW h \in Handler, NEW row \in UserRow, h.op \in Changing, Admin(row)
    PROVE  /\ h.op = "update" /\ ~Admin(Updated(h, row)) => Takes(h, row)
           /\ h.op = "delete" => Takes(h, row)
<1>1. h.give \in Role \cup {None} /\ h.set \in {"ACTIVE", "INACTIVE", None}
  BY DEF Handler
<1>2. QED
  BY <1>1 DEF Admin, Updated, Or, Takes

\* Every step is of one of these kinds.
LEMMA StepKinds == ASSUME AccountsAssumption, TypeInv, Next PROVE \E s \in Slot : Kinds(s)
<1>1. PICK s \in Slot :
        \/ \E u \in User, o \in Org, r \in Lesser : RegisterOrg(s, u, o, r)
        \/ \E u \in User, p, o \in Org : SwitchOrganization(s, u, p, o)
        \/ \E u \in User, o \in Org : Allow(s, u, o)
        \/ \E o \in Org, u \in User \cup {None} : CreateOrganization(s, o, u)
        \/ \E u \in User, o \in Org, r \in Role : CreateUser(s, u, o, r)
        \/ \E u \in User, c \in Change : UpdateRead(s, u, c.give, c.set)
        \/ \E u \in User : DeleteRead(s, u)
        \/ RegisterUser(s) \/ CountAdmins(s) \/ UpdateWrite(s) \/ DeleteWrite(s) \/ RequestFails(s)
  BY DEF Next
<1>. DEFINE h == handler[s]
<1>2. h \in Handler /\ ShapeOf(h, user, org) /\ handler \in [Slot -> Handler]
  BY DEF TypeInv, AccountsTypeOK
<1>3. ASSUME NEW u \in User, NEW o \in Org, NEW r \in Lesser, RegisterOrg(s, u, o, r) PROVE Kinds(s)
  <2>1. Turns(s, Request("register", None, None, o, u, r))
    BY <1>3 DEF RegisterOrg, Turns, Sets, Request, Changing
  <2>2. QED
    BY <2>1 DEF Kinds
<1>4. ASSUME NEW u \in User, NEW p \in Org, NEW o \in Org, SwitchOrganization(s, u, p, o) PROVE Kinds(s)
  <2>1. Turns(s, Quiet)
    BY <1>4, <1>2 DEF SwitchOrganization, Turns, Sets, Quiet, Request, Changing
  <2>2. QED
    BY <2>1 DEF Kinds
<1>5. ASSUME NEW u \in User, NEW o \in Org, Allow(s, u, o) PROVE Kinds(s)
  <2>1. Turns(s, Request("allowed", u, user[u].role, o, None, None))
    BY <1>5 DEF Allow, Accepted, Turns, Sets, Request, Changing
  <2>2. QED
    BY <2>1 DEF Kinds
<1>6. ASSUME NEW o \in Org, NEW u \in User \cup {None}, CreateOrganization(s, o, u) PROVE Kinds(s)
  <2>1. CASE UNCHANGED user
    BY <1>6, <2>1, DoneTurns DEF CreateOrganization
  <2>2. CASE u # None /\ user[u] = NoUser /\ user' = [user EXCEPT ![u] = NewUser(o, "ORG_ADMIN")]
    <3>1. u \in User /\ "ORG_ADMIN" \in Role
      BY <2>2 DEF Role, AdminRole
    <3>2. Done(s) /\ UNCHANGED contested
      BY <1>6 DEF CreateOrganization
    <3>3. QED
      BY <2>2, <3>1, <3>2, MakesRow
  <2>3. QED
    BY <1>6, <2>1, <2>2 DEF CreateOrganization
<1>7. ASSUME NEW u \in User, NEW o \in Org, NEW r \in Role, CreateUser(s, u, o, r) PROVE Kinds(s)
  BY <1>7, MakesRow DEF CreateUser
<1>8. ASSUME RegisterUser(s) PROVE Kinds(s)
  <2>1. h.target \in User /\ h.org \in Org /\ h.give \in Role
    BY <1>8, <1>2 DEF RegisterUser, ShapeOf, Role, TypeInv, AccountsTypeOK
  <2>2. CASE user[h.target] = NoUser
    BY <1>8, <2>1, <2>2, MakesRow DEF RegisterUser
  <2>3. CASE user[h.target] # NoUser
    BY <1>8, <2>3, DoneTurns DEF RegisterUser
  <2>4. QED
    BY <2>2, <2>3
<1>9. ASSUME NEW u \in User, NEW next \in Changing, NEW r, NEW x, NEW removes \in BOOLEAN,
             MayChange(h, u), Proceed(s, u, next, r, x, removes),
             Admin(user[u]) /\ (next = "delete" \/ (r # None /\ r \notin AdminRole) \/ x = "INACTIVE")
               => removes
      PROVE  Kinds(s)
  <2>. DEFINE q == [op |-> IF removes THEN "count" ELSE next,
                    next |-> IF removes THEN next ELSE "quiet",
                    actor |-> None, role |-> h.role, org |-> h.org,
                    target |-> u, give |-> r, set |-> x]
  <2>1. Sets(s, q)
    BY <1>9, <1>2 DEF Proceed, Sets
  <2>2. q.op \in Changing \cup {"count"} /\ q.target = u /\ q.role = h.role /\ q.org = h.org
    OBVIOUS
  <2>3. q.op \in Changing => ~Takes(q, user[u])
    BY <1>9 DEF Takes, Admin, Changing
  <2>4. /\ contested \subseteq contested'
        /\ (\E t \in Slot \ {s} : Busy(handler[t], user[u].org)) => user[u].org \in contested'
    BY <1>9 DEF Proceed
  <2>5. UNCHANGED user
    BY <1>9 DEF Proceed
  <2>6. Selects(s, u, q)
    <3>. HIDE DEF q
    <3>1. QED
      BY <1>9, <2>1, <2>2, <2>3, <2>4, <2>5 DEF Selects
  <2>. HIDE DEF q
  <2>7. QED
    BY <2>6 DEF Kinds
<1>10. ASSUME NEW u \in User, NEW c \in Change, UpdateRead(s, u, c.give, c.set) PROVE Kinds(s)
  <2>. DEFINE rm == \/ c.give # None /\ c.give \notin AdminRole /\ user[u].role \in AdminRole
                    \/ c.set = "INACTIVE" /\ Active(u) /\ user[u].role \in AdminRole
  <2>1. Proceed(s, u, "update", c.give, c.set, rm)
    BY <1>10, Zenon DEF UpdateRead
  <2>2. rm \in BOOLEAN
    OBVIOUS
  <2>3. Admin(user[u]) /\ ((c.give # None /\ c.give \notin AdminRole) \/ c.set = "INACTIVE") => rm
    BY DEF Admin, Active
  <2>4. MayChange(h, u)
    BY <1>10 DEF UpdateRead
  <2>. HIDE DEF rm
  <2>5. PICK b \in BOOLEAN : b = rm
    BY <2>2
  <2>6. QED
    BY <2>1, <2>3, <2>4, <2>5, <1>9 DEF Changing
<1>11. ASSUME NEW u \in User, DeleteRead(s, u) PROVE Kinds(s)
  <2>. DEFINE rm == Active(u) /\ user[u].role \in AdminRole
  <2>1. Proceed(s, u, "delete", None, None, rm)
    BY <1>11, Zenon DEF DeleteRead
  <2>2. rm \in BOOLEAN
    OBVIOUS
  <2>3. Admin(user[u]) => rm
    BY DEF Admin, Active
  <2>4. MayChange(h, u)
    BY <1>11 DEF DeleteRead
  <2>. HIDE DEF rm
  <2>5. PICK b \in BOOLEAN : b = rm
    BY <2>2
  <2>6. QED
    BY <2>1, <2>3, <2>4, <2>5, <1>9 DEF Changing
<1>12. ASSUME CountAdmins(s) PROVE Kinds(s)
  <2>1. CASE Done(s)
    BY <1>12, <2>1, DoneTurns DEF CountAdmins
  <2>2. CASE ActiveAdmins(user[h.target].org) \ {h.target} # {}
    <3>1. Counts(s)
      BY <1>12, <2>2 DEF CountAdmins, Counts, Sets
    <3>2. QED
      BY <3>1 DEF Kinds
  <2>3. QED
    BY <1>12, <2>1, <2>2 DEF CountAdmins
<1>13. ASSUME h.op \in Changing, Done(s), UNCHANGED contested, Present(h.target), NEW row,
              user' = [user EXCEPT ![h.target] = row],
              \/ h.op = "update" /\ row = Updated(h, user[h.target])
              \/ h.op = "delete" /\ row = Deleted(user[h.target])
       PROVE  Kinds(s)
  <2>1. h.target \in User /\ user[h.target] # NoUser /\ user[h.target] \in UserRow
    BY <1>13, <1>2 DEF ShapeOf, TypeInv, AccountsTypeOK
  <2>2. user[h.target].status \in {"ACTIVE", "INACTIVE"}
    BY <1>13 DEF Present
  <2>3. row \in UserRow /\ row # NoUser /\ row.org = user[h.target].org
    BY <2>1, <2>2, <1>2, <1>13, ChangedRow
  <2>4. Admin(user[h.target]) /\ ~Admin(row) => Takes(h, user[h.target])
    BY <2>1, <1>2, <1>13, TakesAway
  <2>5. Writes(s, row)
    BY <1>13, <2>3, <2>4 DEF Writes, Sets, Done
  <2>6. QED
    BY <2>5 DEF Kinds
<1>14. ASSUME UpdateWrite(s) PROVE Kinds(s)
  <2>1. h.op \in Changing /\ h.op = "update" /\ Done(s) /\ UNCHANGED contested
    BY <1>14 DEF UpdateWrite, Changing
  <2>2. CASE Present(h.target)
    <3>1. user' = [user EXCEPT ![h.target] = Updated(h, user[h.target])]
      BY <1>14, <2>2 DEF UpdateWrite
    <3>2. QED
      BY <2>1, <2>2, <3>1, <1>13
  <2>3. CASE ~Present(h.target)
    BY <1>14, <2>1, <2>3, DoneTurns DEF UpdateWrite
  <2>4. QED
    BY <2>2, <2>3
<1>15. ASSUME DeleteWrite(s) PROVE Kinds(s)
  <2>1. h.op \in Changing /\ h.op = "delete" /\ Done(s) /\ UNCHANGED contested
    BY <1>15 DEF DeleteWrite, Changing
  <2>2. CASE Present(h.target)
    <3>1. user' = [user EXCEPT ![h.target] = Deleted(user[h.target])]
      BY <1>15, <2>2 DEF DeleteWrite
    <3>2. QED
      BY <2>1, <2>2, <3>1, <1>13
  <2>3. CASE ~Present(h.target)
    BY <1>15, <2>1, <2>3, DoneTurns DEF DeleteWrite
  <2>4. QED
    BY <2>2, <2>3
<1>16. ASSUME RequestFails(s) PROVE Kinds(s)
  BY <1>16, DoneTurns DEF RequestFails
<1>17. QED
  BY <1>1, <1>3, <1>4, <1>5, <1>6, <1>7, <1>8, <1>10, <1>11, <1>12, <1>14, <1>15, <1>16
-----------------------------------------------------------------------------
(* The safety invariants *)

LEMMA SetsOne ==
    ASSUME TypeInv, NEW s \in Slot, NEW r, Sets(s, r)
    PROVE  handler'[s] = r /\ \A t \in Slot \ {s} : handler'[t] = handler[t]
  BY DEF TypeInv, AccountsTypeOK, Sets

\* No step moves an account to another organization.
LEMMA OrgsKept == ASSUME TypeInv, NEW s \in Slot, Kinds(s) PROVE RowsKept
  BY DEF TypeInv, AccountsTypeOK, Kinds, Turns, Makes, Selects, Counts, Writes, RowsKept

\* A request that counted is as it was, except for its op.
LEMMA TurnKept ==
    ASSUME TypeInv, NEW s \in Slot, handler[s].op = "count"
    PROVE  LET q == Turn(handler[s]) IN
           /\ q.op \in Changing /\ q.target = handler[s].target
           /\ q.role = handler[s].role /\ q.org = handler[s].org
<1>1. handler[s] \in Handler /\ ShapeOf(handler[s], user, org)
  BY DEF TypeInv, AccountsTypeOK
<1>2. QED
  BY <1>1, TurnRecord DEF ShapeOf

LEMMA IsolationNext ==
    ASSUME TypeInv, TenantIsolation, NEW s \in Slot, Kinds(s) PROVE TenantIsolation'
<1>. DEFINE IsolatedAt(h, us) ==
              /\ h.op = "allowed" => h.role = "SUPER_ADMIN" \/ h.org = us[h.actor].org
              /\ h.op \in Changing \cup {"count"} => h.role = "SUPER_ADMIN" \/ h.org = us[h.target].org
<1>1. \A t \in Slot : IsolatedAt(handler[t], user) /\ ShapeOf(handler[t], user, org)
  BY DEF TenantIsolation, TypeInv
<1>2. RowsKept
  BY OrgsKept
<1>3. ASSUME NEW t \in Slot, handler'[t] = handler[t] PROVE IsolatedAt(handler'[t], user')
  BY <1>1, <1>2, <1>3 DEF ShapeOf, RowsKept
<1>4. IsolatedAt(handler'[s], user')
  <2>1. ASSUME NEW r, Turns(s, r) PROVE IsolatedAt(handler'[s], user')
    BY <2>1, SetsOne DEF Turns, Changing
  <2>2. ASSUME NEW r, NEW u \in User, Selects(s, u, r) PROVE IsolatedAt(handler'[s], user')
    <3>1. handler'[s] = r
      BY <2>2, SetsOne DEF Selects
    <3>2. QED
      BY <2>2, <3>1 DEF Selects, MayChange, Changing
  <2>3. ASSUME Counts(s) PROVE IsolatedAt(handler'[s], user')
    <3>1. handler'[s] = Turn(handler[s])
      BY <2>3, SetsOne DEF Counts
    <3>2. QED
      BY <2>3, <3>1, <1>1, TurnKept DEF Counts, Changing
  <2>4. ASSUME Sets(s, Quiet) PROVE IsolatedAt(handler'[s], user')
    BY <2>4, SetsOne DEF Quiet, Request, Changing
  <2>5. QED
    BY <2>1, <2>2, <2>3, <2>4 DEF Kinds, Makes, Writes
<1>5. \A t \in Slot : IsolatedAt(handler'[t], user')
  BY <1>3, <1>4, SetsOne DEF Kinds, Turns, Makes, Selects, Counts, Writes
<1>6. QED
  BY <1>5 DEF TenantIsolation

\* A request that is busy after a step was busy before in the same organization,
\* or has just selected the account.
LEMMA BusyBefore ==
    ASSUME TypeInv, NEW s \in Slot, Kinds(s), NEW t \in Slot, NEW o, Busy(handler[t], o)'
    PROVE  \/ /\ Busy(handler[t], o) /\ handler'[t].target = handler[t].target
              /\ handler'[t].role = handler[t].role
           \/ t = s /\ \E u \in User : \E r : Selects(s, u, r) /\ handler'[s] = r /\ user[u].org = o
<1>0. RowsKept
  BY OrgsKept
<1>1. ASSUME handler'[t] = handler[t] PROVE Busy(handler[t], o)
  <2>1. handler[t].op \in Changing \cup {"count"} /\ user'[handler[t].target].org = o
    BY <1>1 DEF Busy
  <2>2. handler[t].target \in User /\ user[handler[t].target] # NoUser
    BY <2>1 DEF TypeInv, ShapeOf
  <2>3. QED
    BY <2>1, <2>2, <1>0 DEF Busy, RowsKept
<1>2. ASSUME Sets(s, Quiet), t = s PROVE FALSE
  BY <1>2, SetsOne DEF Busy, Quiet, Request, Changing
<1>3. ASSUME NEW r, Turns(s, r), t = s PROVE FALSE
  BY <1>3, SetsOne DEF Turns, Busy
<1>4. ASSUME NEW u \in User, NEW r, Selects(s, u, r), t = s
      PROVE  handler'[s] = r /\ user[u].org = o
  <2>1. handler'[s] = r
    BY <1>4, SetsOne DEF Selects
  <2>2. QED
    BY <1>4, <2>1 DEF Selects, Busy
<1>5. ASSUME Counts(s), t = s
      PROVE  /\ Busy(handler[t], o) /\ handler'[t].target = handler[t].target
             /\ handler'[t].role = handler[t].role
  <2>1. handler'[s] = Turn(handler[s]) /\ handler[s].op = "count" /\ user' = user
    BY <1>5, SetsOne DEF Counts
  <2>2. QED
    BY <2>1, <1>5, TurnKept DEF Busy
<1>6. CASE t # s
  <2>1. handler'[t] = handler[t]
    BY <1>6, SetsOne DEF Kinds, Turns, Makes, Selects, Counts, Writes
  <2>2. QED
    BY <2>1, <1>1
<1>7. CASE t = s
  <2>1. CASE \E r : Turns(s, r)
    BY <2>1, <1>3, <1>7
  <2>2. CASE \E u \in User : Makes(s, u)
    BY <2>2, <1>2, <1>7 DEF Makes
  <2>3. CASE \E u \in User : \E r : Selects(s, u, r)
    BY <2>3, <1>4, <1>7
  <2>4. CASE Counts(s)
    BY <2>4, <1>5, <1>7
  <2>5. CASE \E row : Writes(s, row)
    BY <2>5, <1>2, <1>7 DEF Writes
  <2>6. QED
    BY <2>1, <2>2, <2>3, <2>4, <2>5 DEF Kinds
<1>8. QED
  BY <1>6, <1>7

LEMMA ContestedGrows == ASSUME NEW s \in Slot, Kinds(s) PROVE contested \subseteq contested'
  BY DEF Kinds, Turns, Makes, Selects, Counts, Writes

LEMMA SoleNext == ASSUME TypeInv, Sole, NEW s \in Slot, Kinds(s) PROVE Sole'
<1>. SUFFICES ASSUME NEW t \in Slot, NEW q \in Slot, NEW o \in Org, t # q,
                     Busy(handler[t], o)', Busy(handler[q], o)'
              PROVE  o \in contested'
  BY DEF Sole
<1>1. CASE Busy(handler[t], o) /\ Busy(handler[q], o)
  BY <1>1, ContestedGrows DEF Sole
<1>2. ASSUME t = s, NEW u \in User, NEW r, Selects(s, u, r), user[u].org = o PROVE o \in contested'
  <2>1. Busy(handler[q], o)
    BY <1>2, BusyBefore
  <2>2. QED
    BY <1>2, <2>1 DEF Selects
<1>3. ASSUME q = s, NEW u \in User, NEW r, Selects(s, u, r), user[u].org = o PROVE o \in contested'
  <2>1. Busy(handler[t], o)
    BY <1>3, BusyBefore
  <2>2. QED
    BY <1>3, <2>1 DEF Selects
<1>4. Busy(handler[t], o) \/ \E u \in User : \E r : t = s /\ Selects(s, u, r) /\ user[u].org = o
  BY BusyBefore
<1>5. Busy(handler[q], o) \/ \E u \in User : \E r : q = s /\ Selects(s, u, r) /\ user[u].org = o
  BY BusyBefore
<1>6. QED
  BY <1>1, <1>2, <1>3, <1>4, <1>5

\* While a change is under way in an organization that is not contested, the
\* other requests leave the accounts of the organization as they are.
LEMMA RowsSame ==
    ASSUME TypeInv, Sole, NEW s \in Slot, Kinds(s), NEW t \in Slot, t # s,
           NEW o \in Org, o \notin contested, Busy(handler[t], o)
    PROVE  \A u \in User : user[u] # NoUser /\ user[u].org = o => user'[u] = user[u]
<1>1. CASE user' = user
  BY <1>1
<1>2. ASSUME NEW v \in User, Makes(s, v)
      PROVE  \A u \in User : user[u] # NoUser /\ user[u].org = o => user'[u] = user[u]
  BY <1>2 DEF Makes, TypeInv, AccountsTypeOK
<1>3. ASSUME NEW row, Writes(s, row)
      PROVE  \A u \in User : user[u] # NoUser /\ user[u].org = o => user'[u] = user[u]
  <2>1. user[handler[s].target].org # o
    BY <1>3 DEF Writes, Busy, Sole
  <2>2. QED
    BY <1>3, <2>1 DEF Writes, TypeInv, AccountsTypeOK
<1>4. QED
  BY <1>1, <1>2, <1>3 DEF Kinds, Turns, Selects, Counts

LEMMA CountedNext == ASSUME TypeInv, TypeInv', Sole, Counted, NEW s \in Slot, Kinds(s) PROVE Counted'
<1>. SUFFICES ASSUME NEW t \in Slot, NEW o \in Org, o \notin contested',
                     handler'[t].op \in Changing, Busy(handler[t], o)',
                     Takes(handler'[t], user'[handler'[t].target])
              PROVE  ActiveAdmins(o)' \ {handler'[t].target} # {}
  BY DEF Counted
<1>. DEFINE u == handler[t].target
<1>1. o \notin contested
  BY ContestedGrows
<1>2. ASSUME t = s, NEW v \in User, NEW r, Selects(s, v, r) PROVE FALSE
  <2>1. handler'[s] = r /\ user' = user
    BY <1>2, SetsOne DEF Selects
  <2>2. QED
    BY <1>2, <2>1 DEF Selects
<1>3. CASE Busy(handler[t], o) /\ handler'[t].target = u
  <2>1. user[u].org = o /\ u \in User /\ user[u] # NoUser
    BY <1>3 DEF Busy, TypeInv, ShapeOf
  <2>2. ASSUME t = s, Counts(s) PROVE ActiveAdmins(o)' \ {u} # {}
    BY <2>1, <2>2 DEF Counts, ActiveAdmins, Active
  <2>3. ASSUME t = s, \/ \E r : Turns(s, r) 
                      \/ \E v \in User : Makes(s, v)
                      \/ \E row : Writes(s, row)
        PROVE  FALSE
    BY <2>3, SetsOne DEF Turns, Makes, Writes, Busy, Quiet, Request, Changing
  <2>4. ASSUME t # s PROVE ActiveAdmins(o)' \ {u} # {}
    <3>1. \A v \in User : user[v] # NoUser /\ user[v].org = o => user'[v] = user[v]
      BY <1>1, <1>3, <2>4, RowsSame
    <3>2. handler'[t] = handler[t]
      BY <2>4, SetsOne DEF Kinds, Turns, Makes, Selects, Counts, Writes
    <3>3. handler[t].op \in Changing /\ Takes(handler[t], user[u])
      BY <3>1, <3>2, <2>1
    <3>4. ActiveAdmins(o) \ {u} # {}
      BY <1>1, <1>3, <3>3 DEF Counted
    <3>5. PICK v \in User : v # u /\ Active(v) /\ user[v].org = o /\ user[v].role \in AdminRole
      BY <3>4 DEF ActiveAdmins
    <3>6. user'[v] = user[v]
      BY <3>1, <3>5 DEF Active, NoUser
    <3>7. v \in ActiveAdmins(o)'
      BY <3>5, <3>6 DEF ActiveAdmins, Active
    <3>8. QED
      BY <3>5, <3>7
  <2>5. QED
    BY <1>2, <1>3, <2>2, <2>3, <2>4 DEF Kinds
<1>4. Busy(handler[t], o) /\ handler'[t].target = u
  BY <1>2, BusyBefore
<1>5. QED
  BY <1>3, <1>4

LEMMA ProtectedNext == ASSUME TypeInv, Sole, Protected, NEW s \in Slot, Kinds(s) PROVE Protected'
<1>. SUFFICES ASSUME NEW t \in Slot, NEW o \in Org, o \notin contested', Busy(handler[t], o)',
                     user'[handler'[t].target].role = "SUPER_ADMIN"
              PROVE  handler'[t].role = "SUPER_ADMIN"
  BY DEF Protected
<1>. DEFINE u == handler[t].target
<1>1. o \notin contested
  BY ContestedGrows
<1>2. ASSUME t = s, NEW v \in User, NEW r, Selects(s, v, r) PROVE handler'[t].role = "SUPER_ADMIN"
  <2>1. handler'[s] = r /\ user' = user
    BY <1>2, SetsOne DEF Selects
  <2>2. QED
    BY <1>2, <2>1 DEF Selects, MayChange
<1>3. CASE Busy(handler[t], o) /\ handler'[t].target = u /\ handler'[t].role = handler[t].role
  <2>1. user[u].org = o /\ u \in User /\ user[u] # NoUser
    BY <1>3 DEF Busy, TypeInv, ShapeOf
  <2>2. CASE t # s
    <3>1. user'[u] = user[u]
      BY <1>1, <1>3, <2>1, <2>2, RowsSame
    <3>2. QED
      BY <1>1, <1>3, <3>1 DEF Protected
  <2>3. CASE t = s /\ Counts(s)
    BY <1>1, <1>3, <2>3 DEF Protected, Counts
  <2>4. ASSUME t = s, \/ \E r : Turns(s, r) 
                      \/ \E v \in User : Makes(s, v)
                      \/ \E row : Writes(s, row)
        PROVE  FALSE
    BY <2>4, SetsOne DEF Turns, Makes, Writes, Busy, Quiet, Request, Changing
  <2>5. QED
    BY <1>2, <2>2, <2>3, <2>4 DEF Kinds
<1>4. QED
  BY <1>2, <1>3, BusyBefore

LEMMA InvInit == ASSUME AccountsAssumption, AccountsInit PROVE AccountsInv
<1>1. \A s \in Slot : handler[s].op = "quiet"
  BY DEF AccountsInit, Quiet, Request
<1>2. QED
  BY <1>1, TypeInit DEF AccountsInv, TenantIsolation, Sole, Counted, Protected, Busy, Changing

LEMMA InvNext == ASSUME AccountsAssumption, AccountsInv, [Next]_accountsVars PROVE AccountsInv'
<1>1. CASE UNCHANGED accountsVars
  BY <1>1, TypeNext DEF AccountsInv, accountsVars, TenantIsolation, Sole, Counted, Protected, Busy, Takes,
                        ActiveAdmins, Active
<1>2. CASE Next
  <2>1. TypeInv /\ TypeInv' /\ TenantIsolation /\ Sole /\ Counted /\ Protected
    BY <1>2, TypeNext DEF AccountsInv
  <2>2. PICK s \in Slot : Kinds(s)
    BY <1>2, <2>1, StepKinds
  <2>3. QED
    BY <2>1, <2>2, IsolationNext, SoleNext, CountedNext, ProtectedNext DEF AccountsInv
<1>3. QED
  BY <1>1, <1>2

\* A step that leaves an organization without an active administrator is one in
\* a contested organization.
LEMMA AdminStays ==
    ASSUME AccountsAssumption, AccountsInv, Next, NEW o \in Org, ActiveAdmins(o) # {}, o \notin contested
    PROVE  ActiveAdmins(o)' # {}
<1>1. TypeInv /\ Counted
  BY DEF AccountsInv
<1>2. PICK s \in Slot : Kinds(s)
  BY <1>1, StepKinds
<1>3. PICK v \in User : Active(v) /\ user[v].org = o /\ user[v].role \in AdminRole
  BY DEF ActiveAdmins
<1>4. CASE user'[v] = user[v]
  BY <1>3, <1>4 DEF ActiveAdmins, Active
<1>5. CASE user'[v] # user[v]
  <2>1. PICK row : Writes(s, row) /\ handler[s].target = v
    <3>1. ASSUME NEW u \in User, Makes(s, u) PROVE FALSE
      BY <1>1, <1>3, <1>5, <3>1 DEF Makes, TypeInv, AccountsTypeOK, Active, NoUser
    <3>2. QED
      BY <1>1, <1>2, <1>5, <3>1 DEF Kinds, Turns, Selects, Counts, Writes, TypeInv, AccountsTypeOK
  <2>2. user'[v] = row /\ row.org = o
    BY <1>1, <1>3, <2>1 DEF Writes, TypeInv, AccountsTypeOK
  <2>3. CASE Admin(row)
    BY <2>2, <2>3 DEF ActiveAdmins, Active, Admin
  <2>4. CASE ~Admin(row)
    <3>1. Takes(handler[s], user[v]) /\ Busy(handler[s], o)
      BY <1>3, <2>1, <2>4 DEF Writes, Admin, Active, Busy
    <3>2. PICK w \in User : w # v /\ Active(w) /\ user[w].org = o /\ user[w].role \in AdminRole
      BY <1>1, <2>1, <3>1 DEF Counted, ActiveAdmins, Writes
    <3>3. user'[w] = user[w]
      BY <1>1, <2>1, <3>2 DEF Writes, TypeInv, AccountsTypeOK
    <3>4. QED
      BY <3>2, <3>3 DEF ActiveAdmins, Active
  <2>5. QED
    BY <2>3, <2>4
<1>6. QED
  BY <1>4, <1>5

LEMMA SuperAdminStays ==
    ASSUME AccountsAssumption, AccountsInv, Next, NEW u \in User, Present(u), user[u].role = "SUPER_ADMIN",
           user'[u] # user[u], user[u].org \notin contested
    PROVE  \E s \in Slot : handler[s].target = u /\ handler[s].role = "SUPER_ADMIN"
<1>1. TypeInv /\ Protected
  BY DEF AccountsInv
<1>2. PICK s \in Slot : Kinds(s)
  BY <1>1, StepKinds
<1>3. ASSUME NEW v \in User, Makes(s, v) PROVE FALSE
  BY <1>1, <1>3 DEF Makes, TypeInv, AccountsTypeOK, Present, NoUser
<1>4. PICK row : Writes(s, row) /\ handler[s].target = u
  BY <1>1, <1>2, <1>3 DEF Kinds, Turns, Selects, Counts, Writes, TypeInv, AccountsTypeOK
<1>5. user[u].org \in Org
  BY <1>1 DEF TypeInv, AccountsTypeOK, UserRow, NoUser, Present
<1>6. Busy(handler[s], user[u].org)
  BY <1>4 DEF Writes, Busy
<1>7. QED
  BY <1>1, <1>4, <1>5, <1>6 DEF Protected

\* Requests stay within an organization, for any number of requests in flight.
THEOREM TenantsIsolated == Spec => []TenantIsolation
<1>1. AccountsInit => AccountsInv
  BY InvInit, AccountsAssumption
<1>2. AccountsInv /\ [Next]_accountsVars => AccountsInv'
  BY InvNext, AccountsAssumption
<1>3. AccountsInv => TenantIsolation
  BY DEF AccountsInv
<1>4. QED
  BY <1>1, <1>2, <1>3, PTL DEF Spec

\* An organization keeps an active administrator unless changes overlap in it.
THEOREM AdminsKept == Spec => LastAdminKept
<1>1. AccountsInit => AccountsInv
  BY InvInit, AccountsAssumption
<1>2. AccountsInv /\ [Next]_accountsVars => AccountsInv'
  BY InvNext, AccountsAssumption
<1>3. AccountsInv /\ [Next]_accountsVars =>
        [\A o \in Org : ActiveAdmins(o) # {} => ActiveAdmins(o)' # {} \/ o \in contested]_accountsVars
  BY AdminStays, AccountsAssumption
<1>4. QED
  BY <1>1, <1>2, <1>3, PTL DEF Spec, LastAdminKept

\* A super administrator is changed only on behalf of one unless changes overlap.
THEOREM SuperAdminsProtected == Spec => SuperAdminProtected
<1>1. AccountsInit => AccountsInv
  BY InvInit, AccountsAssumption
<1>2. AccountsInv /\ [Next]_accountsVars => AccountsInv'
  BY InvNext, AccountsAssumption
<1>3. AccountsInv /\ [Next]_accountsVars =>
        [\A u \in User :
           /\ Present(u) /\ user[u].role = "SUPER_ADMIN"
           /\ user'[u] # user[u]
           => \/ user[u].org \in contested
              \/ \E s \in Slot : handler[s].target = u /\ handler[s].role = "SUPER_ADMIN"]_accountsVars
  BY SuperAdminStays, AccountsAssumption
<1>4. QED
  BY <1>1, <1>2, <1>3, PTL DEF Spec, SuperAdminProtected
=============================================================================
