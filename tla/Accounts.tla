------------------------------- MODULE Accounts -------------------------------
(***************************************************************************)
(* Accounts: organizations and the accounts in them, what a session token  *)
(* lets its bearer do, and the changes administrators make to accounts.    *)
(*                                                                         *)
(* A Slot is a request in flight and an action is one statement of its     *)
(* handler with the code that follows it.  Ids are not used again, nor is  *)
(* (the abstraction) the e-mail address of a deleted account; names and    *)
(* passwords are left out.                                                 *)
(***************************************************************************)
EXTENDS Naturals, FiniteSets, FiniteSetsExt

CONSTANTS
    Org,        \* ids of organizations
    User,       \* ids of accounts
    Lesser,     \* the roles below administrator that occur
    Root, Home, \* the account and the organization of the seed
    Change,     \* what PATCH /users/:id may be asked for: a role, a flag, or both
    Slot,       \* requests in flight at once
    MaxSwitched,\* bound: tokens for another organization
    MaxContested,\* bound: organizations in which changes overlap
    None

AdminRole == {"SUPER_ADMIN", "ORG_ADMIN"}
Role == AdminRole \cup Lesser

ASSUME AccountsAssumption ==
    /\ Lesser \subseteq {"IT_ADMIN", "OPERATOR", "VIEWER"}
    /\ Root \in User /\ Home \in Org
    /\ Change \subseteq [give: Role \cup {None}, set: {"ACTIVE", "INACTIVE", None}]
    /\ None \notin Org \cup User /\ None \notin Role \cup {"ACTIVE", "INACTIVE"}

VARIABLES
    org,        \* the organizations there are
    user,       \* the User rows
    switched,   \* the organizations an account has a token for besides its own
    handler,    \* the requests in flight
    contested   \* for checking: organizations in which two changes overlapped

accountsVars == <<org, user, switched, handler, contested>>

NoUser == [status |-> "ABSENT", org |-> None, role |-> None]
UserRow == [status: {"ACTIVE", "INACTIVE"}, org: Org, role: Role]
             \cup [status: {"DELETED"}, org: Org, role: {None}]
             \cup {NoUser}
NewUser(o, r) == [status |-> "ACTIVE", org |-> o, role |-> r]
Active(u) == user[u].status = "ACTIVE"
Present(u) == user[u].status \in {"ACTIVE", "INACTIVE"}

\* role and org are what the account and the token said when the request was
\* authenticated; give and set are the changes asked for, None for no change.
\* What a handler does not look at again is cleared.
Request(op, actor, role, o, target, give) ==
    [op |-> op, next |-> "quiet", actor |-> actor, role |-> role, org |-> o,
     target |-> target, give |-> give, set |-> None]
Quiet == Request("quiet", None, None, None, None, None)

Changing == {"update", "delete"}
Handler == [op: {"quiet", "allowed", "register", "count"} \cup Changing,
            next: {"quiet"} \cup Changing,
            actor: User \cup {None}, role: AdminRole \cup {None}, org: Org \cup {None},
            target: User \cup {None}, give: Role \cup {None}, set: {"ACTIVE", "INACTIVE", None}]

Done(s) == handler' = [handler EXCEPT ![s] = Quiet]

\* The administrators an organization can still be run by.
ActiveAdmins(o) == {u \in User : Active(u) /\ user[u].org = o /\ user[u].role \in AdminRole}

AccountsInit ==
    /\ org = {Home}
    /\ user = [u \in User |-> IF u = Root THEN NewUser(Home, "SUPER_ADMIN") ELSE NoUser]
    /\ switched = [u \in User |-> {}]
    /\ handler = [s \in Slot |-> Quiet]
    /\ contested = {}

-----------------------------------------------------------------------------
(* Signing up and signing in *)

\* POST /auth/register makes the organization ...
RegisterOrg(s, u, o, r) ==
    /\ handler[s] = Quiet
    /\ o \notin org /\ user[u] = NoUser
    /\ r # "IT_ADMIN"
    /\ org' = org \cup {o}
    /\ handler' = [handler EXCEPT ![s] = Request("register", None, None, o, u, r)]
    /\ UNCHANGED <<user, switched, contested>>

\* ... and then the account, which fails when its e-mail address was taken meanwhile.
RegisterUser(s) ==
    LET h == handler[s] IN
    /\ h.op = "register"
    /\ user' = IF user[h.target] = NoUser
               THEN [user EXCEPT ![h.target] = NewUser(h.org, h.give)]
               ELSE user
    /\ Done(s)
    /\ UNCHANGED <<org, switched, contested>>

\* An account that is active can log in, which gives a token for its own
\* organization, so such a token is at hand for as long as it is accepted.
Scopes(u) == {user[u].org} \cup switched[u]

\* Faulty variant: any organization will do.
FaultyAccepted(u, o) ==
    /\ Active(u)
    /\ o \in Scopes(u)

\* authenticate: the account is looked up again on every request, and a token
\* for another organization is for super administrators.
Accepted(u, o) ==
    /\ Active(u)
    /\ o \in Scopes(u)
    /\ user[u].role = "SUPER_ADMIN" \/ o = user[u].org

\* POST /auth/switch-organization
SwitchOrganization(s, u, p, o) ==
    /\ handler[s] = Quiet
    /\ Accepted(u, p)
    /\ user[u].role = "SUPER_ADMIN" \/ o = p
    /\ o \in org
    /\ switched' = [switched EXCEPT ![u] = @ \cup ({o} \ {user[u].org})]
    /\ MapThenSumSet(LAMBDA v : Cardinality(switched'[v]), User) <= MaxSwitched
    /\ UNCHANGED <<org, user, handler, contested>>

\* The pre-handlers of the routes below: the request is from an administrator.
Allow(s, u, o) ==
    /\ handler[s] = Quiet
    /\ Accepted(u, o)
    /\ user[u].role \in AdminRole
    /\ handler' = [handler EXCEPT ![s] = Request("allowed", u, user[u].role, o, None, None)]
    /\ UNCHANGED <<org, user, switched, contested>>

-----------------------------------------------------------------------------
(* Organizations and users *)

\* ROLE_WEIGHT: only a super administrator gives the role of an administrator.
MayGive(h, r) == h.role = "SUPER_ADMIN" \/ r \notin AdminRole

\* POST /organizations, with a first administrator or (u is None) without.
CreateOrganization(s, o, u) ==
    /\ handler[s].op = "allowed" /\ handler[s].role = "SUPER_ADMIN"
    /\ o \notin org
    /\ org' = org \cup {o}
    /\ \/ u = None /\ UNCHANGED user
       \/ u # None /\ user[u] = NoUser /\ user' = [user EXCEPT ![u] = NewUser(o, "ORG_ADMIN")]
    /\ Done(s)
    /\ UNCHANGED <<switched, contested>>

\* POST /users; a super administrator may name the organization.
CreateUser(s, u, o, r) ==
    LET h == handler[s] IN
    /\ h.op = "allowed"
    /\ MayGive(h, r)
    /\ o = h.org \/ (h.role = "SUPER_ADMIN" /\ o \in org)
    /\ user[u] = NoUser
    /\ user' = [user EXCEPT ![u] = NewUser(o, r)]
    /\ Done(s)
    /\ UNCHANGED <<org, switched, contested>>

\* Faulty variant: super administrators are not protected.
FaultyMayChange(h, u) ==
    /\ h.op = "allowed"
    /\ Present(u)
    /\ h.role = "SUPER_ADMIN" \/ user[u].org = h.org

\* The account a change is for, as the handler finds it: one of the actor's
\* organization, and no super administrator, unless the actor is one.
MayChange(h, u) ==
    /\ h.op = "allowed"
    /\ Present(u)
    /\ h.role = "SUPER_ADMIN" \/ user[u].org = h.org
    /\ h.role = "SUPER_ADMIN" \/ user[u].role # "SUPER_ADMIN"

Busy(h, o) == h.op \in Changing \cup {"count"} /\ user[h.target].org = o

\* The change goes on with the count of the other administrators if it takes one away.
Proceed(s, u, next, r, x, removes) ==
    /\ handler' = [handler EXCEPT ![s] = [op |-> IF removes THEN "count" ELSE next,
                                         next |-> IF removes THEN next ELSE "quiet",
                                         actor |-> None, role |-> @.role, org |-> @.org,
                                         target |-> u, give |-> r, set |-> x]]
    /\ contested' = IF \E t \in Slot \ {s} : Busy(handler[t], user[u].org)
                    THEN contested \cup {user[u].org} ELSE contested
    /\ Cardinality(contested') <= MaxContested
    /\ UNCHANGED <<org, user, switched>>

\* PATCH /users/:id reads the account ...
UpdateRead(s, u, r, x) ==
    LET h == handler[s]
        demotes == r # None /\ r \notin AdminRole /\ user[u].role \in AdminRole
        deactivates == x = "INACTIVE" /\ Active(u) /\ user[u].role \in AdminRole
    IN
    /\ MayChange(h, u)
    /\ r # None => MayGive(h, r)
    /\ ~(u = h.actor /\ x = "INACTIVE")
    /\ Proceed(s, u, "update", r, x, demotes \/ deactivates)

\* ... as DELETE /users/:id does ...
DeleteRead(s, u) ==
    LET h == handler[s] IN
    /\ MayChange(h, u)
    /\ u # h.actor
    /\ Proceed(s, u, "delete", None, None, Active(u) /\ user[u].role \in AdminRole)

Turn(h) == [h EXCEPT !.op = h.next, !.next = "quiet"]

\* Faulty variant: the administrators of all organizations are counted.
FaultyCountAdmins(s) ==
    LET u == handler[s].target IN
    /\ handler[s].op = "count"
    /\ IF UNION {ActiveAdmins(o) : o \in Org} \ {u} # {}
       THEN handler' = [handler EXCEPT ![s] = Turn(@)]
       ELSE Done(s)
    /\ UNCHANGED <<org, user, switched, contested>>

\* ... counts the other active administrators of the organization ...
CountAdmins(s) ==
    LET u == handler[s].target IN
    /\ handler[s].op = "count"
    /\ IF ActiveAdmins(user[u].org) \ {u} # {}
       THEN handler' = [handler EXCEPT ![s] = Turn(@)]
       ELSE Done(s)
    /\ UNCHANGED <<org, user, switched, contested>>

\* ... and writes by id, which fails when the account is gone.
Or(new, old) == IF new = None THEN old ELSE new
Updated(h, row) == [status |-> Or(h.set, row.status), org |-> row.org, role |-> Or(h.give, row.role)]

\* Faulty variant: the row is written back whether or not it is still there.
FaultyUpdateWrite(s) ==
    LET u == handler[s].target IN
    /\ handler[s].op = "update"
    /\ user' = [user EXCEPT ![u] = Updated(handler[s], user[u])]
    /\ Done(s)
    /\ UNCHANGED <<org, switched, contested>>

UpdateWrite(s) ==
    LET u == handler[s].target IN
    /\ handler[s].op = "update"
    /\ user' = IF Present(u) THEN [user EXCEPT ![u] = Updated(handler[s], user[u])] ELSE user
    /\ Done(s)
    /\ UNCHANGED <<org, switched, contested>>

\* The references to the account are cleared and the account deleted in one transaction.
Deleted(row) == [status |-> "DELETED", org |-> row.org, role |-> None]

DeleteWrite(s) ==
    LET u == handler[s].target IN
    /\ handler[s].op = "delete"
    /\ user' = IF Present(u) THEN [user EXCEPT ![u] = Deleted(user[u])] ELSE user
    /\ Done(s)
    /\ UNCHANGED <<org, switched, contested>>

\* A statement fails, or the process stops.
RequestFails(s) ==
    /\ handler[s] # Quiet
    /\ Done(s)
    /\ UNCHANGED <<org, user, switched, contested>>

Next ==
    \E s \in Slot :
        \/ \E u \in User, o \in Org, r \in Lesser : RegisterOrg(s, u, o, r)
        \/ \E u \in User, p, o \in Org : SwitchOrganization(s, u, p, o)
        \/ \E u \in User, o \in Org : Allow(s, u, o)
        \/ \E o \in Org, u \in User \cup {None} : CreateOrganization(s, o, u)
        \/ \E u \in User, o \in Org, r \in Role : CreateUser(s, u, o, r)
        \/ \E u \in User, c \in Change : UpdateRead(s, u, c.give, c.set)
        \/ \E u \in User : DeleteRead(s, u)
        \/ RegisterUser(s) \/ CountAdmins(s) \/ UpdateWrite(s) \/ DeleteWrite(s) \/ RequestFails(s)

Spec == AccountsInit /\ [][Next]_accountsVars

-----------------------------------------------------------------------------
(* Properties *)

\* Rows and requests are well formed.  A deleted account has no role, and what
\* refers to an organization refers to one there is.
AccountsTypeOK ==
    /\ org \subseteq Org /\ user \in [User -> UserRow]
    /\ switched \in [User -> SUBSET org]
    /\ handler \in [Slot -> Handler]
    /\ contested \subseteq org
    /\ \A u \in User : user[u] # NoUser => user[u].org \in org
    /\ \A s \in Slot : handler[s].op \in Changing \cup {"count"} => user[handler[s].target] # NoUser

\* An organization that has an active administrator keeps one, whatever accounts
\* are changed or deleted and in whatever order, as long as no two changes of its
\* accounts overlap: each of two that do may count on the administrator the
\* other one takes away.  Changes in other organizations do not matter.
LastAdminKept ==
    [][\A o \in Org : ActiveAdmins(o) # {} => ActiveAdmins(o)' # {} \/ o \in contested]_accountsVars

\* Requests stay within an organization: what an account does to another one
\* happens in its own organization unless it was a super administrator when the
\* request was authenticated.  A token that a super administrator got for
\* another organization is of no use once the account is demoted.
TenantIsolation ==
    \A s \in Slot :
        LET h == handler[s] IN
        /\ h.op = "allowed" => h.role = "SUPER_ADMIN" \/ h.org = user[h.actor].org
        /\ h.op \in Changing \cup {"count"} => h.role = "SUPER_ADMIN" \/ h.org = user[h.target].org

\* A super administrator is changed or deleted only by a request of a super
\* administrator, as long as no two changes overlap in the organization: one that
\* finds the account before it is promoted is not stopped afterwards.
SuperAdminProtected ==
    [][\A u \in User :
         /\ Present(u) /\ user[u].role = "SUPER_ADMIN"
         /\ user'[u] # user[u]
         => \/ user[u].org \in contested
            \/ \E s \in Slot : handler[s].target = u /\ handler[s].role = "SUPER_ADMIN"]_accountsVars
=============================================================================
