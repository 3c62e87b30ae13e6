--------------------------- MODULE ConsoleSession ---------------------------
(***************************************************************************)
(* The session of the web console: the token in the browser's storage,     *)
(* which all tabs share, and in each tab the token and the profile that    *)
(* React holds.  Every request takes the token from the storage when it is *)
(* sent; its answer may come late, and is applied whatever has happened to *)
(* the session in between.  A token is the index of the sign-in, refresh,  *)
(* password change or switch that issued it.                               *)
(***************************************************************************)
EXTENDS Naturals, Sequences, FiniteSets

CONSTANTS
    Tab,
    Account,
    None,
    MaxTokens,    \* bound: tokens the server issues
    MaxFlight,    \* bound: requests in flight when the user starts another
    MaxFaults     \* bound: requests that fail otherwise than by a 401, and reloads

ASSUME ConsoleAssumption ==
    /\ MaxTokens \in Nat \ {0} /\ {MaxFlight, MaxFaults} \subseteq Nat
    /\ None \notin Nat

VARIABLES
    issued,     \* the tokens of the server: whom they stand for, and their age
    storage,    \* localStorage: the token of the browser
    token,      \* per tab: the token React holds
    user,       \* per tab: the profile shown
    isLoading,
    unloaded,   \* per tab: the effect of AuthProvider has not run for the token
    flight,     \* requests that have not been answered
    faults,
    signedOut,  \* history: signed out, with nothing in flight that brings a token
    overtaken   \* history, per tab: the profile is of a token no longer held

tabVars == <<token, user, isLoading, unloaded>>
consoleVars == <<issued, storage, tabVars, flight, faults, signedOut, overtaken>>

-----------------------------------------------------------------------------
Profile == [account: Account, org: {"home", "away"}]
Token == 1 .. Len(issued)

\* The session a token stands for; its age is what its expiry, or the end of
\* its account, makes of it.
Session == [profile: Profile, age: {"good", "near", "dead"}]

Brings == {"signIn", "refresh", "changePassword", "switch"}
Request == [tab: Tab, op: Brings \cup {"me", "query"}, with: 1 .. MaxTokens \cup {None},
            valid: BOOLEAN, account: Account \cup {None}]

Home(a) == [account |-> a, org |-> "home"]
Alive(k) == k # None /\ issued[k].age # "dead"

\* Faulty variant: a tab sends the token it holds itself.
FaultySent(t, op, a) ==
    [tab |-> t, op |-> op, with |-> token[t], valid |-> Alive(token[t]), account |-> a]

\* fetchApi: the token is read from the storage when the request is sent.
Sent(t, op, a) ==
    [tab |-> t, op |-> op, with |-> storage, valid |-> Alive(storage), account |-> a]

ConsoleInit ==
    /\ \/ issued = <<>> /\ storage = None
       \/ \E s \in Session : issued = <<s>> /\ storage = 1
    /\ token = [t \in Tab |-> storage]
    /\ user = [t \in Tab |-> None]
    /\ isLoading = [t \in Tab |-> TRUE]
    /\ unloaded = [t \in Tab |-> TRUE]
    /\ flight = {}
    /\ faults = 0
    /\ signedOut = FALSE
    /\ overtaken = [t \in Tab |-> FALSE]

-----------------------------------------------------------------------------
(* Parts of the steps *)

\* Faulty variant: the effect runs when the page is opened only.
FaultyHolds(t, k) ==
    /\ storage' = k
    /\ token' = [token EXCEPT ![t] = k]
    /\ UNCHANGED unloaded

\* The storage and the token of the tab are set together; the effect runs again
\* when React finds the token changed.
Holds(t, k) ==
    /\ storage' = k
    /\ token' = [token EXCEPT ![t] = k]
    /\ unloaded' = [unloaded EXCEPT ![t] = @ \/ k # token[t]]

Clear(t) ==
    /\ Holds(t, None)
    /\ user' = [user EXCEPT ![t] = None]
    /\ overtaken' = [overtaken EXCEPT ![t] = FALSE]

\* The server issues a token, and the tab holds and stores it.
Take(t, profile) ==
    /\ Len(issued) < MaxTokens
    /\ issued' = Append(issued, [profile |-> profile, age |-> "good"])
    /\ Holds(t, Len(issued) + 1)

Shows(t, profile) ==
    /\ user' = [user EXCEPT ![t] = profile]
    /\ isLoading' = [isLoading EXCEPT ![t] = FALSE]

Answered(r) == r \in flight /\ flight' = flight \ {r}

\* An answer that is neither; the server issues no more tokens than the bound.
Fails(r) ==
    \/ faults < MaxFaults /\ faults' = faults + 1
    \/ r.op \in Brings /\ r.valid /\ Len(issued) = MaxTokens /\ UNCHANGED faults

\* A page of the console is shown, and the user starts a request on it.
OnPage(t) == user[t] # None /\ ~isLoading[t]
Starts(r) ==
    /\ Cardinality(flight) < MaxFlight
    /\ flight' = flight \cup {r}

-----------------------------------------------------------------------------
(* The effect that loads the user *)

\* A token that expires soon, or has expired, is exchanged first; that its
\* account has gone does not show.
FirstRequest == [good |-> {"me"}, near |-> {"refresh"}, dead |-> {"me", "refresh"}]

\* It runs for every token React holds.
LoadUser(t) ==
    /\ unloaded[t]
    /\ unloaded' = [unloaded EXCEPT ![t] = FALSE]
    /\ \/ /\ token[t] = None
          /\ isLoading' = [isLoading EXCEPT ![t] = FALSE]
          /\ UNCHANGED flight
       \/ /\ token[t] # None
          /\ \E op \in FirstRequest[issued[token[t]].age] :
               flight' = flight \cup {Sent(t, op, None)}
          /\ UNCHANGED isLoading
    /\ UNCHANGED <<issued, storage, token, user, faults, signedOut, overtaken>>

\* The profile of /auth/me is that of the token the request was sent with.
MeAnswered(r) ==
    /\ r.op = "me" /\ r.valid
    /\ Answered(r)
    /\ Shows(r.tab, issued[r.with].profile)
    /\ overtaken' = [overtaken EXCEPT ![r.tab] = r.with # token[r.tab]]
    /\ UNCHANGED <<issued, storage, token, unloaded, faults, signedOut>>

\* Anything but a profile ends the session.
MeRejected(r) ==
    /\ r.op = "me"
    /\ Answered(r)
    /\ \/ ~Alive(r.with) /\ UNCHANGED faults
       \/ Fails(r)
    /\ Clear(r.tab)
    /\ isLoading' = [isLoading EXCEPT ![r.tab] = FALSE]
    /\ UNCHANGED <<issued, signedOut>>

\* A refreshed token is scoped to the home organization of its account.
RefreshAnswered(r) ==
    /\ r.op = "refresh" /\ r.valid
    /\ Answered(r)
    /\ Take(r.tab, Home(issued[r.with].profile.account))
    /\ UNCHANGED <<user, isLoading, faults, signedOut, overtaken>>

\* Otherwise the loader goes on to /auth/me, without a token after a 401.
RefreshRejected(r) ==
    /\ r.op = "refresh" /\ r \in flight
    /\ \/ /\ ~Alive(r.with)
          /\ Clear(r.tab)
          /\ flight' = (flight \ {r}) \cup {[r EXCEPT !.op = "me", !.with = None, !.valid = FALSE]}
          /\ UNCHANGED faults
       \/ /\ Fails(r)
          /\ flight' = (flight \ {r}) \cup {Sent(r.tab, "me", None)}
          /\ UNCHANGED <<storage, token, user, unloaded, overtaken>>
    /\ UNCHANGED <<issued, isLoading, signedOut>>

-----------------------------------------------------------------------------
(* Signing in and out *)

\* login and register; their pages are left once a profile is shown.
SignIn(t, a) ==
    /\ user[t] = None
    /\ ~\E r \in flight : r.tab = t /\ r.op = "signIn"
    /\ Starts(Sent(t, "signIn", a))
    /\ isLoading' = [isLoading EXCEPT ![t] = TRUE]
    /\ signedOut' = FALSE
    /\ UNCHANGED <<issued, storage, token, user, unloaded, faults, overtaken>>

SignedIn(r) ==
    /\ r.op = "signIn"
    /\ Answered(r)
    /\ Take(r.tab, Home(r.account))
    /\ Shows(r.tab, Home(r.account))
    /\ overtaken' = [overtaken EXCEPT ![r.tab] = FALSE]
    /\ UNCHANGED <<faults, signedOut>>

\* Wrong credentials are no bound of the model: they change nothing.
SignInRejected(r) ==
    /\ r.op = "signIn"
    /\ Answered(r)
    /\ isLoading' = [isLoading EXCEPT ![r.tab] = FALSE]
    /\ UNCHANGED <<issued, storage, token, user, unloaded, faults, signedOut, overtaken>>

\* The server is told; its answer is handled like that of any other request.  A
\* request that brings a token may still be answered.
LogOut(t) ==
    /\ OnPage(t)
    /\ Cardinality(flight) <= MaxFlight
    /\ flight' = flight \cup {Sent(t, "query", None)}
    /\ Clear(t)
    /\ signedOut' = (\A r \in flight : r.op \notin Brings)
    /\ UNCHANGED <<issued, isLoading, faults>>

-----------------------------------------------------------------------------
(* Requests of the pages *)

Query(t) ==
    /\ OnPage(t)
    /\ Starts(Sent(t, "query", None))
    /\ UNCHANGED <<issued, storage, tabVars, faults, signedOut, overtaken>>

ChangePassword(t) ==
    /\ OnPage(t)
    /\ ~\E r \in flight : r.tab = t /\ r.op = "changePassword"
    /\ Starts(Sent(t, "changePassword", None))
    /\ UNCHANGED <<issued, storage, tabVars, faults, signedOut, overtaken>>

\* The new token is stored; the profile follows through the effect.
PasswordChanged(r) ==
    /\ r.op = "changePassword" /\ r.valid
    /\ Answered(r)
    /\ Take(r.tab, Home(issued[r.with].profile.account))
    /\ UNCHANGED <<user, isLoading, faults, signedOut, overtaken>>

SwitchOrganization(t) ==
    /\ OnPage(t)
    /\ ~\E r \in flight : r.tab = t /\ r.op = "switch"
    /\ Starts(Sent(t, "switch", None))
    /\ UNCHANGED <<issued, storage, tabVars, faults, signedOut, overtaken>>

\* What a new page makes of the storage; the requests of the old one are gone.
Opens(t, stored) ==
    /\ token' = [token EXCEPT ![t] = stored]
    /\ user' = [user EXCEPT ![t] = None]
    /\ isLoading' = [isLoading EXCEPT ![t] = TRUE]
    /\ unloaded' = [unloaded EXCEPT ![t] = TRUE]
    /\ flight' = {r \in flight : r.tab # t}
    /\ overtaken' = [overtaken EXCEPT ![t] = FALSE]

\* The new token is stored and the page is loaded anew.
Switched(r) ==
    /\ r.op = "switch" /\ r.valid /\ r \in flight
    /\ Len(issued) < MaxTokens
    /\ \E org \in {"home", "away"} :
         issued' = Append(issued, [profile |-> [account |-> issued[r.with].profile.account, org |-> org],
                                   age |-> "good"])
    /\ storage' = Len(issued) + 1
    /\ Opens(r.tab, Len(issued) + 1)
    /\ UNCHANGED <<faults, signedOut>>

\* Faulty variant: the event of a 401 has no listener.
FaultyRejected(r) ==
    /\ r.op \in {"query", "changePassword", "switch"}
    /\ r.op = "changePassword" \/ ~Alive(r.with)
    /\ Answered(r)
    /\ UNCHANGED <<issued, storage, tabVars, faults, signedOut, overtaken>>

\* fetchApi: a 401 clears the session, whichever it was that was rejected;
\* a wrong current password is a 401 as well.
Rejected(r) ==
    /\ r.op \in {"query", "changePassword", "switch"}
    /\ r.op = "changePassword" \/ ~Alive(r.with)
    /\ Answered(r)
    /\ Clear(r.tab)
    /\ UNCHANGED <<issued, isLoading, faults, signedOut>>

\* Answers that leave the session alone.
Ignored(r) ==
    /\ \/ r.op = "query" /\ r.valid /\ UNCHANGED faults
       \/ r.op \in {"query", "changePassword", "switch"} /\ Fails(r)
    /\ Answered(r)
    /\ UNCHANGED <<issued, storage, tabVars, signedOut, overtaken>>

Reload(t) ==
    /\ faults < MaxFaults /\ faults' = faults + 1
    /\ Opens(t, storage)
    /\ UNCHANGED <<issued, storage, signedOut>>

\* Tokens expire, and their accounts are deactivated.
Age(k) ==
    /\ issued[k].age # "dead"
    /\ issued' = [issued EXCEPT ![k].age = IF @ = "good" THEN "near" ELSE "dead"]
    /\ UNCHANGED <<storage, tabVars, flight, faults, signedOut, overtaken>>

-----------------------------------------------------------------------------
Answers(r) ==
    \/ MeAnswered(r) \/ MeRejected(r)
    \/ RefreshAnswered(r) \/ RefreshRejected(r)
    \/ SignedIn(r) \/ SignInRejected(r)
    \/ PasswordChanged(r) \/ Switched(r)
    \/ Rejected(r) \/ Ignored(r)

ConsoleNext ==
    \/ \E t \in Tab :
         \/ LoadUser(t) \/ Reload(t)
         \/ \E a \in Account : SignIn(t, a)
         \/ LogOut(t) \/ Query(t) \/ ChangePassword(t) \/ SwitchOrganization(t)
    \/ \E r \in flight : Answers(r)
    \/ \E k \in Token : Age(k)

ConsoleSpec == ConsoleInit /\ [][ConsoleNext]_consoleVars

\* Effects run, and a tab that waits for answers gets one or another.
RunningConsole ==
    /\ ConsoleSpec
    /\ \A t \in Tab : WF_consoleVars(LoadUser(t))
    /\ \A t \in Tab : WF_consoleVars(\E r \in flight : r.tab = t /\ Answers(r))

-----------------------------------------------------------------------------
(* Properties *)

\* The variables hold what the handlers write; a tab that holds a token holds
\* one that was issued.
ConsoleTypeOK ==
    /\ issued \in Seq(Session) /\ Len(issued) <= MaxTokens
    /\ storage \in Token \cup {None}
    /\ token \in [Tab -> Token \cup {None}]
    /\ user \in [Tab -> Profile \cup {None}]
    /\ isLoading \in [Tab -> BOOLEAN]
    /\ unloaded \in [Tab -> BOOLEAN]
    /\ flight \subseteq Request
    /\ faults \in 0 .. MaxFaults
    /\ signedOut \in BOOLEAN
    /\ overtaken \in [Tab -> BOOLEAN]

\* A browser that was signed out stays so until somebody signs in, in whatever
\* state its other tabs are: nothing sent afterwards brings a session back.
\* Only an answer that was on its way can.
SignedOutStays == signedOut => storage = None

\* When nothing that loads a profile is under way, the profile a tab shows is
\* that of the token it holds, however tokens were exchanged; only an answer
\* of /auth/me for an earlier token, or another tab's, can have replaced it.
Settled(t) ==
    /\ ~unloaded[t]
    /\ \A r \in flight : r.tab = t => r.op \notin {"me", "refresh"}
ShownSettled ==
    \A t \in Tab : Settled(t) /\ user[t] # None /\ ~overtaken[t]
        => token[t] # None /\ user[t] = issued[token[t]].profile

\* No tab shows "Verifying security session" for ever, and one that still shows
\* a profile when the browser has no token comes to notice, as long as the
\* dashboard goes on asking for data.
TabsSettle ==
    \A t \in Tab : SF_consoleVars(Query(t)) =>
        []<>(~isLoading[t] /\ (user[t] = None \/ storage # None))
=============================================================================
