------------------------ MODULE ConsoleSession_proofs -----------------------
(***************************************************************************)
(* Proofs about ConsoleSession, for any number of tabs, accounts, tokens,  *)
(* requests in flight and failures.                                        *)
(***************************************************************************)
EXTENDS ConsoleSession, TLAPS

\* A request is answered with the authority of a token that was issued.
SentOK(r) ==
    /\ r.with \in Token \cup {None}
    /\ r.valid => r.with # None
    /\ r.op = "signIn" => r.account \in Account

TypeInv == ConsoleTypeOK /\ \A r \in flight : SentOK(r)

\* After a sign-out no request carries what could bring a session back.
OutInv ==
    signedOut => /\ storage = None
                 /\ \A r \in flight : r.op \in Brings => ~r.valid /\ r.op # "signIn"

\* A tab that holds no token shows no profile, or a late one; the profile of a tab
\* that has nothing to load is that of its token.
ShownOK(t) ==
    /\ token[t] = None => user[t] = None \/ overtaken[t]
    /\ Settled(t) /\ token[t] # None /\ user[t] # None /\ ~overtaken[t]
         => user[t] = issued[token[t]].profile

SessionInv == TypeInv /\ OutInv /\ \A t \in Tab : ShownOK(t)

-----------------------------------------------------------------------------
\* The tokens that are issued are the first numbers, and None is none of them.
LEMMA TokenFacts ==
    ASSUME ConsoleAssumption, ConsoleTypeOK
    PROVE  /\ Len(issued) \in Nat /\ Len(issued) <= MaxTokens /\ MaxTokens \in Nat
           /\ \A k \in Token : k \in Nat /\ k \in 1 .. MaxTokens /\ issued[k] \in Session
           /\ Len(issued) + 1 \notin Token \cup {None}
           /\ None \notin Token
  BY DEF ConsoleAssumption, ConsoleTypeOK, Token

\* What a request carries when it is sent.
LEMMA SentFacts ==
    ASSUME ConsoleAssumption, ConsoleTypeOK,
           NEW t \in Tab, NEW op \in Brings \cup {"me", "query"},
           NEW a \in Account \cup {None}, op = "signIn" => a \in Account
    PROVE  /\ Sent(t, op, a) \in Request
           /\ SentOK(Sent(t, op, a))
           /\ Sent(t, op, a).tab = t /\ Sent(t, op, a).op = op
           /\ storage = None => ~Sent(t, op, a).valid
<1>1. storage \in 1 .. MaxTokens \cup {None} /\ storage \in Token \cup {None}
  BY TokenFacts DEF ConsoleTypeOK
<1>2. Alive(storage) \in BOOLEAN /\ (Alive(storage) => storage # None)
  BY DEF Alive
<1> QED  BY <1>1, <1>2 DEF Sent, SentOK, Request

\* What the server's issuing a token makes of the tokens, and of the tab.
LEMMA TakeFacts ==
    ASSUME ConsoleAssumption, ConsoleTypeOK,
           NEW t \in Tab, NEW p \in Profile, Take(t, p)
    PROVE  /\ issued' \in Seq(Session) /\ Len(issued') = Len(issued) + 1
           /\ Len(issued') <= MaxTokens
           /\ \A k \in Token : issued'[k] = issued[k]
           /\ issued'[Len(issued) + 1].profile = p
           /\ storage' = Len(issued) + 1
           /\ token' = [token EXCEPT ![t] = Len(issued) + 1]
           /\ unloaded' = [unloaded EXCEPT ![t] = TRUE]
<1> DEFINE new == [profile |-> p, age |-> "good"]
<1>1. new \in Session
  BY DEF Session
<1>2. /\ issued' = Append(issued, new) /\ Len(issued) < MaxTokens
      /\ storage' = Len(issued) + 1
      /\ token' = [token EXCEPT ![t] = Len(issued) + 1]
      /\ unloaded' = [unloaded EXCEPT ![t] = @ \/ Len(issued) + 1 # token[t]]
  BY DEF Take, Holds
<1>3. Len(issued) + 1 # token[t]
  BY TokenFacts DEF ConsoleTypeOK
<1>4. issued \in Seq(Session)
  BY DEF ConsoleTypeOK
<1>5. issued' \in Seq(Session) /\ Len(issued') = Len(issued) + 1
  BY <1>1, <1>2, <1>4
<1>6. /\ \A k \in 1 .. Len(issued) : issued'[k] = issued[k]
      /\ issued'[Len(issued) + 1] = new
  BY <1>1, <1>2, <1>4
<1>7. Len(issued') <= MaxTokens
  BY <1>2, <1>5, TokenFacts
<1>8. unloaded' = [unloaded EXCEPT ![t] = TRUE]
  BY <1>2, <1>3
<1>9. issued'[Len(issued) + 1].profile = p
  BY <1>6
<1> QED  BY <1>2, <1>5, <1>6, <1>7, <1>8, <1>9 DEF Token

\* A token stands for the same profile for ever.
Kept == /\ issued' \in Seq(Session) /\ Len(issued') <= MaxTokens
        /\ Token \subseteq Token'
        /\ \A k \in Token : issued'[k].profile = issued[k].profile

LEMMA KeptByTake ==
    ASSUME ConsoleAssumption, ConsoleTypeOK,
           NEW t \in Tab, NEW p \in Profile, Take(t, p)
    PROVE  Kept /\ Token' = Token \cup {Len(issued) + 1}
<1>1. Len(issued) \in Nat
  BY TokenFacts
<1>2. /\ issued' \in Seq(Session) /\ Len(issued') = Len(issued) + 1 /\ Len(issued') <= MaxTokens
      /\ \A k \in Token : issued'[k] = issued[k]
  BY TakeFacts
<1>3. 1 .. Len(issued') = (1 .. Len(issued)) \cup {Len(issued) + 1}
  BY <1>1, <1>2
<1> QED  BY <1>2, <1>3 DEF Kept, Token

LEMMA KeptUnchanged ==
    ASSUME ConsoleTypeOK, UNCHANGED issued
    PROVE  Kept /\ Token' = Token
  BY DEF Kept, Token, ConsoleTypeOK

\* A switch issues a token as every other exchange does.
LEMMA SwitchedFacts ==
    ASSUME ConsoleAssumption, TypeInv, NEW r \in flight, Switched(r)
    PROVE  /\ Kept /\ Token' = Token \cup {Len(issued) + 1}
           /\ storage' = Len(issued) + 1
<1> PICK org \in {"home", "away"} :
      issued' = Append(issued, [profile |-> [account |-> issued[r.with].profile.account, org |-> org],
                                age |-> "good"])
  BY DEF Switched
<1> DEFINE new == [profile |-> [account |-> issued[r.with].profile.account, org |-> org], age |-> "good"]
<1>0. r.with \in Token
  BY DEF TypeInv, SentOK, Switched
<1>1. issued[r.with] \in Session
  BY <1>0, TokenFacts DEF TypeInv
<1>2. new \in Session
  BY <1>1 DEF Session, Profile
<1>3. issued \in Seq(Session) /\ Len(issued) \in Nat /\ Len(issued) < MaxTokens /\ MaxTokens \in Nat
  BY TokenFacts DEF TypeInv, ConsoleTypeOK, Switched
<1>4. issued' = Append(issued, new)
  OBVIOUS
<1> HIDE DEF new
<1>5. /\ issued' \in Seq(Session) /\ Len(issued') = Len(issued) + 1
      /\ \A k \in 1 .. Len(issued) : issued'[k] = issued[k]
  BY <1>2, <1>3, <1>4
<1>6. 1 .. Len(issued') = (1 .. Len(issued)) \cup {Len(issued) + 1} /\ Len(issued') <= MaxTokens
  BY <1>3, <1>5
<1>7. storage' = Len(issued) + 1
  BY DEF Switched
<1> QED  BY <1>5, <1>6, <1>7 DEF Kept, Token

LEMMA AgeFacts ==
    ASSUME ConsoleAssumption, ConsoleTypeOK, NEW k \in Token, Age(k)
    PROVE  Kept /\ Token' = Token
<1>1. issued \in Seq(Session) /\ k \in 1 .. Len(issued) /\ issued[k] \in Session
  BY TokenFacts DEF ConsoleTypeOK, Token
<1> DEFINE aged == [issued[k] EXCEPT !.age = IF @ = "good" THEN "near" ELSE "dead"]
<1>2. aged \in Session /\ aged.profile = issued[k].profile
  BY <1>1 DEF Session
<1>3. issued' = [issued EXCEPT ![k] = aged]
  BY DEF Age
<1> HIDE DEF aged
<1>4. /\ issued' \in Seq(Session) /\ Len(issued') = Len(issued)
      /\ \A j \in 1 .. Len(issued) : issued'[j] = IF j = k THEN aged ELSE issued[j]
  BY <1>1, <1>2, <1>3
<1>5. Len(issued) <= MaxTokens
  BY DEF ConsoleTypeOK
<1> QED  BY <1>2, <1>4, <1>5 DEF Kept, Token

-----------------------------------------------------------------------------
\* A request stays well formed while tokens are kept.
LEMMA StillSent ==
    ASSUME Kept
    PROVE  \A r : SentOK(r) => SentOK(r)'
  BY DEF SentOK, Kept

\* Setting the token of a tab.
LEMMA HoldsFacts ==
    ASSUME ConsoleTypeOK, NEW t \in Tab, NEW k, Holds(t, k), Token \subseteq Token', k \in Token' \cup {None}
    PROVE  /\ storage' \in Token' \cup {None}
           /\ token' \in [Tab -> Token' \cup {None}]
           /\ unloaded' \in [Tab -> BOOLEAN]
<1>1. /\ storage' = k /\ token' = [token EXCEPT ![t] = k]
      /\ unloaded' = [unloaded EXCEPT ![t] = @ \/ k # token[t]]
  BY DEF Holds
<1>2. unloaded' \in [Tab -> BOOLEAN]
  BY <1>1, Zenon DEF ConsoleTypeOK
<1> QED  BY <1>1, <1>2 DEF ConsoleTypeOK

LEMMA ClearFacts ==
    ASSUME ConsoleTypeOK, NEW t \in Tab, Clear(t), Kept
    PROVE  /\ storage' \in Token' \cup {None}
           /\ token' \in [Tab -> Token' \cup {None}]
           /\ unloaded' \in [Tab -> BOOLEAN]
           /\ user' \in [Tab -> Profile \cup {None}]
           /\ overtaken' \in [Tab -> BOOLEAN]
<1>1. Holds(t, None) /\ Token \subseteq Token'
  BY DEF Clear, Kept
<1>2. /\ user' = [user EXCEPT ![t] = None]
      /\ overtaken' = [overtaken EXCEPT ![t] = FALSE]
  BY DEF Clear
<1>3. user' \in [Tab -> Profile \cup {None}] /\ overtaken' \in [Tab -> BOOLEAN]
  BY <1>2 DEF ConsoleTypeOK
<1> QED  BY <1>1, <1>3, HoldsFacts

\* Failures are counted up to the bound.
LEMMA FailsFacts ==
    ASSUME ConsoleAssumption, ConsoleTypeOK, NEW r, UNCHANGED faults \/ Fails(r)
    PROVE  faults' \in 0 .. MaxFaults
  BY DEF ConsoleAssumption, ConsoleTypeOK, Fails

-----------------------------------------------------------------------------
LEMMA TypeInit ==
    ASSUME ConsoleAssumption, ConsoleInit
    PROVE  TypeInv
<1>1. /\ issued \in Seq(Session) /\ Len(issued) <= MaxTokens
      /\ storage \in Token \cup {None}
  <2>1. CASE issued = <<>> /\ storage = None
    BY <2>1 DEF ConsoleAssumption
  <2>2. CASE \E s \in Session : issued = <<s>> /\ storage = 1
    BY <2>2 DEF ConsoleAssumption, Token
  <2> QED  BY <2>1, <2>2 DEF ConsoleInit
<1>2. flight = {} /\ faults = 0 /\ signedOut = FALSE
  BY DEF ConsoleInit
<1>3. token \in [Tab -> Token \cup {None}] /\ user \in [Tab -> Profile \cup {None}]
  BY <1>1 DEF ConsoleInit
<1>4. isLoading \in [Tab -> BOOLEAN] /\ unloaded \in [Tab -> BOOLEAN] /\ overtaken \in [Tab -> BOOLEAN]
  BY DEF ConsoleInit
<1>5. faults \in 0 .. MaxFaults
  BY <1>2 DEF ConsoleAssumption
<1>6. flight \subseteq Request /\ \A r \in flight : SentOK(r)
  BY <1>2
<1> QED  BY <1>1, <1>2, <1>3, <1>4, <1>5, <1>6 DEF TypeInv, ConsoleTypeOK

\* A new request is well formed before and after its sending.
LEMMA SentStays ==
    ASSUME ConsoleAssumption, ConsoleTypeOK, Kept,
           NEW t \in Tab, NEW op \in Brings \cup {"me", "query"},
           NEW a \in Account \cup {None}, op = "signIn" => a \in Account
    PROVE  \A r \in {Sent(t, op, a)} : r \in Request /\ SentOK(r)'
<1>1. Sent(t, op, a) \in Request /\ SentOK(Sent(t, op, a))
  BY SentFacts
<1>2. \A r \in {Sent(t, op, a)} : r \in Request /\ SentOK(r)
  BY <1>1
<1> QED  BY <1>2, StillSent

LEMMA LoadUserType ==
    ASSUME ConsoleAssumption, TypeInv, NEW t \in Tab, LoadUser(t)
    PROVE  TypeInv' /\ Kept
<1>1. Kept /\ Token' = Token
  BY KeptUnchanged DEF LoadUser, TypeInv
<1>2. flight' = flight \/ \E op \in {"me", "refresh"} : flight' = flight \cup {Sent(t, op, None)}
  <2>1. CASE token[t] = None
    BY <2>1 DEF LoadUser
  <2>2. CASE token[t] # None
    <3>1. issued[token[t]].age \in {"good", "near", "dead"}
      BY <2>2, TokenFacts DEF TypeInv, ConsoleTypeOK, Session
    <3>2. FirstRequest[issued[token[t]].age] \subseteq {"me", "refresh"}
      BY <3>1 DEF FirstRequest
    <3> QED  BY <2>2, <3>2 DEF LoadUser
  <2> QED  BY <2>1, <2>2
<1>3. flight' \subseteq Request /\ \A r \in flight' : SentOK(r)'
  <2>1. CASE flight' = flight
    BY <1>1, <2>1, StillSent DEF TypeInv, ConsoleTypeOK
  <2>2. ASSUME NEW op \in {"me", "refresh"}, flight' = flight \cup {Sent(t, op, None)}
        PROVE  flight' \subseteq Request /\ \A r \in flight' : SentOK(r)'
    <3>1. op \in Brings \cup {"me", "query"} /\ op # "signIn"
      BY DEF Brings
    <3>2. \A r \in {Sent(t, op, None)} : r \in Request /\ SentOK(r)'
      BY <1>1, <3>1, SentStays DEF TypeInv
    <3> QED  BY <1>1, <2>2, <3>2, StillSent DEF TypeInv, ConsoleTypeOK
  <2> QED  BY <1>2, <2>1, <2>2
<1>4. unloaded' \in [Tab -> BOOLEAN] /\ isLoading' \in [Tab -> BOOLEAN]
  BY DEF LoadUser, TypeInv, ConsoleTypeOK
<1>5. UNCHANGED <<issued, storage, token, user, faults, signedOut, overtaken>>
  BY DEF LoadUser
<1> QED  BY <1>1, <1>3, <1>4, <1>5 DEF TypeInv, ConsoleTypeOK

\* A page that is opened drops the requests of the one before.
LEMMA OpensFacts ==
    ASSUME ConsoleTypeOK, NEW t \in Tab, NEW k \in Token' \cup {None}, Opens(t, k), Kept
    PROVE  /\ token' \in [Tab -> Token' \cup {None}]
           /\ user' \in [Tab -> Profile \cup {None}]
           /\ isLoading' \in [Tab -> BOOLEAN] /\ unloaded' \in [Tab -> BOOLEAN]
           /\ overtaken' \in [Tab -> BOOLEAN]
           /\ flight' \subseteq flight
  BY DEF Opens, ConsoleTypeOK, Kept

LEMMA ReloadType ==
    ASSUME ConsoleAssumption, TypeInv, NEW t \in Tab, Reload(t)
    PROVE  TypeInv' /\ Kept
<1>1. Kept /\ Token' = Token /\ UNCHANGED <<issued, storage, signedOut>> /\ Opens(t, storage)
  BY KeptUnchanged DEF Reload, TypeInv
<1>2. storage \in Token' \cup {None}
  BY <1>1 DEF TypeInv, ConsoleTypeOK
<1>3. faults' \in 0 .. MaxFaults
  BY DEF Reload, ConsoleAssumption, TypeInv, ConsoleTypeOK
<1>4. flight' \subseteq flight
  BY <1>1, <1>2, OpensFacts DEF TypeInv
<1>5. flight' \subseteq Request /\ \A r \in flight' : SentOK(r)'
  BY <1>1, <1>4, StillSent DEF TypeInv, ConsoleTypeOK
<1>6. /\ token' \in [Tab -> Token' \cup {None}]
      /\ user' \in [Tab -> Profile \cup {None}]
      /\ isLoading' \in [Tab -> BOOLEAN] /\ unloaded' \in [Tab -> BOOLEAN]
      /\ overtaken' \in [Tab -> BOOLEAN]
  BY <1>1, <1>2, OpensFacts DEF TypeInv
<1> QED  BY <1>1, <1>3, <1>5, <1>6 DEF TypeInv, ConsoleTypeOK

\* The requests the user starts.
LEMMA StartsType ==
    ASSUME ConsoleAssumption, TypeInv, NEW t \in Tab,
           \/ \E a \in Account : SignIn(t, a)
           \/ LogOut(t) \/ Query(t) \/ ChangePassword(t) \/ SwitchOrganization(t)
    PROVE  TypeInv' /\ Kept
<1>1. Kept /\ Token' = Token /\ UNCHANGED <<issued, faults>>
  BY KeptUnchanged DEF SignIn, LogOut, Query, ChangePassword, SwitchOrganization, TypeInv
<1>2. \E op \in Brings \cup {"me", "query"}, a \in Account \cup {None} :
        (op = "signIn" => a \in Account) /\ flight' = flight \cup {Sent(t, op, a)}
  BY DEF SignIn, LogOut, Query, ChangePassword, SwitchOrganization, Starts, Brings
<1>3. flight' \subseteq Request /\ \A r \in flight' : SentOK(r)'
  <2> PICK op \in Brings \cup {"me", "query"}, a \in Account \cup {None} :
         (op = "signIn" => a \in Account) /\ flight' = flight \cup {Sent(t, op, a)}
    BY <1>2
  <2>1. \A r \in {Sent(t, op, a)} : r \in Request /\ SentOK(r)'
    BY <1>1, SentStays DEF TypeInv
  <2> QED  BY <1>1, <2>1, StillSent DEF TypeInv, ConsoleTypeOK
<1>4. signedOut' \in BOOLEAN
  BY DEF SignIn, LogOut, Query, ChangePassword, SwitchOrganization, TypeInv, ConsoleTypeOK
<1>5. /\ storage' \in Token' \cup {None}
      /\ token' \in [Tab -> Token' \cup {None}]
      /\ unloaded' \in [Tab -> BOOLEAN]
      /\ user' \in [Tab -> Profile \cup {None}]
      /\ overtaken' \in [Tab -> BOOLEAN]
  <2>1. CASE LogOut(t)
    BY <2>1, <1>1, ClearFacts DEF LogOut, TypeInv
  <2>2. CASE UNCHANGED <<storage, token, user, unloaded, overtaken>>
    BY <2>2, <1>1 DEF TypeInv, ConsoleTypeOK
  <2> QED
    BY <2>1, <2>2 DEF SignIn, Query, ChangePassword, SwitchOrganization, tabVars
<1>6. isLoading' \in [Tab -> BOOLEAN]
  BY DEF SignIn, LogOut, Query, ChangePassword, SwitchOrganization, tabVars, TypeInv, ConsoleTypeOK
<1> QED  BY <1>1, <1>3, <1>4, <1>5, <1>6 DEF TypeInv, ConsoleTypeOK
\* A profile that is shown.
LEMMA ShowsFacts ==
    ASSUME ConsoleTypeOK, NEW t \in Tab, NEW p \in Profile, Shows(t, p)
    PROVE  user' \in [Tab -> Profile \cup {None}] /\ isLoading' \in [Tab -> BOOLEAN]
  BY DEF Shows, ConsoleTypeOK

\* The request that is answered had a tab and, where it counts, a token.
LEMMA AnsweredFacts ==
    ASSUME ConsoleAssumption, TypeInv, NEW r \in flight
    PROVE  /\ r \in Request /\ r.tab \in Tab /\ SentOK(r)
           /\ r.valid => /\ r.with \in Token /\ issued[r.with] \in Session
                         /\ issued[r.with].profile \in Profile
                         /\ Home(issued[r.with].profile.account) \in Profile
           /\ r.op = "signIn" => Home(r.account) \in Profile
<1>1. r \in Request /\ r.tab \in Tab /\ SentOK(r)
  BY DEF TypeInv, ConsoleTypeOK, Request
<1>2. r.valid => r.with \in Token /\ issued[r.with] \in Session
  BY <1>1, TokenFacts DEF SentOK, TypeInv
<1>3. r.valid => issued[r.with].profile \in Profile
                 /\ Home(issued[r.with].profile.account) \in Profile
  BY <1>2 DEF Session, Profile, Home
<1>4. r.op = "signIn" => Home(r.account) \in Profile
  BY <1>1 DEF SentOK, Profile, Home
<1> QED  BY <1>1, <1>2, <1>3, <1>4

\* Answers that bring a token: whom the server issues it to.
LEMMA BroughtType ==
    ASSUME ConsoleAssumption, TypeInv, NEW r \in flight,
           RefreshAnswered(r) \/ SignedIn(r) \/ PasswordChanged(r)
    PROVE  TypeInv' /\ Kept
<1>0. r.tab \in Tab
  BY AnsweredFacts
<1>1. PICK p \in Profile : Take(r.tab, p)
  BY AnsweredFacts DEF RefreshAnswered, SignedIn, PasswordChanged
<1>2. Kept /\ Token' = Token \cup {Len(issued) + 1}
  BY <1>0, <1>1, KeptByTake DEF TypeInv
<1>3. /\ storage' = Len(issued) + 1
      /\ token' = [token EXCEPT ![r.tab] = Len(issued) + 1]
      /\ unloaded' = [unloaded EXCEPT ![r.tab] = TRUE]
  BY <1>0, <1>1, TakeFacts DEF TypeInv
<1>4. /\ storage' \in Token' \cup {None} /\ token' \in [Tab -> Token' \cup {None}]
      /\ unloaded' \in [Tab -> BOOLEAN]
  BY <1>0, <1>2, <1>3 DEF TypeInv, ConsoleTypeOK
<1>5. flight' \subseteq flight /\ UNCHANGED <<faults, signedOut>>
  BY DEF RefreshAnswered, SignedIn, PasswordChanged, Answered
<1>6. flight' \subseteq Request /\ \A q \in flight' : SentOK(q)'
  BY <1>2, <1>5, StillSent DEF TypeInv, ConsoleTypeOK
<1>7. /\ user' \in [Tab -> Profile \cup {None}] /\ isLoading' \in [Tab -> BOOLEAN]
      /\ overtaken' \in [Tab -> BOOLEAN]
  <2>1. CASE SignedIn(r)
    <3>1. Home(r.account) \in Profile /\ Shows(r.tab, Home(r.account))
      BY <2>1, AnsweredFacts DEF SignedIn
    <3> QED  BY <2>1, <3>1, <1>0, ShowsFacts DEF SignedIn, TypeInv, ConsoleTypeOK
  <2>2. CASE RefreshAnswered(r) \/ PasswordChanged(r)
    BY <2>2 DEF RefreshAnswered, PasswordChanged, TypeInv, ConsoleTypeOK
  <2> QED  BY <2>1, <2>2
<1> QED  BY <1>2, <1>4, <1>5, <1>6, <1>7 DEF TypeInv, ConsoleTypeOK, Kept

LEMMA SwitchedType ==
    ASSUME ConsoleAssumption, TypeInv, NEW r \in flight, Switched(r)
    PROVE  TypeInv' /\ Kept
<1>1. r.tab \in Tab
  BY AnsweredFacts
<1>2. Kept /\ Token' = Token \cup {Len(issued) + 1} /\ storage' = Len(issued) + 1
  BY SwitchedFacts
<1>3. Opens(r.tab, Len(issued) + 1) /\ UNCHANGED <<faults, signedOut>>
  BY DEF Switched
<1>4. Len(issued) + 1 \in Token' \cup {None}
  BY <1>2
<1>5. /\ token' \in [Tab -> Token' \cup {None}]
      /\ user' \in [Tab -> Profile \cup {None}]
      /\ isLoading' \in [Tab -> BOOLEAN] /\ unloaded' \in [Tab -> BOOLEAN]
      /\ overtaken' \in [Tab -> BOOLEAN]
      /\ flight' \subseteq flight
  BY <1>1, <1>2, <1>3, <1>4, OpensFacts DEF TypeInv
<1>6. flight' \subseteq Request /\ \A q \in flight' : SentOK(q)'
  BY <1>2, <1>5, StillSent DEF TypeInv, ConsoleTypeOK
<1> QED  BY <1>2, <1>3, <1>4, <1>5, <1>6 DEF TypeInv, ConsoleTypeOK, Kept

\* Answers that issue no token.
LEMMA PlainType ==
    ASSUME ConsoleAssumption, TypeInv, NEW r \in flight,
           MeAnswered(r) \/ MeRejected(r) \/ RefreshRejected(r) \/ SignInRejected(r)
             \/ Rejected(r) \/ Ignored(r)
    PROVE  TypeInv' /\ Kept
<1>0. r.tab \in Tab /\ r \in Request /\ SentOK(r)
  BY AnsweredFacts
<1>1. Kept /\ Token' = Token /\ UNCHANGED <<issued, signedOut>>
  BY KeptUnchanged DEF MeAnswered, MeRejected, RefreshRejected, SignInRejected, Rejected, Ignored, TypeInv
<1>2. faults' \in 0 .. MaxFaults
  <2>1. UNCHANGED faults \/ Fails(r)
    BY DEF MeAnswered, MeRejected, RefreshRejected, SignInRejected, Rejected, Ignored
  <2> QED  BY <2>1, FailsFacts DEF TypeInv
<1>3. flight' \subseteq Request /\ \A q \in flight' : SentOK(q)'
  <2>1. CASE RefreshRejected(r)
    <3>1. "me" \in Brings \cup {"me", "query"}
      OBVIOUS
    <3>2. \A q \in {Sent(r.tab, "me", None)} : q \in Request /\ SentOK(q)'
      BY <1>0, <1>1, <3>1, SentStays DEF TypeInv
    <3>3. \A q \in {[r EXCEPT !.op = "me", !.with = None, !.valid = FALSE]} : q \in Request /\ SentOK(q)'
      BY <1>0 DEF Request, SentOK
    <3>4. \A q \in flight : q \in Request /\ SentOK(q)'
      BY <1>1, StillSent DEF TypeInv, ConsoleTypeOK
    <3> QED  BY <2>1, <3>2, <3>3, <3>4 DEF RefreshRejected
  <2>2. CASE flight' = flight \ {r}
    BY <2>2, <1>1, StillSent DEF TypeInv, ConsoleTypeOK
  <2> QED
    BY <2>1, <2>2 DEF MeAnswered, MeRejected, SignInRejected, Rejected, Ignored, Answered
<1>4. /\ storage' \in Token' \cup {None} /\ token' \in [Tab -> Token' \cup {None}]
      /\ unloaded' \in [Tab -> BOOLEAN] /\ user' \in [Tab -> Profile \cup {None}]
      /\ overtaken' \in [Tab -> BOOLEAN]
  <2>1. CASE Clear(r.tab)
    BY <2>1, <1>0, <1>1, ClearFacts DEF TypeInv
  <2>2. CASE MeAnswered(r)
    <3>1. Shows(r.tab, issued[r.with].profile) /\ issued[r.with].profile \in Profile
      BY <2>2, AnsweredFacts DEF MeAnswered
    <3>2. user' \in [Tab -> Profile \cup {None}]
      BY <1>0, <3>1, ShowsFacts DEF TypeInv
    <3>3. overtaken' \in [Tab -> BOOLEAN]
      BY <2>2, Zenon DEF MeAnswered, TypeInv, ConsoleTypeOK
    <3> QED  BY <2>2, <3>2, <3>3, <1>1 DEF MeAnswered, TypeInv, ConsoleTypeOK
  <2>3. CASE UNCHANGED <<storage, token, user, unloaded, overtaken>>
    BY <2>3, <1>1 DEF TypeInv, ConsoleTypeOK
  <2> QED
    BY <2>1, <2>2, <2>3 DEF MeRejected, RefreshRejected, SignInRejected, Rejected, Ignored, tabVars
<1>5. isLoading' \in [Tab -> BOOLEAN]
  BY <1>0 DEF MeAnswered, Shows, MeRejected, RefreshRejected, SignInRejected, Rejected, Ignored, tabVars,
      TypeInv, ConsoleTypeOK
<1> QED  BY <1>1, <1>2, <1>3, <1>4, <1>5 DEF TypeInv, ConsoleTypeOK, Kept

LEMMA AgeType ==
    ASSUME ConsoleAssumption, TypeInv, NEW k \in Token, Age(k)
    PROVE  TypeInv' /\ Kept
<1>1. Kept /\ Token' = Token
  BY AgeFacts DEF TypeInv
<1>2. UNCHANGED <<storage, token, user, isLoading, unloaded, flight, faults, signedOut, overtaken>>
  BY DEF Age, tabVars
<1>3. \A q \in flight : SentOK(q)'
  BY <1>1, StillSent DEF TypeInv
<1> QED  BY <1>1, <1>2, <1>3 DEF TypeInv, ConsoleTypeOK, Kept

LEMMA TypeStep ==
    ASSUME ConsoleAssumption, TypeInv, [ConsoleNext]_consoleVars
    PROVE  TypeInv' /\ Kept
<1>1. ASSUME NEW t \in Tab,
             \/ LoadUser(t) \/ Reload(t)
             \/ \E a \in Account : SignIn(t, a)
             \/ LogOut(t) \/ Query(t) \/ ChangePassword(t) \/ SwitchOrganization(t)
      PROVE  TypeInv' /\ Kept
  BY <1>1, LoadUserType, ReloadType, StartsType
<1>2. ASSUME NEW r \in flight, Answers(r)
      PROVE  TypeInv' /\ Kept
  BY <1>2, BroughtType, SwitchedType, PlainType DEF Answers
<1>3. ASSUME NEW k \in Token, Age(k)
      PROVE  TypeInv' /\ Kept
  BY <1>3, AgeType
<1>4. CASE UNCHANGED consoleVars
  BY <1>4, KeptUnchanged DEF consoleVars, tabVars, TypeInv, ConsoleTypeOK, SentOK, Token
<1> QED  BY <1>1, <1>2, <1>3, <1>4 DEF ConsoleNext

\* The session's variables stay well formed, and whatever a tab holds or sends is
\* a token that was issued.
THEOREM ConsoleTypeCorrect ==
    ASSUME ConsoleAssumption
    PROVE  ConsoleSpec => []ConsoleTypeOK
<1>1. ConsoleInit => TypeInv
  BY TypeInit
<1>2. TypeInv /\ [ConsoleNext]_consoleVars => TypeInv'
  BY TypeStep
<1>3. TypeInv => ConsoleTypeOK
  BY DEF TypeInv
<1> QED  BY <1>1, <1>2, <1>3, PTL DEF ConsoleSpec

-----------------------------------------------------------------------------
(* A browser that was signed out *)

LEMMA OutTab ==
    ASSUME ConsoleAssumption, TypeInv, OutInv, NEW t \in Tab,
           \/ LoadUser(t) \/ Reload(t)
           \/ \E a \in Account : SignIn(t, a)
           \/ LogOut(t) \/ Query(t) \/ ChangePassword(t) \/ SwitchOrganization(t)
    PROVE  OutInv'
<1> SUFFICES ASSUME signedOut'
             PROVE  /\ storage' = None
                    /\ \A r \in flight' : r.op \in Brings => ~r.valid /\ r.op # "signIn"
  BY DEF OutInv
<1>1. CASE LogOut(t)
  <2>1. \A r \in flight : r.op \notin Brings
    BY <1>1 DEF LogOut
  <2>2. flight' = flight \cup {Sent(t, "query", None)} /\ storage' = None
    BY <1>1 DEF LogOut, Clear, Holds
  <2>3. Sent(t, "query", None).op = "query" /\ "query" \notin Brings
    BY DEF Sent, Brings
  <2> QED  BY <2>1, <2>2, <2>3
<1>2. CASE UNCHANGED <<storage, signedOut>>
  <2>1. storage = None /\ storage' = None
    BY <1>2 DEF OutInv
  <2>2. ASSUME NEW op \in Brings \cup {"me", "query"}, op # "signIn"
        PROVE  ~Sent(t, op, None).valid /\ Sent(t, op, None).op # "signIn"
    BY <2>1, <2>2, SentFacts DEF TypeInv
  <2>3. \A r \in flight : r.op \in Brings => ~r.valid /\ r.op # "signIn"
    BY <1>2 DEF OutInv
  <2>4. flight' \subseteq flight
        \/ \E op \in Brings \cup {"me", "query"} : op # "signIn" /\ flight' = flight \cup {Sent(t, op, None)}
    <3>1. CASE LoadUser(t) /\ token[t] # None
      <4>1. issued[token[t]].age \in {"good", "near", "dead"}
        BY <3>1, TokenFacts DEF TypeInv, ConsoleTypeOK, Session
      <4>2. FirstRequest[issued[token[t]].age] \subseteq {"me", "refresh"}
        BY <4>1 DEF FirstRequest
      <4>3. {"me", "refresh"} \subseteq (Brings \cup {"me", "query"}) \ {"signIn"}
        BY DEF Brings
      <4> QED  BY <3>1, <4>2, <4>3 DEF LoadUser
    <3>2. CASE (LoadUser(t) /\ token[t] = None) \/ Reload(t)
      BY <3>2 DEF LoadUser, Reload, Opens
    <3>3. CASE Query(t) \/ ChangePassword(t) \/ SwitchOrganization(t)
      BY <3>3 DEF Query, ChangePassword, SwitchOrganization, Starts, Brings
    <3>4. CASE \E a \in Account : SignIn(t, a)
      BY <3>4 DEF SignIn
    <3> QED  BY <1>1, <1>2, <3>1, <3>2, <3>3, <3>4, <2>1, <2>3 DEF LogOut, Clear, Holds, Starts
  <2>5. CASE flight' \subseteq flight
    BY <2>1, <2>3, <2>5
  <2>6. ASSUME NEW op \in Brings \cup {"me", "query"}, op # "signIn", flight' = flight \cup {Sent(t, op, None)}
        PROVE  \A r \in flight' : r.op \in Brings => ~r.valid /\ r.op # "signIn"
    BY <2>2, <2>3, <2>6
  <2> QED  BY <2>1, <2>4, <2>5, <2>6
<1>3. CASE \E a \in Account : SignIn(t, a)
  BY <1>3 DEF SignIn
<1> QED
  BY <1>1, <1>2, <1>3 DEF LoadUser, Reload, Query, ChangePassword, SwitchOrganization, tabVars

LEMMA OutAnswer ==
    ASSUME ConsoleAssumption, TypeInv, OutInv, NEW r \in flight, Answers(r)
    PROVE  OutInv'
<1> SUFFICES ASSUME signedOut'
             PROVE  /\ storage' = None
                    /\ \A q \in flight' : q.op \in Brings => ~q.valid /\ q.op # "signIn"
  BY DEF OutInv
<1>1. signedOut
  BY DEF Answers, MeAnswered, MeRejected, RefreshAnswered, RefreshRejected, SignedIn, SignInRejected,
      PasswordChanged, Switched, Rejected, Ignored
<1>2. /\ storage = None
      /\ \A q \in flight : q.op \in Brings => ~q.valid /\ q.op # "signIn"
  BY <1>1 DEF OutInv
<1>3. ~RefreshAnswered(r) /\ ~SignedIn(r) /\ ~PasswordChanged(r) /\ ~Switched(r)
  BY <1>2 DEF RefreshAnswered, SignedIn, PasswordChanged, Switched, Brings
<1>4. storage' = None
  BY <1>2, <1>3 DEF Answers, MeAnswered, MeRejected, RefreshRejected, SignInRejected, Rejected, Ignored,
      Clear, Holds
<1>5. \A q \in flight' : q \in flight \/ q.op \notin Brings
  <2>1. CASE RefreshRejected(r)
    <3>1. r \in Request
      BY AnsweredFacts
    <3>2. /\ [r EXCEPT !.op = "me", !.with = None, !.valid = FALSE].op = "me"
          /\ Sent(r.tab, "me", None).op = "me" /\ "me" \notin Brings
      BY <3>1 DEF Request, Sent, Brings
    <3> QED  BY <2>1, <3>2 DEF RefreshRejected
  <2>2. CASE flight' = flight \ {r}
    BY <2>2
  <2> QED
    BY <1>3, <2>1, <2>2 DEF Answers, MeAnswered, MeRejected, SignInRejected, Rejected, Ignored, Answered
<1> QED  BY <1>2, <1>4, <1>5

LEMMA OutStep ==
    ASSUME ConsoleAssumption, TypeInv, OutInv, [ConsoleNext]_consoleVars
    PROVE  OutInv'
<1>1. ASSUME NEW k \in Token, Age(k)
      PROVE  OutInv'
  BY <1>1 DEF Age, OutInv
<1>2. CASE UNCHANGED consoleVars
  BY <1>2 DEF consoleVars, OutInv
<1> QED  BY <1>1, <1>2, OutTab, OutAnswer DEF ConsoleNext

\* Whatever answers are still on their way to whichever tab, a browser that was
\* signed out holds no token until somebody signs in.
THEOREM SignOutHolds ==
    ASSUME ConsoleAssumption
    PROVE  ConsoleSpec => []SignedOutStays
<1>1. ConsoleInit => TypeInv /\ OutInv
  BY TypeInit DEF ConsoleInit, OutInv
<1>2. TypeInv /\ OutInv /\ [ConsoleNext]_consoleVars => TypeInv' /\ OutInv'
  BY TypeStep, OutStep
<1>3. OutInv => SignedOutStays
  BY DEF OutInv, SignedOutStays
<1> QED  BY <1>1, <1>2, <1>3, PTL DEF ConsoleSpec

-----------------------------------------------------------------------------
(* The profile a tab shows *)

\* A step that does not concern tab t: what it waits for is still in flight.
Untouched(t) ==
    /\ token'[t] = token[t] /\ user'[t] = user[t]
    /\ unloaded'[t] = unloaded[t] /\ overtaken'[t] = overtaken[t]
    /\ \A r \in flight : r.tab = t /\ r.op \in {"me", "refresh"} => r \in flight'

LEMMA UntouchedStays ==
    ASSUME TypeInv, Kept, NEW t \in Tab, ShownOK(t), Untouched(t)
    PROVE  ShownOK(t)'
<1>1. Settled(t)' => Settled(t)
  BY DEF Settled, Untouched
<1>2. token[t] # None => issued'[token[t]].profile = issued[token[t]].profile
  BY DEF TypeInv, ConsoleTypeOK, Kept
<1> QED  BY <1>1, <1>2 DEF ShownOK, Untouched

\* A tab whose session is cleared, or that is opened, shows no profile.
LEMMA ClearShows ==
    ASSUME TypeInv, Kept, NEW t \in Tab, NEW u \in Tab, ShownOK(u), Clear(t),
           \A r \in flight : r.tab # t => r \in flight'
    PROVE  ShownOK(u)'
<1>1. CASE u = t
  BY <1>1 DEF Clear, ShownOK, TypeInv, ConsoleTypeOK
<1>2. CASE u # t
  <2>1. Untouched(u)
    BY <1>2 DEF Clear, Holds, Untouched, TypeInv, ConsoleTypeOK
  <2> QED  BY <2>1, UntouchedStays
<1> QED  BY <1>1, <1>2

LEMMA OpensShows ==
    ASSUME TypeInv, Kept, NEW t \in Tab, NEW u \in Tab, NEW k, ShownOK(u), Opens(t, k)
    PROVE  ShownOK(u)'
<1>1. CASE u = t
  BY <1>1 DEF Opens, ShownOK, TypeInv, ConsoleTypeOK
<1>2. CASE u # t
  <2>1. Untouched(u)
    BY <1>2 DEF Opens, Untouched, TypeInv, ConsoleTypeOK
  <2> QED  BY <2>1, UntouchedStays
<1> QED  BY <1>1, <1>2

\* A tab that has something to load makes no promise of its profile.
LEMMA LoadingShows ==
    ASSUME NEW t \in Tab, ~Settled(t)', token'[t] = None => user'[t] = None \/ overtaken'[t]
    PROVE  ShownOK(t)'
  BY DEF ShownOK

LEMMA ShownTab ==
    ASSUME ConsoleAssumption, TypeInv, Kept, NEW t \in Tab, NEW u \in Tab, ShownOK(u),
           \/ LoadUser(t) \/ Reload(t)
           \/ \E a \in Account : SignIn(t, a)
           \/ LogOut(t) \/ Query(t) \/ ChangePassword(t) \/ SwitchOrganization(t)
    PROVE  ShownOK(u)'
<1>1. CASE LoadUser(t)
  <2>0. /\ flight \subseteq flight' /\ UNCHANGED <<issued, token, user, overtaken>>
        /\ unloaded' = [unloaded EXCEPT ![t] = FALSE]
    BY <1>1 DEF LoadUser
  <2>1. CASE u # t
    BY <2>0, <2>1, UntouchedStays DEF Untouched, TypeInv, ConsoleTypeOK
  <2>2. CASE u = t /\ token[t] = None
    BY <2>0, <2>2 DEF ShownOK
  <2>3. CASE u = t /\ token[t] # None
    <3>1. issued[token[t]].age \in {"good", "near", "dead"}
      BY <2>3, TokenFacts DEF TypeInv, ConsoleTypeOK, Session
    <3>2. PICK op \in {"me", "refresh"} : flight' = flight \cup {Sent(t, op, None)}
      BY <1>1, <2>3, <3>1 DEF LoadUser, FirstRequest
    <3>3. Sent(t, op, None).tab = t /\ Sent(t, op, None).op = op
      BY DEF Sent
    <3>4. ~Settled(u)'
      BY <2>3, <3>2, <3>3 DEF Settled
    <3> QED  BY <2>0, <2>3, <3>4 DEF ShownOK
  <2> QED  BY <2>1, <2>2, <2>3
<1>2. CASE Reload(t)
  BY <1>2, OpensShows DEF Reload
<1>3. CASE LogOut(t)
  <2>1. Clear(t) /\ flight \subseteq flight'
    BY <1>3 DEF LogOut
  <2> QED  BY <2>1, ClearShows
<1>4. CASE (\E a \in Account : SignIn(t, a)) \/ Query(t) \/ ChangePassword(t) \/ SwitchOrganization(t)
  <2>1. flight \subseteq flight' /\ UNCHANGED <<token, user, unloaded, overtaken>>
    BY <1>4 DEF SignIn, Query, ChangePassword, SwitchOrganization, Starts, tabVars
  <2> QED  BY <2>1, UntouchedStays DEF Untouched
<1> QED  BY <1>1, <1>2, <1>3, <1>4

LEMMA ShownAnswer ==
    ASSUME ConsoleAssumption, TypeInv, Kept, NEW r \in flight, NEW u \in Tab, ShownOK(u), Answers(r)
    PROVE  ShownOK(u)'
<1>0. r.tab \in Tab /\ r \in Request
  BY AnsweredFacts
<1>1. CASE MeAnswered(r)
  <2>0. /\ r.with \in Token /\ r.with # None /\ UNCHANGED <<issued, token, unloaded>>
        /\ user' = [user EXCEPT ![r.tab] = issued[r.with].profile]
        /\ flight' = flight \ {r}
        /\ overtaken' = [overtaken EXCEPT ![r.tab] = r.with # token[r.tab]]
    BY <1>1, AnsweredFacts, TokenFacts DEF MeAnswered, Shows, Answered, TypeInv
  <2>1. CASE u = r.tab
    <3>1. user'[u] = issued[r.with].profile /\ token'[u] = token[u]
      BY <2>0, <2>1 DEF TypeInv, ConsoleTypeOK
    <3>2. overtaken'[u] <=> r.with # token[u]
      BY <2>0, <2>1, Zenon DEF TypeInv, ConsoleTypeOK
    <3> QED  BY <2>0, <3>1, <3>2 DEF ShownOK
  <2>2. CASE u # r.tab
    <3>1. Untouched(u)
      BY <2>0, <2>2 DEF Untouched, TypeInv, ConsoleTypeOK
    <3> QED  BY <3>1, UntouchedStays
  <2> QED  BY <2>1, <2>2
<1>2. CASE Clear(r.tab)
  <2>1. \A q \in flight : q.tab # r.tab => q \in flight'
    BY DEF Answers, MeAnswered, MeRejected, RefreshAnswered, RefreshRejected, SignedIn, SignInRejected,
        PasswordChanged, Switched, Opens, Rejected, Ignored, Answered
  <2> QED  BY <1>0, <1>2, <2>1, ClearShows
<1>3. CASE RefreshRejected(r) /\ ~Clear(r.tab)
  <2>1. /\ flight' = (flight \ {r}) \cup {Sent(r.tab, "me", None)}
        /\ UNCHANGED <<token, user, unloaded, overtaken>>
    BY <1>3 DEF RefreshRejected
  <2>2. Sent(r.tab, "me", None).tab = r.tab /\ Sent(r.tab, "me", None).op = "me"
    BY DEF Sent
  <2>3. CASE u = r.tab
    <3>1. ~Settled(u)'
      BY <2>1, <2>2, <2>3 DEF Settled
    <3> QED  BY <2>1, <3>1 DEF ShownOK
  <2>4. CASE u # r.tab
    BY <2>1, <2>4, UntouchedStays DEF Untouched
  <2> QED  BY <2>3, <2>4
<1>4. CASE RefreshAnswered(r) \/ SignedIn(r) \/ PasswordChanged(r)
  <2>1. PICK p \in Profile : Take(r.tab, p)
    BY <1>4, AnsweredFacts DEF RefreshAnswered, SignedIn, PasswordChanged
  <2>2. /\ token' = [token EXCEPT ![r.tab] = Len(issued) + 1]
        /\ unloaded' = [unloaded EXCEPT ![r.tab] = TRUE]
        /\ Len(issued) + 1 # None
    BY <1>0, <2>1, TakeFacts, TokenFacts DEF TypeInv
  <2>3. CASE u = r.tab
    BY <2>2, <2>3 DEF ShownOK, Settled, TypeInv, ConsoleTypeOK
  <2>4. CASE u # r.tab
    <3>1. user'[u] = user[u] /\ overtaken'[u] = overtaken[u]
      BY <1>4, <2>4 DEF RefreshAnswered, SignedIn, PasswordChanged, Shows, TypeInv, ConsoleTypeOK
    <3>2. flight' = flight \ {r}
      BY <1>4 DEF RefreshAnswered, SignedIn, PasswordChanged, Answered
    <3>3. Untouched(u)
      BY <2>2, <2>4, <3>1, <3>2 DEF Untouched, TypeInv, ConsoleTypeOK
    <3> QED  BY <3>3, UntouchedStays
  <2> QED  BY <2>3, <2>4
<1>5. CASE Switched(r)
  BY <1>0, <1>5, OpensShows DEF Switched
<1>6. CASE SignInRejected(r) \/ Ignored(r)
  <2>1. flight' = flight \ {r} /\ r.op \notin {"me", "refresh"}
    BY <1>6 DEF SignInRejected, Ignored, Answered
  <2>2. UNCHANGED <<token, user, unloaded, overtaken>>
    BY <1>6 DEF SignInRejected, Ignored, tabVars
  <2> QED  BY <2>1, <2>2, UntouchedStays DEF Untouched
<1> QED
  BY <1>1, <1>2, <1>3, <1>4, <1>5, <1>6 DEF Answers, MeRejected, Rejected

LEMMA ShownStep ==
    ASSUME ConsoleAssumption, TypeInv, Kept, NEW u \in Tab, ShownOK(u), [ConsoleNext]_consoleVars
    PROVE  ShownOK(u)'
<1>1. ASSUME NEW k \in Token, Age(k)
      PROVE  ShownOK(u)'
  BY <1>1, UntouchedStays DEF Age, tabVars, Untouched
<1>2. CASE UNCHANGED consoleVars
  BY <1>2, UntouchedStays DEF consoleVars, tabVars, Untouched
<1> QED  BY <1>1, <1>2, ShownTab, ShownAnswer DEF ConsoleNext

\* However tokens are exchanged and answers cross, the profile a settled tab shows
\* is that of the token it holds.
THEOREM ProfilesSettle ==
    ASSUME ConsoleAssumption
    PROVE  ConsoleSpec => []ShownSettled
<1>1. ConsoleInit => SessionInv
  BY TypeInit DEF ConsoleInit, SessionInv, OutInv, ShownOK
<1>2. SessionInv /\ [ConsoleNext]_consoleVars => SessionInv'
  BY TypeStep, OutStep, ShownStep DEF SessionInv
<1>3. SessionInv => ShownSettled
  BY DEF SessionInv, ShownOK, ShownSettled
<1> QED  BY <1>1, <1>2, <1>3, PTL DEF ConsoleSpec

=============================================================================
