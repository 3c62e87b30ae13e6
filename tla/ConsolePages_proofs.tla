------------------------ MODULE ConsolePages_proofs -------------------------
(***************************************************************************)
(* Proofs about the pages of the web console, for any number of rows, of   *)
(* groups, of requests in flight and of things the user does.              *)
(***************************************************************************)
EXTENDS ConsolePages, FiniteSetTheorems, WellFoundedInduction, TLAPS

\* The user's change, if there is one, has not reached the rows.
Unwritten == change = None \/ ~change.written

\* The search that is sent is the one that was typed, or will be.
Typed == controls.typing \/ controls.sent = controls.search

\* A page that fetches by hand, whose requests have not overlapped, has one
\* request in flight, for what its controls say, or none and the answer to it.
ByHandInv == ByHand /\ ~muddled =>
    /\ loads = <<>> => \/ Asked \in failed
                       \/ shown # None /\ shown.key = Asked /\ (Unwritten => ~shown.old)
    /\ loads # <<>> => /\ Len(loads) = 1 /\ loads[1].key = Asked
                       /\ Unwritten => ~loads[1].old

\* On a page that queries each key has one request in flight at most, and the key
\* on show has one, or failed, or has its entry.  What was read before a change
\* the user has made will be replaced, or was missed.
OneEach == \A i, j \in DOMAIN loads : loads[i].key = loads[j].key => i = j
OwnEntry == \A k \in Key : cache[k] # None => cache[k].key = k
Covered == InFlight(Asked) \/ Asked \in failed \/ cache[Asked] # None
Replaced ==
    /\ \A i \in DOMAIN loads : loads[i].old => loads[i].key \in missed
    /\ \A k \in Key : cache[k] # None /\ cache[k].old => cache[k].stale \/ k \in missed
    /\ cache[Asked] # None /\ cache[Asked].old =>
         Asked \in missed \cup failed \/ InFlight(Asked)
QueryInv == ~ByHand => OneEach /\ OwnEntry /\ Covered /\ (Unwritten => Replaced)

ListInv == ListTypeOK /\ Typed /\ ByHandInv /\ QueryInv /\ TicksFit

-----------------------------------------------------------------------------
(* Pages, keys and sequences *)

\* What the pages have in common.
LEMMA PageFacts ==
    ASSUME ConsoleListAssumption, view \in Page
    PROVE  /\ Controls.search \in {"at once", "late", "none"}
           /\ Controls.default \in Filter /\ Controls.links \subseteq Filter
           /\ Changes \subseteq RowState
<1> USE DEF Filter, RowState, PlainControls
<1>1. CASE view = "devices"
  BY <1>1 DEF Controls, Changes, DevicesControls, DevicesChanges
<1>2. CASE view = "alerts"
  BY <1>2 DEF Controls, Changes, AlertsControls, AlertsChanges
<1>3. CASE view = "patches"
  BY <1>3 DEF Controls, Changes, PatchesControls, PatchesChanges
<1>4. CASE view = "users"
  BY <1>4 DEF Controls, Changes, UsersControls, UsersChanges
<1>5. CASE view = "policies"
  BY <1>5 DEF Controls, Changes, PoliciesControls, PoliciesChanges
<1>6. CASE view = "tokens"
  BY <1>6 DEF Controls, Changes, TokensControls, TokensChanges
<1>7. CASE view = "groups"
  BY <1>7 DEF Controls, Changes, GroupsControls, GroupsChanges
<1>8. CASE view = "software"
  BY <1>8 DEF Controls, Changes, SoftwareControls
<1>9. CASE view = "audit"
  BY <1>9 DEF Controls, Changes, AuditControls
<1>10. CASE view = "activity"
  BY <1>10 DEF Controls, Changes, ActivityControls
<1> QED
  BY <1>1, <1>2, <1>3, <1>4, <1>5, <1>6, <1>7, <1>8, <1>9, <1>10 DEF ConsoleListAssumption

\* A step leaves the page open.
LEMMA SamePage ==
    ASSUME view' = view
    PROVE  /\ Controls' = Controls /\ Table' = Table /\ (ByHand' <=> ByHand) /\ Changes' = Changes
  BY DEF Controls, Table, ByHand, Changes

\* What a page asks for is a key, and its next page is another one.
LEMMA KeyFacts ==
    ASSUME NEW c \in Control
    PROVE  /\ KeyOf(c) \in Key
           /\ KeyOf(c).filter = c.filter /\ KeyOf(c).search = c.sent /\ KeyOf(c).page = c.page
  BY DEF KeyOf, Key, Control

LEMMA RowFacts ==
    ASSUME ConsoleListAssumption
    PROVE  RowCount \in Nat \ {0}
  BY FS_CardinalityType, FS_EmptySet DEF ConsoleListAssumption, RowCount

LEMMA NewFacts ==
    ASSUME NEW k \in Key
    PROVE  /\ New(k) \in Load /\ New(k).key = k /\ New(k).rows = None /\ New(k).old = FALSE
<1>1. New(k) = [key |-> k, total |-> None, rows |-> None, old |-> FALSE]
  BY DEF New
<1>2. ASSUME NEW old \in BOOLEAN
      PROVE  [key |-> k, total |-> None, rows |-> None, old |-> old] \in Load
  BY DEF Load
<1>3. New(k) \in Load
  BY <1>1, <1>2
<1>4. New(k).key = k /\ New(k).rows = None
  BY <1>1
<1>5. New(k).old = FALSE
  BY <1>1
<1> QED  BY <1>3, <1>4, <1>5

\* One more request.
LEMMA MoreFacts ==
    ASSUME loads \in Seq(Load), NEW l \in Load
    PROVE  /\ Append(loads, l) \in Seq(Load) /\ Append(loads, l) # <<>>
           /\ Len(loads) \in Nat /\ DOMAIN loads = 1 .. Len(loads)
           /\ Len(Append(loads, l)) = Len(loads) + 1
           /\ DOMAIN Append(loads, l) = 1 .. Len(loads) + 1
           /\ Append(loads, l)[Len(loads) + 1] = l
           /\ \A i \in DOMAIN loads : Append(loads, l)[i] = loads[i]
  OBVIOUS

\* One request less.
LEMMA LessFacts ==
    ASSUME loads \in Seq(Load), NEW i \in DOMAIN loads
    PROVE  /\ Without(i) \in Seq(Load)
           /\ Len(loads) \in Nat /\ DOMAIN loads = 1 .. Len(loads)
           /\ Len(Without(i)) = Len(loads) - 1
           /\ DOMAIN Without(i) = 1 .. Len(loads) - 1
           /\ \A j \in DOMAIN Without(i) :
                 Without(i)[j] = IF j < i THEN loads[j] ELSE loads[j + 1]
<1>1. Len(loads) \in Nat /\ DOMAIN loads = 1 .. Len(loads) /\ \A j \in 1 .. Len(loads) : loads[j] \in Load
  OBVIOUS
<1>2. Len(loads) - 1 \in Nat
  BY <1>1
<1>3. Without(i) \in [1 .. Len(loads) - 1 -> Load]
  BY <1>1, <1>2 DEF Without
<1>4. Without(i) \in Seq(Load) /\ Len(Without(i)) = Len(loads) - 1
  BY <1>2, <1>3
<1> QED  BY <1>1, <1>3, <1>4 DEF Without

\* What it leaves are the others.
LEMMA LeftFacts ==
    ASSUME loads \in Seq(Load), NEW i \in DOMAIN loads
    PROVE  /\ \A j \in DOMAIN Without(i) :
                 \E m \in DOMAIN loads \ {i} : Without(i)[j] = loads[m]
           /\ \A m \in DOMAIN loads \ {i} :
                 \E j \in DOMAIN Without(i) : Without(i)[j] = loads[m]
           /\ OneEach => /\ \A j, n \in DOMAIN Without(i) :
                               Without(i)[j].key = Without(i)[n].key => j = n
                         /\ \A j \in DOMAIN Without(i) : Without(i)[j].key # loads[i].key
<1> DEFINE W == Without(i)
<1>0. /\ Len(loads) \in Nat /\ DOMAIN loads = 1 .. Len(loads) /\ DOMAIN W = 1 .. Len(loads) - 1
      /\ \A j \in DOMAIN W : W[j] = IF j < i THEN loads[j] ELSE loads[j + 1]
  BY LessFacts
<1> HIDE DEF W
<1>1. ASSUME NEW j \in DOMAIN W
      PROVE  \E m \in DOMAIN loads \ {i} : W[j] = loads[m] /\ m = IF j < i THEN j ELSE j + 1
  BY <1>0
<1>2. ASSUME NEW m \in DOMAIN loads \ {i} PROVE \E j \in DOMAIN W : W[j] = loads[m]
  <2>1. CASE m < i
    BY <1>0, <2>1
  <2>2. CASE ~(m < i)
    <3>1. m - 1 \in DOMAIN W /\ ~(m - 1 < i) /\ (m - 1) + 1 = m
      BY <1>0, <2>2
    <3> QED  BY <1>0, <3>1
  <2> QED  BY <2>1, <2>2
<1>3. ASSUME OneEach, NEW j \in DOMAIN W, NEW n \in DOMAIN W, W[j].key = W[n].key PROVE j = n
  BY <1>0, <1>3 DEF OneEach
<1>4. ASSUME OneEach, NEW j \in DOMAIN W PROVE W[j].key # loads[i].key
  BY <1>1, <1>4 DEF OneEach
<1> QED  BY <1>1, <1>2, <1>3, <1>4 DEF W

\* The requests but that for a key, on a page that has one for it at most.
LEMMA OthersFacts ==
    ASSUME loads \in Seq(Load), NEW k \in Key
    PROVE  /\ Others(k) \in Seq(Load)
           /\ \A j \in DOMAIN Others(k) : \E m \in DOMAIN loads : Others(k)[j] = loads[m]
           /\ OneEach => /\ \A j \in DOMAIN Others(k) : Others(k)[j].key # k
                         /\ \A j, n \in DOMAIN Others(k) :
                               Others(k)[j].key = Others(k)[n].key => j = n
<1>1. CASE InFlight(k)
  <2> DEFINE i == CHOOSE i \in DOMAIN loads : loads[i].key = k
  <2>1. i \in DOMAIN loads /\ loads[i].key = k
    BY <1>1 DEF InFlight
  <2>2. Others(k) = Without(i)
    BY <1>1 DEF Others
  <2> HIDE DEF i
  <2>3. /\ Without(i) \in Seq(Load)
        /\ \A j \in DOMAIN Without(i) : \E m \in DOMAIN loads \ {i} : Without(i)[j] = loads[m]
    BY <2>1, LessFacts, LeftFacts
  <2>4. OneEach => /\ \A j, n \in DOMAIN Without(i) :
                        Without(i)[j].key = Without(i)[n].key => j = n
                  /\ \A j \in DOMAIN Without(i) : Without(i)[j].key # loads[i].key
    BY <2>1, LeftFacts
  <2> QED  BY <2>1, <2>2, <2>3, <2>4
<1>2. CASE ~InFlight(k)
  BY <1>2 DEF Others, InFlight, OneEach
<1> QED  BY <1>1, <1>2

-----------------------------------------------------------------------------
(* Types *)

PageTypes ==
    /\ view \in Page /\ rows \in [Row -> RowState]
    /\ controls \in Control /\ controls.link \in Controls.links \cup {None}
    /\ due \in BOOLEAN
    /\ ticks \in [Row -> Filter \cup {None}]
    /\ change \in Change \cup {None}
    /\ moved \in BOOLEAN
FetchTypes ==
    /\ cache \in [Key -> Entry \cup {None}] /\ shown \in Entry \cup {None}
    /\ failed \subseteq Key
    /\ loads \in Seq(Load)
    /\ \A i \in DOMAIN loads : loads[i].rows # None => loads[i].total # None
    /\ muddled \in BOOLEAN

LEMMA TypeParts == ListTypeOK <=> PageTypes /\ FetchTypes
  BY DEF ListTypeOK, PageTypes, FetchTypes

LEMMA AskedFacts ==
    ASSUME PageTypes
    PROVE  Asked \in Key /\ controls.filter \in Filter /\ controls.page \in 1 .. RowCount
  BY KeyFacts DEF PageTypes, Asked, Control

\* An entry is not None, nor is a change, nor are the rows that were read.
LEMMA NotNone ==
    ASSUME NoneAssumption
    PROVE  /\ \A e \in Entry : e # None
           /\ \A e \in Change : e # None
           /\ \A S \in SUBSET Row : S # None
           /\ None \notin Filter /\ None \notin Nat
  BY DEF NoneAssumption

\* The last page of a list with rows is one there can be.
LEMMA LastPageFacts ==
    ASSUME ConsoleListAssumption, NEW n \in 0 .. RowCount, n > 0,
           NEW p \in 1 .. RowCount, p > LastPage(n)
    PROVE  LastPage(n) \in 1 .. RowCount
<1>0. RowCount \in Nat
  BY RowFacts
<1>1. PageSize \in Nat /\ PageSize > 0 /\ n \in Nat /\ n > 0
  BY <1>0 DEF ConsoleListAssumption
<1> DEFINE m == n + PageSize - 1
<1>2. m \in Nat /\ m >= PageSize
  BY <1>1
<1> HIDE DEF m
<1>3. m \div PageSize \in Int /\ m \div PageSize >= 1
  BY <1>1, <1>2
<1>4. LastPage(n) = m \div PageSize
  BY <1>1 DEF LastPage, m
<1> QED  BY <1>0, <1>3, <1>4

\* The page goes to other controls and asks for what they say.
Turns(c) ==
    /\ c \in Control /\ controls' = c
    /\ c.link = controls.link
    /\ c.typing \/ c.sent = c.search
    /\ Ask(c)
    /\ due' \in BOOLEAN /\ moved' \in BOOLEAN
    /\ ticks' \in [Row -> Filter \cup {None}]
    /\ UNCHANGED <<view, rows, change>>

LEMMA EffectTurns ==
    ASSUME ConsoleListAssumption, NoneAssumption, PageTypes, FetchTypes, Typed, Effects
    PROVE  \E c : Turns(c)
<1>0. /\ controls \in Control /\ Controls.links \subseteq Filter
      /\ controls.page \in 1 .. RowCount /\ RowCount \in Nat \ {0} /\ 1 \in 1 .. RowCount
  <2>1. controls \in Control /\ controls.page \in 1 .. RowCount
    BY AskedFacts DEF PageTypes
  <2>2. Controls.links \subseteq Filter
    BY PageFacts DEF PageTypes
  <2>3. RowCount \in Nat \ {0} /\ 1 \in 1 .. RowCount
    BY RowFacts
  <2> QED  BY <2>1, <2>2, <2>3
<1>1. CASE FollowLink
  <2> DEFINE c == [controls EXCEPT !.filter = controls.link, !.page = 1]
  <2>1. controls.link \in Filter
    BY <1>0, <1>1 DEF FollowLink, LinkDue, PageTypes
  <2>2. c \in Control /\ c.link = controls.link /\ c.typing = controls.typing
        /\ c.sent = controls.sent /\ c.search = controls.search
    BY <1>0, <2>1 DEF Control
  <2>3. Ask(c) /\ controls' = c /\ UNCHANGED <<view, rows, due, ticks, change>>
        /\ moved' = (moved \/ ticks # [r \in Row |-> None])
    BY <1>1 DEF FollowLink
  <2>4. moved' \in BOOLEAN
    BY <2>3
  <2>5. c.typing \/ c.sent = c.search
    BY <2>2 DEF Typed
  <2>6. Turns(c)
    BY <2>2, <2>3, <2>4, <2>5 DEF Turns, PageTypes
  <2> QED  BY <2>6
<1>2. CASE ResetPage
  <2> DEFINE c == [controls EXCEPT !.page = 1]
  <2>1. c \in Control /\ c.link = controls.link /\ c.typing = controls.typing
        /\ c.sent = controls.sent /\ c.search = controls.search
    BY <1>0 DEF Control
  <2>2. c.typing \/ c.sent = c.search
    BY <2>1 DEF Typed
  <2>3. Turns(c)
    BY <1>2, <2>1, <2>2 DEF Turns, PageTypes, ResetPage
  <2> QED  BY <2>3
<1>3. CASE ClampPage
  <2> DEFINE c == [controls EXCEPT !.page = LastPage(OnShow.total)]
  <2>1. OnShow \in Entry \cup {None}
    BY AskedFacts DEF OnShow, FetchTypes
  <2>2. OnShow.total \in 0 .. RowCount /\ OnShow.total > 0 /\ controls.page > LastPage(OnShow.total)
    BY <1>3, <2>1 DEF ClampPage, ClampDue, Entry
  <2>3. LastPage(OnShow.total) \in 1 .. RowCount
    BY <1>0, <2>2, LastPageFacts
  <2>4. c \in Control /\ c.link = controls.link /\ c.typing = controls.typing
        /\ c.sent = controls.sent /\ c.search = controls.search
    BY <1>0, <2>3 DEF Control
  <2>5. c.typing \/ c.sent = c.search
    BY <2>4 DEF Typed
  <2>6. Turns(c)
    BY <1>3, <2>4, <2>5 DEF Turns, PageTypes, ClampPage
  <2> QED  BY <2>6
<1> QED  BY <1>1, <1>2, <1>3 DEF Effects

LEMMA ChoiceTurns ==
    ASSUME ConsoleListAssumption, NoneAssumption, PageTypes, FetchTypes, Typed,
           \/ \E f \in Filter : Choose(f)
           \/ \E s \in Term : Type(s)
           \/ \E p \in 1 .. RowCount : TurnPage(p)
           \/ Debounce
    PROVE  \E c : Turns(c)
<1>1. /\ controls \in Control /\ controls.page \in 1 .. RowCount /\ 1 \in 1 .. RowCount
      /\ controls.filter \in Filter /\ controls.search \in Term /\ controls.sent \in Term
      /\ controls.typing \in BOOLEAN /\ controls.link \in Filter \cup {None}
  BY AskedFacts, RowFacts DEF PageTypes, Control
<1>2. Controls.search \in {"at once", "late", "none"}
  BY PageFacts DEF PageTypes
<1>3. ASSUME NEW f \in Filter, Choose(f) PROVE \E c : Turns(c)
  <2> DEFINE page == IF Controls.page = "with choice" THEN 1 ELSE controls.page
             c == [controls EXCEPT !.filter = f, !.page = page]
  <2>1. page \in 1 .. RowCount
    BY <1>1
  <2>2. c \in Control /\ c.link = controls.link /\ c.typing = controls.typing
        /\ c.sent = controls.sent /\ c.search = controls.search
    BY <1>1, <2>1 DEF Control
  <2>3. c.typing \/ c.sent = c.search
    BY <2>2 DEF Typed
  <2>4. Ask(c) /\ controls' = c /\ UNCHANGED <<view, rows, change>>
    BY <1>3 DEF Choose
  <2>5. /\ due' \in BOOLEAN
        /\ moved' \in BOOLEAN
        /\ ticks' \in [Row -> Filter \cup {None}]
    <3>0. due' = (Controls.page \in {"after", "with search"})
      BY <1>3 DEF Choose
    <3>1. moved' = FALSE
      BY <1>3 DEF Choose
    <3>2. ticks' = [r \in Row |-> None]
      BY <1>3 DEF Choose
    <3>3. due' \in BOOLEAN
      <4> DEFINE back == Controls.page \in {"after", "with search"}
      <4>1. back \in BOOLEAN
        OBVIOUS
      <4>2. due' = back
        BY <3>0
      <4> HIDE DEF back
      <4> QED  BY <4>1, <4>2
    <3>4. moved' \in BOOLEAN
      BY <3>1
    <3> QED  BY <3>2, <3>3, <3>4
  <2>6. Turns(c)
    BY <2>2, <2>3, <2>4, <2>5 DEF Turns
  <2> QED  BY <2>6
<1>4. ASSUME NEW s \in Term, Type(s) PROVE \E c : Turns(c)
  <2> DEFINE page == IF Controls.page = "with choice" THEN 1 ELSE controls.page
             sent == IF Controls.search = "at once" THEN s ELSE controls.sent
             typing == (Controls.search = "late")
             c == [controls EXCEPT !.search = s, !.sent = sent, !.typing = typing, !.page = page]
  <2>1. page \in 1 .. RowCount /\ sent \in Term /\ typing \in BOOLEAN
    BY <1>1
  <2> HIDE DEF page, sent, typing
  <2>2. c \in Control /\ c.link = controls.link /\ c.sent = sent /\ c.search = s
        /\ (c.typing <=> typing)
    BY <1>1, <2>1 DEF Control
  <2>3. typing \/ sent = s
    BY <1>2, <1>4 DEF typing, sent, Type
  <2>4. Ask(c) /\ controls' = c /\ UNCHANGED <<view, rows, due, ticks, moved, change>>
    BY <1>4 DEF Type, page, sent, typing
  <2>5. Turns(c)
    BY <2>2, <2>3, <2>4 DEF Turns, PageTypes
  <2> QED  BY <2>5
<1>5. ASSUME NEW p \in 1 .. RowCount, TurnPage(p) PROVE \E c : Turns(c)
  <2> DEFINE c == [controls EXCEPT !.page = p]
  <2>1. c \in Control /\ c.link = controls.link /\ c.typing = controls.typing
        /\ c.sent = controls.sent /\ c.search = controls.search
    BY <1>1 DEF Control
  <2>2. c.typing \/ c.sent = c.search
    BY <2>1 DEF Typed
  <2>3. Turns(c)
    BY <1>5, <2>1, <2>2 DEF Turns, PageTypes, TurnPage
  <2> QED  BY <2>3
<1>6. ASSUME Debounce PROVE \E c : Turns(c)
  <2> DEFINE page == IF Controls.page = "with search" THEN 1 ELSE controls.page
             c == [controls EXCEPT !.sent = controls.search, !.typing = FALSE, !.page = page]
  <2>1. page \in 1 .. RowCount
    BY <1>1
  <2>2. c \in Control /\ c.link = controls.link /\ c.sent = c.search
    BY <1>1, <2>1 DEF Control
  <2>3. Ask(c) /\ controls' = c /\ UNCHANGED <<view, rows, ticks, moved, change>>
        /\ due' \in BOOLEAN
    BY <1>6 DEF Debounce
  <2>4. Turns(c)
    BY <2>2, <2>3 DEF Turns, PageTypes
  <2> QED  BY <2>4
<1> QED  BY <1>3, <1>4, <1>5, <1>6

\* What is on show, and what else belongs to the cache, has its type.
LEMMA ShowFacts ==
    ASSUME PageTypes, FetchTypes
    PROVE  OnShow \in Entry \cup {None} /\ RowsOnShow \subseteq Row
<1>1. OnShow \in Entry \cup {None}
  BY AskedFacts DEF OnShow, FetchTypes
<1> QED  BY <1>1 DEF RowsOnShow, Entry

\* One more request keeps the types of the requests.
LEMMA MoreTypes ==
    ASSUME FetchTypes, NEW k \in Key
    PROVE  /\ Append(loads, New(k)) \in Seq(Load)
           /\ \A i \in DOMAIN Append(loads, New(k)) :
                 Append(loads, New(k))[i].rows # None => Append(loads, New(k))[i].total # None
<1> DEFINE l == New(k)
           more == Append(loads, l)
<1>1. l \in Load /\ l.rows = None /\ loads \in Seq(Load)
  BY NewFacts DEF FetchTypes
<1> HIDE DEF l
<1>2. /\ more \in Seq(Load) /\ DOMAIN more = 1 .. Len(loads) + 1 /\ Len(loads) \in Nat
      /\ DOMAIN loads = 1 .. Len(loads) /\ more[Len(loads) + 1] = l
      /\ \A i \in DOMAIN loads : more[i] = loads[i]
  BY <1>1, MoreFacts
<1> HIDE DEF more
<1>3. ASSUME NEW i \in DOMAIN more, more[i].rows # None PROVE more[i].total # None
  <2>1. i \in DOMAIN loads
    BY <1>1, <1>2, <1>3
  <2> QED  BY <1>2, <1>3, <2>1 DEF FetchTypes
<1> QED  BY <1>2, <1>3 DEF more, l

LEMMA TurnsType ==
    ASSUME PageTypes, FetchTypes, NEW c, Turns(c)
    PROVE  (PageTypes /\ FetchTypes /\ Typed)'
<1>1. PageTypes'
  BY SamePage DEF PageTypes, Turns
<1>2. Typed'
  BY DEF Typed, Turns
<1>3. KeyOf(c) \in Key /\ Ask(c)
  BY KeyFacts DEF Turns
<1>4. OnShow \in Entry \cup {None}
  BY ShowFacts
<1>5. FetchTypes'
  <2>1. CASE KeyOf(c) = Asked /\ UNCHANGED fetchVars
    BY <2>1 DEF FetchTypes, fetchVars
  <2>2. CASE /\ loads' = Append(loads, New(KeyOf(c)))
             /\ muddled' = (loads # <<>> \/ change # None)
             /\ UNCHANGED <<cache, shown, failed, missed>>
    <3>1. muddled' \in BOOLEAN
      BY <2>2
    <3> QED  BY <1>3, <2>2, <3>1, MoreTypes DEF FetchTypes
  <2>3. CASE /\ loads' = loads \/ loads' = Append(loads, New(KeyOf(c)))
             /\ shown' = OnShow \/ shown' = shown
             /\ UNCHANGED <<cache, failed, missed, muddled>>
    BY <1>3, <1>4, <2>3, MoreTypes DEF FetchTypes
  <2> QED  BY <1>3, <2>1, <2>2, <2>3 DEF Ask
<1> QED  BY <1>1, <1>2, <1>5

\* What the user does besides choosing.
LEMMA ActsType ==
    ASSUME ConsoleListAssumption, NoneAssumption, PageTypes, FetchTypes, Typed,
           \/ \E l \in Filter \cup {None} : Visit(l)
           \/ Refresh
           \/ \E S \in SUBSET Row : Tick(S)
           \/ \E r \in Row, to \in RowState : Send(r, to)
           \/ SendTicked
    PROVE  (PageTypes /\ FetchTypes /\ Typed)'
<1>0. Asked \in Key /\ controls \in Control /\ view \in Page /\ controls.filter \in Filter
  BY AskedFacts DEF PageTypes
<1>1. ASSUME NEW l \in Filter \cup {None}, Visit(l) PROVE (PageTypes /\ FetchTypes /\ Typed)'
  <2>1. /\ controls' = [controls EXCEPT !.link = l] /\ l \in Controls.links \cup {None}
        /\ UNCHANGED <<view, rows, due, ticks, moved, fetchVars, change>>
    BY <1>1 DEF Visit
  <2>2. controls' \in Control /\ controls'.link = l
        /\ controls'.typing = controls.typing /\ controls'.sent = controls.sent
        /\ controls'.search = controls.search
    BY <1>0, <2>1 DEF Control
  <2>3. PageTypes'
    BY <2>1, <2>2, SamePage DEF PageTypes
  <2>4. FetchTypes'
    BY <2>1 DEF FetchTypes, fetchVars
  <2>5. Typed'
    BY <2>2 DEF Typed
  <2> QED  BY <2>3, <2>4, <2>5
<1>2. ASSUME Refresh PROVE (PageTypes /\ FetchTypes /\ Typed)'
  <2>1. /\ loads' = Append(loads, New(Asked))
        /\ muddled' = (ByHand /\ (loads # <<>> \/ change # None))
        /\ UNCHANGED <<view, rows, pageVars, cache, shown, failed, change>>
    BY <1>2 DEF Refresh
  <2>2. muddled' \in BOOLEAN
    BY <2>1
  <2>3. FetchTypes'
    BY <1>0, <2>1, <2>2, MoreTypes DEF FetchTypes
  <2>4. PageTypes' /\ Typed'
    BY <2>1, SamePage DEF PageTypes, Typed, pageVars
  <2> QED  BY <2>3, <2>4
<1>3. ASSUME NEW S \in SUBSET Row, Tick(S) PROVE (PageTypes /\ FetchTypes /\ Typed)'
  <2>1. UNCHANGED <<view, rows, controls, due, moved, fetchVars, change>>
    BY <1>3 DEF Tick
  <2>2. ticks' \in [Row -> Filter \cup {None}]
    BY <1>0, <1>3 DEF Tick, PageTypes
  <2>3. PageTypes' /\ Typed'
    BY <2>1, <2>2, SamePage DEF PageTypes, Typed
  <2> QED  BY <2>1, <2>3 DEF FetchTypes, fetchVars
<1>4. ASSUME NEW f \in SUBSET Row, NEW to \in RowState,
             UNCHANGED <<view, rows, pageVars, fetchVars>>,
             change' = [rows |-> f, to |-> to, from |-> Asked, written |-> FALSE]
      PROVE  (PageTypes /\ FetchTypes /\ Typed)'
  <2>1. \A b \in BOOLEAN : [rows |-> f, to |-> to, from |-> Asked, written |-> b] \in Change
    BY <1>0 DEF Change
  <2>2. change' \in Change
    BY <1>4, <2>1
  <2>3. PageTypes' /\ Typed'
    BY <1>4, <2>2, SamePage DEF PageTypes, Typed, pageVars
  <2> QED  BY <1>4, <2>3 DEF FetchTypes, fetchVars
<1>5. ASSUME NEW r \in Row, NEW to \in RowState, Send(r, to)
      PROVE  (PageTypes /\ FetchTypes /\ Typed)'
  <2>1. {r} \in SUBSET Row
    OBVIOUS
  <2> QED  BY <1>4, <1>5, <2>1 DEF Send
<1>6. ASSUME SendTicked PROVE (PageTypes /\ FetchTypes /\ Typed)'
  <2> DEFINE f == {r \in Row : ticks[r] # None}
  <2>1. f \in SUBSET Row /\ "done" \in RowState
    BY DEF RowState
  <2>2. /\ UNCHANGED <<view, rows, pageVars, fetchVars>>
        /\ change' = [rows |-> f, to |-> "done", from |-> Asked, written |-> FALSE]
    BY <1>6 DEF SendTicked
  <2> HIDE DEF f
  <2> QED  BY <1>4, <2>1, <2>2
<1> QED  BY <1>1, <1>2, <1>3, <1>5, <1>6

LEMMA ReopenFacts ==
    ASSUME ConsoleListAssumption, NoneAssumption, PageTypes, NEW l \in Controls.links \cup {None}
    PROVE  /\ Opened(l) \in Control
           /\ Opened(l).link = l /\ Opened(l).sent = Opened(l).search
           /\ KeyOf(Opened(l)) \in Key
<1>1. /\ IF l = None THEN Controls.default \in Filter ELSE l \in Filter
      /\ l \in Filter \cup {None}
  BY PageFacts DEF PageTypes
<1>2. 1 \in 1 .. RowCount /\ "" \in Term
  BY RowFacts DEF Term
<1>3. \A b \in BOOLEAN, f \in Filter :
        [filter |-> f, search |-> "", sent |-> "", typing |-> b, page |-> 1, link |-> l] \in Control
  BY <1>1, <1>2 DEF Control
<1>4. Opened(l) \in Control /\ Opened(l).link = l /\ Opened(l).sent = Opened(l).search
  BY <1>1, <1>3 DEF Opened
<1> QED  BY <1>4, KeyFacts

LEMMA ReopenType ==
    ASSUME ConsoleListAssumption, NoneAssumption, PageTypes, FetchTypes, Typed,
           NEW l \in Filter \cup {None}, Reopen(l)
    PROVE  (PageTypes /\ FetchTypes /\ Typed)'
<1> DEFINE k == KeyOf(Opened(l))
<1>1. Opened(l) \in Control /\ Opened(l).link = l /\ Opened(l).sent = Opened(l).search /\ k \in Key
      /\ l \in Controls.links \cup {None}
  BY ReopenFacts DEF Reopen
<1>2. /\ controls' = Opened(l) /\ ticks' = [r \in Row |-> None] /\ moved' = FALSE
      /\ shown' = None /\ muddled' = FALSE
      /\ UNCHANGED <<view, rows, due, cache, failed, change>>
  BY DEF Reopen
<1>3. ticks' \in [Row -> Filter \cup {None}]
  BY <1>2
<1>4. moved' \in BOOLEAN
  BY <1>2
<1>5. PageTypes'
  BY <1>1, <1>2, <1>3, <1>4, SamePage DEF PageTypes
<1>6. Typed'
  BY <1>1, <1>2 DEF Typed
<1>7. loads' = <<New(k)>> \/ loads' = Append(loads, New(k)) \/ loads' = loads
  BY DEF Reopen
<1>8. <<New(k)>> \in Seq(Load) /\ \A i \in DOMAIN <<New(k)>> : <<New(k)>>[i].rows = None
  <2>1. New(k) \in Load /\ New(k).rows = None
    BY <1>1, NewFacts
  <2> DEFINE n == New(k)
  <2> HIDE DEF n
  <2>2. <<n>> \in Seq(Load) /\ DOMAIN <<n>> = {1} /\ <<n>>[1] = n
    BY <2>1 DEF n
  <2> QED  BY <2>1, <2>2 DEF n
<1>9. loads' \in Seq(Load) /\ \A i \in DOMAIN loads' : loads'[i].rows # None => loads'[i].total # None
  BY <1>1, <1>7, <1>8, MoreTypes DEF FetchTypes
<1>10. muddled' \in BOOLEAN
  BY <1>2
<1>11. FetchTypes'
  BY <1>2, <1>9, <1>10 DEF FetchTypes
<1> QED  BY <1>5, <1>6, <1>11

-----------------------------------------------------------------------------
(* What happens to the rows, the requests and the entries *)

LEMMA MarkFacts ==
    ASSUME NEW b \in BOOLEAN
    PROVE  /\ \A l \in Load : /\ [l EXCEPT !.old = b] \in Load
                              /\ [l EXCEPT !.old = b].key = l.key
                              /\ [l EXCEPT !.old = b].rows = l.rows
                              /\ [l EXCEPT !.old = b].total = l.total
                              /\ [l EXCEPT !.old = b].old = b
           /\ \A e \in Entry : /\ [e EXCEPT !.old = b] \in Entry
                               /\ [e EXCEPT !.old = b].key = e.key
                               /\ [e EXCEPT !.old = b].stale = e.stale
                               /\ [e EXCEPT !.old = b].old = b
           /\ \A e \in Entry : /\ [e EXCEPT !.stale = b] \in Entry
                               /\ [e EXCEPT !.stale = b].key = e.key
                               /\ [e EXCEPT !.stale = b].old = e.old
                               /\ [e EXCEPT !.stale = b].stale = b
           /\ \A e \in Change : /\ [e EXCEPT !.written = b] \in Change
                                /\ [e EXCEPT !.written = b].written = b
  BY DEF Load, Entry, Change

\* The rows change: every request and entry keeps its key and its rows, and is
\* old if the user changed them.
LEMMA RewriteFacts ==
    ASSUME NoneAssumption, FetchTypes, NEW next \in [Row -> RowState], NEW own \in BOOLEAN,
           Rewrite(next, own)
    PROVE  /\ rows' = next
           /\ loads' \in Seq(Load) /\ DOMAIN loads' = DOMAIN loads /\ Len(loads') = Len(loads)
           /\ \A i \in DOMAIN loads :
                /\ loads'[i].key = loads[i].key /\ loads'[i].rows = loads[i].rows
                /\ loads'[i].total = loads[i].total
                /\ ~own => loads'[i].old = loads[i].old
           /\ cache' \in [Key -> Entry \cup {None}]
           /\ \A k \in Key : /\ cache'[k] = None <=> cache[k] = None
                             /\ cache[k] # None => /\ cache'[k].key = cache[k].key
                                                   /\ cache'[k].stale = cache[k].stale
           /\ ~own => cache' = cache /\ shown' = shown
           /\ shown' \in Entry \cup {None}
           /\ shown' = None <=> shown = None
           /\ shown # None => shown'.key = shown.key
<1>1. rows' = next
  BY DEF Rewrite
<1>2. loads \in Seq(Load) /\ DOMAIN loads = 1 .. Len(loads) /\ Len(loads) \in Nat
      /\ \A i \in DOMAIN loads : loads[i] \in Load
  BY DEF FetchTypes
<1>3. ASSUME NEW i \in DOMAIN loads
      PROVE  \E b \in BOOLEAN : /\ loads'[i] = [loads[i] EXCEPT !.old = b]
                                /\ ~own => (b <=> loads[i].old)
  <2> DEFINE b == loads[i].old \/ (own /\ loads[i].rows # None)
  <2>1. loads'[i] = [loads[i] EXCEPT !.old = b]
    BY <1>3 DEF Rewrite
  <2>2. b \in BOOLEAN /\ (~own => (b <=> loads[i].old))
    OBVIOUS
  <2> HIDE DEF b
  <2> QED  BY <2>1, <2>2
<1>4. ASSUME NEW i \in DOMAIN loads
      PROVE  /\ loads'[i] \in Load
             /\ loads'[i].key = loads[i].key /\ loads'[i].rows = loads[i].rows
             /\ loads'[i].total = loads[i].total
             /\ ~own => loads'[i].old = loads[i].old
  <2>1. PICK b \in BOOLEAN : loads'[i] = [loads[i] EXCEPT !.old = b] /\ (~own => (b <=> loads[i].old))
    BY <1>3
  <2>2. loads[i] \in Load /\ loads[i].old \in BOOLEAN
    BY <1>2 DEF Load
  <2> QED  BY <2>1, <2>2, MarkFacts
<1>5. loads' = [i \in DOMAIN loads |-> loads'[i]]
  BY DEF Rewrite
<1>6. loads' \in Seq(Load) /\ DOMAIN loads' = DOMAIN loads /\ Len(loads') = Len(loads)
  BY <1>2, <1>4, <1>5
<1>7. ASSUME NEW k \in Key
      PROVE  /\ cache'[k] \in Entry \cup {None}
             /\ cache'[k] = None <=> cache[k] = None
             /\ cache[k] # None => cache'[k].key = cache[k].key /\ cache'[k].stale = cache[k].stale
  <2>1. cache[k] \in Entry \cup {None}
    BY DEF FetchTypes
  <2>2. cache'[k] = cache[k]
        \/ (cache[k] = None /\ cache'[k] = None)
        \/ (cache[k] # None /\ cache'[k] = [cache[k] EXCEPT !.old = TRUE])
    BY DEF Rewrite
  <2>3. CASE cache[k] \in Entry /\ cache[k] # None
    <3> DEFINE e == [cache[k] EXCEPT !.old = TRUE]
    <3>1. e \in Entry /\ e.key = cache[k].key /\ e.stale = cache[k].stale
      BY <2>3, MarkFacts
    <3>2. e # None
      BY <3>1, NotNone
    <3> HIDE DEF e
    <3>3. cache'[k] = cache[k] \/ cache'[k] = e
      BY <2>2, <2>3 DEF e
    <3> QED  BY <2>3, <3>1, <3>2, <3>3
  <2> QED  BY <2>1, <2>2, <2>3
<1>8. cache' = cache \/ cache' = [k \in Key |-> cache'[k]]
  BY DEF Rewrite
<1>9. cache' \in [Key -> Entry \cup {None}]
  BY <1>7, <1>8 DEF FetchTypes
<1>10. ~own => cache' = cache /\ shown' = shown
  BY DEF Rewrite
<1>11. /\ shown' \in Entry \cup {None}
       /\ shown' = None <=> shown = None
       /\ shown # None => shown'.key = shown.key
  <2>1. shown' = shown \/ (shown # None /\ shown' = [shown EXCEPT !.old = TRUE])
    BY DEF Rewrite
  <2>2. shown \in Entry \cup {None}
    BY DEF FetchTypes
  <2>3. CASE shown \in Entry /\ shown # None
    <3> DEFINE e == [shown EXCEPT !.old = TRUE]
    <3>1. e \in Entry /\ e.key = shown.key
      BY <2>3, MarkFacts
    <3>2. e # None
      BY <3>1, NotNone
    <3> HIDE DEF e
    <3>3. shown' = shown \/ shown' = e
      BY <2>1 DEF e
    <3> QED  BY <2>3, <3>1, <3>2, <3>3
  <2> QED  BY <2>1, <2>2, <2>3
<1> QED  BY <1>1, <1>4, <1>6, <1>7, <1>9, <1>10, <1>11

\* Every entry becomes stale and is what it was otherwise.
Staling == cache' = [k \in Key |-> IF cache[k] = None THEN None ELSE [cache[k] EXCEPT !.stale = TRUE]]
LEMMA StaleFacts ==
    ASSUME NoneAssumption, FetchTypes, Staling
    PROVE  /\ cache' \in [Key -> Entry \cup {None}]
           /\ \A k \in Key : /\ cache'[k] = None <=> cache[k] = None
                             /\ cache[k] # None => /\ cache'[k].key = cache[k].key
                                                   /\ cache'[k].stale
                                                   /\ cache'[k].old = cache[k].old
<1>1. ASSUME NEW k \in Key
      PROVE  /\ cache'[k] \in Entry \cup {None}
             /\ cache'[k] = None <=> cache[k] = None
             /\ cache[k] # None => cache'[k].key = cache[k].key /\ cache'[k].stale
                                   /\ cache'[k].old = cache[k].old
  <2>1. cache[k] \in Entry \cup {None}
    BY DEF FetchTypes
  <2>2. (cache[k] = None /\ cache'[k] = None)
        \/ (cache[k] # None /\ cache'[k] = [cache[k] EXCEPT !.stale = TRUE])
    BY DEF Staling
  <2>3. CASE cache[k] \in Entry /\ cache[k] # None
    <3> DEFINE e == [cache[k] EXCEPT !.stale = TRUE]
    <3>1. e \in Entry /\ e.key = cache[k].key /\ e.old = cache[k].old /\ e.stale
      BY <2>3, MarkFacts
    <3>2. e # None
      BY <3>1, NotNone
    <3> HIDE DEF e
    <3>3. cache'[k] = e
      BY <2>2, <2>3 DEF e
    <3> QED  BY <2>3, <3>1, <3>2, <3>3
  <2> QED  BY <2>1, <2>2, <2>3
<1>2. cache' = [k \in Key |-> cache'[k]]
  BY DEF Staling
<1> QED  BY <1>1, <1>2

\* A read gives a request its rows and its total.
LEMMA ReadFacts ==
    ASSUME ConsoleListAssumption, NoneAssumption, PageTypes, FetchTypes, NEW i \in DOMAIN loads, Read(i)
    PROVE  /\ loads' \in Seq(Load) /\ DOMAIN loads' = DOMAIN loads /\ Len(loads') = Len(loads)
           /\ \A j \in DOMAIN loads : loads'[j].key = loads[j].key /\ loads'[j].old = loads[j].old
           /\ \A j \in DOMAIN loads : loads'[j].rows # None => loads'[j].total # None
           /\ UNCHANGED <<view, rows, pageVars, cache, shown, failed, missed, muddled, change>>
<1>1. loads \in Seq(Load) /\ DOMAIN loads = 1 .. Len(loads) /\ Len(loads) \in Nat
      /\ \A j \in DOMAIN loads : loads[j] \in Load
  BY DEF FetchTypes
<1> DEFINE k == loads[i].key
           n == Cardinality(Matching(k))
           R == RowsOf(k)
<1>2. n \in 0 .. RowCount /\ R \in SUBSET Row
  <2>1. Matching(k) \subseteq Row
    BY DEF Matching
  <2>2. IsFiniteSet(Row) /\ Matching(k) \in SUBSET Row
    BY <2>1 DEF ConsoleListAssumption
  <2>3. IsFiniteSet(Matching(k)) /\ Cardinality(Matching(k)) <= Cardinality(Row)
    BY <2>2, FS_Subset
  <2>4. n \in Nat /\ n <= RowCount /\ RowCount \in Nat
    BY <2>2, <2>3, FS_CardinalityType DEF RowCount
  <2>5. R \in SUBSET Row
    BY <2>1 DEF RowsOf
  <2> QED  BY <2>4, <2>5
<1>3. n # None
  BY <1>2, NotNone, RowFacts
<1>4. loads' = [loads EXCEPT ![i].total = n, ![i].rows = R]
      /\ UNCHANGED <<view, rows, pageVars, cache, shown, failed, missed, muddled, change>>
  BY DEF Read
<1> HIDE DEF n, R, k
<1>5. loads' = [loads EXCEPT ![i] = [loads[i] EXCEPT !.total = n, !.rows = R]]
  BY <1>1, <1>4
<1> DEFINE l == [loads[i] EXCEPT !.total = n, !.rows = R]
<1>6. l \in Load /\ l.key = loads[i].key /\ l.old = loads[i].old /\ l.total = n
  BY <1>1, <1>2 DEF Load
<1> HIDE DEF l
<1>7. loads' = [loads EXCEPT ![i] = l]
  BY <1>5 DEF l
<1>8. loads' \in Seq(Load) /\ DOMAIN loads' = DOMAIN loads /\ Len(loads') = Len(loads)
      /\ loads'[i] = l /\ \A j \in DOMAIN loads \ {i} : loads'[j] = loads[j]
  BY <1>1, <1>6, <1>7
<1>9. \A j \in DOMAIN loads : loads'[j].key = loads[j].key /\ loads'[j].old = loads[j].old
  BY <1>6, <1>8
<1>10. \A j \in DOMAIN loads : loads'[j].rows # None => loads'[j].total # None
  BY <1>3, <1>6, <1>8 DEF FetchTypes
<1> QED  BY <1>4, <1>8, <1>9, <1>10

\* An answer that was read becomes an entry, fresh and as old as its rows.
LEMMA DataFacts ==
    ASSUME NoneAssumption, FetchTypes, NEW i \in DOMAIN loads, loads[i].rows # None
    PROVE  /\ Data(loads[i]) \in Entry /\ Data(loads[i]) # None
           /\ Data(loads[i]).key = loads[i].key
           /\ Data(loads[i]).old = loads[i].old
<1> DEFINE l == loads[i]
<1>1. l \in Load /\ l.rows # None /\ l.total # None
  BY DEF FetchTypes
<1> HIDE DEF l
<1>2. l.key \in Key /\ l.total \in 0 .. RowCount /\ l.rows \in SUBSET Row /\ l.old \in BOOLEAN
  BY <1>1 DEF Load
<1>3. \A b \in BOOLEAN : [key |-> l.key, total |-> l.total, rows |-> l.rows, stale |-> b,
                          old |-> l.old] \in Entry
  BY <1>2 DEF Entry
<1>4. Data(l) \in Entry
  BY <1>3 DEF Data
<1>5. Data(l).key = l.key /\ Data(l).old = l.old
  BY DEF Data
<1> QED  BY <1>4, <1>5, NotNone DEF l

\* The changes of the user, and what the page does when they are acknowledged.
LEMMA WriteFacts ==
    ASSUME NoneAssumption, PageTypes, FetchTypes, Write
    PROVE  /\ \E next \in [Row -> RowState] : Rewrite(next, TRUE)
           /\ change' \in Change /\ change' # None /\ change'.written
           /\ UNCHANGED <<view, pageVars, failed, missed, muddled>>
<1>1. change \in Change /\ rows \in [Row -> RowState]
  BY DEF Write, PageTypes
<1>2. change.to \in RowState
  BY <1>1 DEF Change
<1> DEFINE next == [r \in Row |-> IF r \in change.rows /\ (rows[r] # "gone" \/ change.to = "open")
                                  THEN change.to ELSE rows[r]]
<1>3. next \in [Row -> RowState]
  BY <1>1, <1>2
<1>4. Rewrite(next, TRUE) /\ change' = [change EXCEPT !.written = TRUE]
      /\ UNCHANGED <<view, pageVars, failed, missed, muddled>>
  BY DEF Write
<1>5. change' \in Change /\ change'.written
  BY <1>1, <1>4, MarkFacts
<1> HIDE DEF next
<1> QED  BY <1>3, <1>4, <1>5, NotNone

LEMMA InvalidateFacts ==
    ASSUME NoneAssumption, PageTypes, FetchTypes, Invalidate
    PROVE  /\ Staling /\ UNCHANGED <<shown, muddled>>
           /\ loads' \in Seq(Load)
           /\ \A i \in DOMAIN loads' : loads'[i].rows # None => loads'[i].total # None
           /\ \E i \in DOMAIN loads' : loads'[i].key = Asked
           /\ OneEach => \A i, j \in DOMAIN loads' : loads'[i].key = loads'[j].key => i = j
           /\ \A i \in DOMAIN loads' : loads'[i].old => loads'[i].key \in missed'
<1>1. /\ Staling /\ UNCHANGED <<shown, muddled>>
      /\ missed' = missed \cup {loads'[i].key : i \in {j \in DOMAIN loads' : loads'[j].old}}
  BY DEF Invalidate, Staling
<1>2. \A i \in DOMAIN loads' : loads'[i].old => loads'[i].key \in missed'
  BY <1>1
<1>3. Asked \in Key /\ loads \in Seq(Load)
  BY AskedFacts DEF FetchTypes
<1>4. CASE InFlight(Asked) /\ loads' = loads
  BY <1>1, <1>2, <1>3, <1>4 DEF InFlight, FetchTypes, OneEach
<1>5. CASE loads' = Append(Others(Asked), New(Asked))
  <2> DEFINE s == Others(Asked)
             l == New(Asked)
  <2>1. l \in Load /\ l.key = Asked /\ l.rows = None
    BY <1>3, NewFacts
  <2>2. /\ s \in Seq(Load)
        /\ \A j \in DOMAIN s : \E m \in DOMAIN loads : s[j] = loads[m]
        /\ OneEach => /\ \A j \in DOMAIN s : s[j].key # Asked
                      /\ \A j, n \in DOMAIN s : s[j].key = s[n].key => j = n
    BY <1>3, OthersFacts
  <2> HIDE DEF s, l
  <2>3. /\ loads' \in Seq(Load) /\ DOMAIN loads' = 1 .. Len(s) + 1 /\ DOMAIN s = 1 .. Len(s)
        /\ Len(s) \in Nat
        /\ loads'[Len(s) + 1] = l /\ \A i \in DOMAIN s : loads'[i] = s[i]
    BY <1>5, <2>1, <2>2 DEF s, l
  <2>4. \A i \in DOMAIN loads' : i \in DOMAIN s \/ i = Len(s) + 1
    BY <2>3
  <2>5. \A i \in DOMAIN s : s[i].rows # None => s[i].total # None
    BY <2>2 DEF FetchTypes
  <2>6. \A i \in DOMAIN loads' : loads'[i].rows # None => loads'[i].total # None
    BY <2>1, <2>3, <2>4, <2>5
  <2>7. Len(s) + 1 \in DOMAIN loads' /\ loads'[Len(s) + 1].key = Asked
    BY <2>1, <2>3
  <2>8. OneEach => \A i, j \in DOMAIN loads' : loads'[i].key = loads'[j].key => i = j
    BY <2>1, <2>2, <2>3, <2>4
  <2> QED  BY <1>1, <1>2, <2>3, <2>6, <2>7, <2>8
<1> QED  BY <1>4, <1>5 DEF Invalidate

LEMMA ChangeType ==
    ASSUME ConsoleListAssumption, NoneAssumption, PageTypes, FetchTypes, Typed,
           Write \/ Acknowledge \/ ChangeFails
    PROVE  (PageTypes /\ FetchTypes /\ Typed)'
<1>1. ASSUME Write PROVE (PageTypes /\ FetchTypes /\ Typed)'
  <2>1. /\ change' \in Change
        /\ UNCHANGED <<view, pageVars, failed, missed, muddled>>
    BY <1>1, WriteFacts
  <2>2. PICK next \in [Row -> RowState] : Rewrite(next, TRUE)
    BY <1>1, WriteFacts
  <2>3. /\ rows' = next
        /\ loads' \in Seq(Load) /\ DOMAIN loads' = DOMAIN loads
        /\ \A i \in DOMAIN loads : loads'[i].rows = loads[i].rows /\ loads'[i].total = loads[i].total
        /\ cache' \in [Key -> Entry \cup {None}] /\ shown' \in Entry \cup {None}
    BY <2>2, RewriteFacts
  <2>4. PageTypes' /\ Typed'
    BY <2>1, <2>3, SamePage DEF PageTypes, Typed, pageVars
  <2>5. FetchTypes'
    BY <2>1, <2>3 DEF FetchTypes
  <2> QED  BY <2>4, <2>5
<1>2. ASSUME Acknowledge PROVE (PageTypes /\ FetchTypes /\ Typed)'
  <2>1. /\ change' = None /\ UNCHANGED <<view, rows, controls, due, moved, failed>>
        /\ change \in Change /\ (FetchAgain \/ Invalidate)
    BY <1>2 DEF Acknowledge, PageTypes
  <2>2. ticks' \in [Row -> Filter \cup {None}]
    BY <1>2 DEF Acknowledge, PageTypes
  <2>3. PageTypes' /\ Typed'
    BY <2>1, <2>2, SamePage DEF PageTypes, Typed
  <2>4. CASE FetchAgain
    <3>1. change.from \in Key
      BY <2>1 DEF Change
    <3>2. /\ loads' = Append(loads, New(change.from))
          /\ muddled' = (loads # <<>> \/ change.from # Asked)
          /\ UNCHANGED <<cache, shown>>
      BY <2>4 DEF FetchAgain
    <3>3. muddled' \in BOOLEAN
      BY <3>2
    <3>4. FetchTypes'
      BY <2>1, <3>1, <3>2, <3>3, MoreTypes DEF FetchTypes
    <3> QED  BY <2>3, <3>4
  <2>5. CASE Invalidate
    <3>1. FetchTypes'
      BY <2>1, <2>5, InvalidateFacts, StaleFacts DEF FetchTypes
    <3> QED  BY <2>3, <3>1
  <2> QED  BY <2>1, <2>4, <2>5
<1>3. ASSUME ChangeFails PROVE (PageTypes /\ FetchTypes /\ Typed)'
  <2>1. /\ change' = None /\ UNCHANGED <<view, rows, pageVars, cache, shown, failed, loads>>
        /\ muddled' = (muddled \/ (ByHand /\ change.written))
    BY <1>3 DEF ChangeFails
  <2>2. muddled' \in BOOLEAN
    BY <2>1
  <2>3. PageTypes' /\ Typed'
    BY <2>1, SamePage DEF PageTypes, Typed, pageVars
  <2> QED  BY <2>1, <2>2, <2>3 DEF FetchTypes
<1> QED  BY <1>1, <1>2, <1>3

LEMMA ServerType ==
    ASSUME ConsoleListAssumption, NoneAssumption, PageTypes, FetchTypes, Typed,
           \/ \E i \in DOMAIN loads : Read(i) \/ Answer(i) \/ Fail(i)
           \/ Age
           \/ \E r \in Row, to \in RowState : OthersChange(r, to)
    PROVE  (PageTypes /\ FetchTypes /\ Typed)'
<1>1. ASSUME NEW i \in DOMAIN loads, Read(i) PROVE (PageTypes /\ FetchTypes /\ Typed)'
  <2>1. /\ loads' \in Seq(Load) /\ DOMAIN loads' = DOMAIN loads
        /\ \A j \in DOMAIN loads : loads'[j].rows # None => loads'[j].total # None
        /\ UNCHANGED <<view, rows, pageVars, cache, shown, failed, muddled, change>>
    BY <1>1, ReadFacts
  <2>2. PageTypes' /\ Typed'
    BY <2>1, SamePage DEF PageTypes, Typed, pageVars
  <2> QED  BY <2>1, <2>2 DEF FetchTypes
<1>2. ASSUME NEW i \in DOMAIN loads PROVE
        /\ Without(i) \in Seq(Load)
        /\ \A j \in DOMAIN Without(i) : Without(i)[j].rows # None => Without(i)[j].total # None
        /\ loads[i].key \in Key
  <2>1. loads \in Seq(Load) /\ loads[i] \in Load
    BY DEF FetchTypes
  <2>2. loads[i].key \in Key
    BY <2>1 DEF Load
  <2>3. Without(i) \in Seq(Load)
    BY <2>1, LessFacts
  <2>4. \A j \in DOMAIN Without(i) : \E m \in DOMAIN loads : Without(i)[j] = loads[m]
    BY <2>1, LeftFacts
  <2> QED  BY <2>2, <2>3, <2>4 DEF FetchTypes
<1>3. ASSUME NEW i \in DOMAIN loads, Answer(i) PROVE (PageTypes /\ FetchTypes /\ Typed)'
  <2>1. /\ loads' = Without(i) /\ loads[i].rows # None
        /\ failed' = failed \ {loads[i].key}
        /\ \/ shown' = Data(loads[i]) /\ cache' = cache
           \/ cache' = [cache EXCEPT ![loads[i].key] = Data(loads[i])] /\ shown' = shown
        /\ UNCHANGED <<view, rows, pageVars, muddled, change>>
    BY <1>3 DEF Answer, Answered
  <2>2. Data(loads[i]) \in Entry
    BY <2>1, DataFacts
  <2>3. PageTypes' /\ Typed'
    BY <2>1, SamePage DEF PageTypes, Typed, pageVars
  <2>4. /\ loads' \in Seq(Load) /\ failed' \subseteq Key /\ muddled' \in BOOLEAN
        /\ \A j \in DOMAIN loads' : loads'[j].rows # None => loads'[j].total # None
    BY <1>2, <2>1 DEF FetchTypes
  <2>5. cache' \in [Key -> Entry \cup {None}] /\ shown' \in Entry \cup {None}
    BY <2>1, <2>2 DEF FetchTypes
  <2> QED  BY <2>3, <2>4, <2>5 DEF FetchTypes
<1>4. ASSUME NEW i \in DOMAIN loads, Fail(i) PROVE (PageTypes /\ FetchTypes /\ Typed)'
  <2>1. /\ loads' = Without(i) /\ failed' = failed \cup {loads[i].key}
        /\ UNCHANGED <<view, rows, pageVars, cache, shown, muddled, change>>
    BY <1>4 DEF Fail, Answered
  <2>2. PageTypes' /\ Typed'
    BY <2>1, SamePage DEF PageTypes, Typed, pageVars
  <2> QED  BY <1>2, <2>1, <2>2 DEF FetchTypes
<1>5. ASSUME Age PROVE (PageTypes /\ FetchTypes /\ Typed)'
  <2>1. Staling /\ UNCHANGED <<view, rows, pageVars, shown, failed, loads, muddled, change>>
    BY <1>5 DEF Age, Staling
  <2>2. PageTypes' /\ Typed'
    BY <2>1, SamePage DEF PageTypes, Typed, pageVars
  <2> QED  BY <2>1, <2>2, StaleFacts DEF FetchTypes
<1>6. ASSUME NEW r \in Row, NEW to \in RowState, OthersChange(r, to)
      PROVE  (PageTypes /\ FetchTypes /\ Typed)'
  <2> DEFINE next == [rows EXCEPT ![r] = to]
  <2>1. next \in [Row -> RowState]
    BY DEF PageTypes
  <2>2. Rewrite(next, FALSE) /\ UNCHANGED <<view, pageVars, failed, muddled, change>>
    BY <1>6 DEF OthersChange
  <2> HIDE DEF next
  <2>3. /\ rows' = next
        /\ loads' \in Seq(Load) /\ DOMAIN loads' = DOMAIN loads
        /\ \A i \in DOMAIN loads : loads'[i].rows = loads[i].rows /\ loads'[i].total = loads[i].total
        /\ cache' \in [Key -> Entry \cup {None}] /\ shown' \in Entry \cup {None}
    BY <2>1, <2>2, RewriteFacts
  <2>4. PageTypes' /\ Typed'
    BY <2>1, <2>2, <2>3, SamePage DEF PageTypes, Typed, pageVars
  <2> QED  BY <2>2, <2>3, <2>4 DEF FetchTypes
<1> QED  BY <1>1, <1>3, <1>4, <1>5, <1>6

LEMMA TypeStep ==
    ASSUME ConsoleListAssumption, NoneAssumption, PageTypes, FetchTypes, Typed, [ListNext]_listVars
    PROVE  (PageTypes /\ FetchTypes /\ Typed)'
<1>1. CASE UNCHANGED listVars
  BY <1>1, SamePage DEF listVars, pageVars, fetchVars, PageTypes, FetchTypes, Typed
<1>2. ASSUME Effects \/ Debounce PROVE (PageTypes /\ FetchTypes /\ Typed)'
  <2>1. \E c : Turns(c)
    BY <1>2, EffectTurns, ChoiceTurns
  <2> QED  BY <2>1, TurnsType
<1>3. ASSUME UserActs PROVE (PageTypes /\ FetchTypes /\ Typed)'
  <2>1. CASE \/ \E f \in Filter : Choose(f)
             \/ \E s \in Term : Type(s)
             \/ \E p \in 1 .. RowCount : TurnPage(p)
    <3>1. \E c : Turns(c)
      BY <2>1, ChoiceTurns
    <3> QED  BY <3>1, TurnsType
  <2>2. CASE \E l \in Filter \cup {None} : Reopen(l)
    BY <2>2, ReopenType
  <2>3. CASE \/ \E l \in Filter \cup {None} : Visit(l)
             \/ Refresh
             \/ \E S \in SUBSET Row : Tick(S)
             \/ \E r \in Row, to \in RowState : Send(r, to)
             \/ SendTicked
    BY <2>3, ActsType
  <2> QED  BY <1>3, <2>1, <2>2, <2>3 DEF UserActs
<1>4. ASSUME Write \/ Acknowledge \/ ChangeFails PROVE (PageTypes /\ FetchTypes /\ Typed)'
  BY <1>4, ChangeType
<1>5. CASE \/ \E i \in DOMAIN loads : Read(i) \/ Answer(i) \/ Fail(i)
           \/ Age
           \/ \E r \in Row, to \in RowState : OthersChange(r, to)
  BY <1>5, ServerType
<1> QED  BY <1>1, <1>2, <1>3, <1>4, <1>5 DEF ListNext

-----------------------------------------------------------------------------
(* Pages that fetch by hand *)

\* A request for what the controls say is the only one.
LEMMA FirstLoad ==
    ASSUME NEW k \in Key, Asked' = k, loads' = <<New(k)>>
    PROVE  ByHandInv'
<1>1. New(k).key = k /\ New(k).old = FALSE
  BY NewFacts
<1>2. loads' # <<>> /\ Len(loads') = 1 /\ loads'[1] = New(k)
  OBVIOUS
<1> QED  BY <1>1, <1>2 DEF ByHandInv

LEMMA NextLoad ==
    ASSUME FetchTypes, NEW k \in Key, Asked' = k, loads' = Append(loads, New(k)),
           muddled' \/ loads = <<>>
    PROVE  ByHandInv'
<1>1. CASE muddled'
  BY <1>1 DEF ByHandInv
<1>2. CASE loads = <<>>
  <2>1. loads' = <<New(k)>>
    BY <1>2
  <2> QED  BY <2>1, FirstLoad
<1> QED  BY <1>1, <1>2

\* Nothing has happened that a page which fetches by hand depends on.
LEMMA HandSame ==
    ASSUME ByHandInv, UNCHANGED <<view, shown, failed, loads, muddled>>, Asked' = Asked,
           Unwritten' => Unwritten
    PROVE  ByHandInv'
  BY SamePage DEF ByHandInv

LEMMA HandTurns ==
    ASSUME PageTypes, FetchTypes, ByHandInv, NEW c, Turns(c)
    PROVE  ByHandInv'
<1>1. /\ KeyOf(c) \in Key /\ Ask(c) /\ Asked' = KeyOf(c) /\ change' = change /\ view' = view
      /\ Unwritten' <=> Unwritten
  BY KeyFacts DEF Turns, Asked, Unwritten
<1>2. CASE KeyOf(c) = Asked /\ UNCHANGED fetchVars
  BY <1>1, <1>2, HandSame DEF fetchVars
<1>3. CASE /\ loads' = Append(loads, New(KeyOf(c)))
           /\ muddled' = (loads # <<>> \/ change # None)
  BY <1>1, <1>3, NextLoad
<1>4. CASE ~ByHand
  BY <1>1, <1>4, SamePage DEF ByHandInv
<1> QED  BY <1>1, <1>2, <1>3, <1>4 DEF Ask

LEMMA HandActs ==
    ASSUME ConsoleListAssumption, NoneAssumption, PageTypes, FetchTypes, ByHandInv,
           \/ \E l \in Filter \cup {None} : Visit(l) \/ Reopen(l)
           \/ Refresh
           \/ \E S \in SUBSET Row : Tick(S)
           \/ \E r \in Row, to \in RowState : Send(r, to)
           \/ SendTicked
    PROVE  ByHandInv'
<1>0. Asked \in Key /\ controls \in Control
  BY AskedFacts DEF PageTypes
<1>1. ASSUME NEW l \in Filter \cup {None}, Visit(l) PROVE ByHandInv'
  <2>1. controls' = [controls EXCEPT !.link = l] /\ UNCHANGED <<view, fetchVars, change>>
    BY <1>1 DEF Visit
  <2>2. Asked' = Asked
    BY <1>0, <2>1 DEF Asked, KeyOf, Control
  <2>3. Unwritten' <=> Unwritten
    BY <2>1 DEF Unwritten
  <2> QED  BY <2>1, <2>2, <2>3, HandSame DEF fetchVars
<1>2. ASSUME NEW l \in Filter \cup {None}, Reopen(l) PROVE ByHandInv'
  <2>1. KeyOf(Opened(l)) \in Key /\ Asked' = KeyOf(Opened(l)) /\ view' = view
    BY <1>2, ReopenFacts DEF Reopen, Asked
  <2>2. CASE ByHand
    <3>1. loads' = <<New(KeyOf(Opened(l)))>>
      BY <1>2, <2>2 DEF Reopen
    <3> QED  BY <2>1, <3>1, FirstLoad
  <2>3. CASE ~ByHand
    BY <2>1, <2>3, SamePage DEF ByHandInv
  <2> QED  BY <2>2, <2>3
<1>3. ASSUME Refresh PROVE ByHandInv'
  <2>1. /\ loads' = Append(loads, New(Asked))
        /\ muddled' = (ByHand /\ (loads # <<>> \/ change # None))
        /\ Asked' = Asked /\ view' = view
    BY <1>3 DEF Refresh, Asked, pageVars
  <2>2. CASE ByHand
    BY <1>0, <2>1, <2>2, NextLoad
  <2>3. CASE ~ByHand
    BY <2>1, <2>3, SamePage DEF ByHandInv
  <2> QED  BY <2>2, <2>3
<1>4. ASSUME NEW S \in SUBSET Row, Tick(S) PROVE ByHandInv'
  <2>1. UNCHANGED <<view, controls, fetchVars, change>>
    BY <1>4 DEF Tick
  <2>2. Asked' = Asked /\ (Unwritten' <=> Unwritten)
    BY <2>1 DEF Asked, Unwritten
  <2> QED  BY <2>1, <2>2, HandSame DEF fetchVars
<1>5. ASSUME (\E r \in Row, to \in RowState : Send(r, to)) \/ SendTicked PROVE ByHandInv'
  <2>1. UNCHANGED <<view, controls, fetchVars>> /\ change = None
    BY <1>5 DEF Send, SendTicked, pageVars
  <2>2. Asked' = Asked /\ Unwritten
    BY <2>1 DEF Asked, Unwritten
  <2> QED  BY <2>1, <2>2, HandSame DEF fetchVars
<1> QED  BY <1>1, <1>2, <1>3, <1>4, <1>5

LEMMA HandChange ==
    ASSUME NoneAssumption, PageTypes, FetchTypes, ByHandInv,
           Write \/ Acknowledge \/ ChangeFails
    PROVE  ByHandInv'
<1>1. ASSUME Write PROVE ByHandInv'
  <2>1. /\ change' # None /\ change'.written
        /\ UNCHANGED <<view, pageVars, failed, missed, muddled>>
    BY <1>1, WriteFacts
  <2>2. PICK next \in [Row -> RowState] : Rewrite(next, TRUE)
    BY <1>1, WriteFacts
  <2>3. /\ loads' \in Seq(Load) /\ DOMAIN loads' = DOMAIN loads /\ Len(loads') = Len(loads)
        /\ \A i \in DOMAIN loads : loads'[i].key = loads[i].key
        /\ shown' = None <=> shown = None
        /\ shown # None => shown'.key = shown.key
    BY <2>2, RewriteFacts
  <2>4. ~Unwritten' /\ Asked' = Asked
    BY <2>1 DEF Unwritten, Asked, pageVars
  <2>5. (loads' = <<>>) <=> (loads = <<>>)
    BY <2>3 DEF FetchTypes
  <2>6. Len(loads) = 1 => loads'[1].key = loads[1].key
    BY <2>3 DEF FetchTypes
  <2> QED  BY <2>1, <2>3, <2>4, <2>5, <2>6, SamePage DEF ByHandInv
<1>2. ASSUME Acknowledge PROVE ByHandInv'
  <2>1. view' = view /\ Asked' = Asked /\ change \in Change
    BY <1>2 DEF Acknowledge, Asked, PageTypes
  <2>2. CASE ByHand
    <3>1. loads' = Append(loads, New(change.from)) /\ change.from \in Key
          /\ muddled' = (loads # <<>> \/ change.from # Asked)
      BY <1>2, <2>1, <2>2 DEF Acknowledge, FetchAgain, Change
    <3>2. CASE change.from = Asked
      BY <2>1, <3>1, <3>2, NextLoad
    <3>3. CASE change.from # Asked
      BY <3>1, <3>3 DEF ByHandInv
    <3> QED  BY <3>2, <3>3
  <2>3. CASE ~ByHand
    BY <2>1, <2>3, SamePage DEF ByHandInv
  <2> QED  BY <2>2, <2>3
<1>3. ASSUME ChangeFails PROVE ByHandInv'
  <2>1. /\ UNCHANGED <<view, controls, cache, shown, failed, loads>>
        /\ muddled' = (muddled \/ (ByHand /\ change.written))
    BY <1>3 DEF ChangeFails, pageVars
  <2>2. Asked' = Asked
    BY <2>1 DEF Asked
  <2>3. CASE change.written
    BY <2>1, <2>3, SamePage DEF ByHandInv
  <2>4. CASE ~change.written
    <3>1. Unwritten
      BY <2>4 DEF Unwritten
    <3> QED  BY <2>1, <2>2, <2>4, <3>1, SamePage DEF ByHandInv
  <2> QED  BY <2>3, <2>4
<1> QED  BY <1>1, <1>2, <1>3

LEMMA HandServer ==
    ASSUME ConsoleListAssumption, NoneAssumption, PageTypes, FetchTypes, ByHandInv,
           \/ \E i \in DOMAIN loads : Read(i) \/ Answer(i) \/ Fail(i)
           \/ Age
           \/ \E r \in Row, to \in RowState : OthersChange(r, to)
    PROVE  ByHandInv'
<1>0. loads \in Seq(Load) /\ Len(loads) \in Nat /\ DOMAIN loads = 1 .. Len(loads)
  BY DEF FetchTypes
<1>1. ASSUME NEW i \in DOMAIN loads, Read(i) PROVE ByHandInv'
  <2>1. /\ loads' \in Seq(Load) /\ DOMAIN loads' = DOMAIN loads /\ Len(loads') = Len(loads)
        /\ \A j \in DOMAIN loads : loads'[j].key = loads[j].key /\ loads'[j].old = loads[j].old
        /\ UNCHANGED <<view, controls, shown, failed, muddled, change>>
    BY <1>1, ReadFacts DEF pageVars
  <2>2. Asked' = Asked /\ (Unwritten' <=> Unwritten)
    BY <2>1 DEF Asked, Unwritten
  <2>3. loads # <<>> /\ loads' # <<>>
    BY <1>0, <2>1
  <2>4. Len(loads) = 1 => loads'[1].key = loads[1].key /\ loads'[1].old = loads[1].old
    BY <1>0, <2>1
  <2> QED  BY <2>1, <2>2, <2>3, <2>4, SamePage DEF ByHandInv
<1>2. ASSUME NEW i \in DOMAIN loads, ByHand, ~muddled
      PROVE  loads[i].key = Asked /\ (Unwritten => ~loads[i].old) /\ Without(i) = <<>>
  <2>1. loads # <<>>
    BY <1>0
  <2>2. Len(loads) = 1 /\ loads[1].key = Asked /\ (Unwritten => ~loads[1].old)
    BY <1>2, <2>1 DEF ByHandInv
  <2>3. i = 1
    BY <1>0, <2>2
  <2>4. Without(i) \in Seq(Load) /\ Len(Without(i)) = 0
    BY <1>0, <2>2, LessFacts
  <2> QED  BY <2>2, <2>3, <2>4
<1>3. ASSUME NEW i \in DOMAIN loads, Answer(i) PROVE ByHandInv'
  <2>1. loads' = Without(i) /\ loads[i].rows # None
        /\ UNCHANGED <<view, controls, muddled, change>>
        /\ (ByHand => shown' = Data(loads[i]))
    BY <1>3 DEF Answer, Answered, pageVars
  <2>2. Asked' = Asked /\ (Unwritten' <=> Unwritten)
    BY <2>1 DEF Asked, Unwritten
  <2>3. Data(loads[i]) # None /\ Data(loads[i]).key = loads[i].key
        /\ Data(loads[i]).old = loads[i].old
    BY <2>1, DataFacts
  <2> QED  BY <1>2, <2>1, <2>2, <2>3, SamePage DEF ByHandInv
<1>4. ASSUME NEW i \in DOMAIN loads, Fail(i) PROVE ByHandInv'
  <2>1. loads' = Without(i) /\ failed' = failed \cup {loads[i].key}
        /\ UNCHANGED <<view, controls, muddled>>
    BY <1>4 DEF Fail, Answered, pageVars
  <2>2. Asked' = Asked
    BY <2>1 DEF Asked
  <2> QED  BY <1>2, <2>1, <2>2, SamePage DEF ByHandInv
<1>5. ASSUME Age PROVE ByHandInv'
  <2>1. UNCHANGED <<view, controls, shown, failed, loads, muddled, change>>
    BY <1>5 DEF Age, pageVars
  <2>2. Asked' = Asked /\ (Unwritten' <=> Unwritten)
    BY <2>1 DEF Asked, Unwritten
  <2> QED  BY <2>1, <2>2, HandSame
<1>6. ASSUME NEW r \in Row, NEW to \in RowState, OthersChange(r, to) PROVE ByHandInv'
  <2> DEFINE next == [rows EXCEPT ![r] = to]
  <2>1. next \in [Row -> RowState]
    BY DEF PageTypes
  <2>2. Rewrite(next, FALSE) /\ UNCHANGED <<view, controls, failed, muddled, change>>
    BY <1>6 DEF OthersChange, pageVars
  <2> HIDE DEF next
  <2>3. /\ loads' \in Seq(Load) /\ DOMAIN loads' = DOMAIN loads /\ Len(loads') = Len(loads)
        /\ \A i \in DOMAIN loads : loads'[i].key = loads[i].key /\ loads'[i].old = loads[i].old
        /\ shown' = shown
    BY <2>1, <2>2, RewriteFacts
  <2>4. Asked' = Asked /\ (Unwritten' <=> Unwritten)
    BY <2>2 DEF Asked, Unwritten
  <2>5. (loads' = <<>>) <=> (loads = <<>>)
    BY <1>0, <2>3
  <2>6. Len(loads) = 1 => loads'[1].key = loads[1].key /\ loads'[1].old = loads[1].old
    BY <1>0, <2>3
  <2> QED  BY <2>2, <2>3, <2>4, <2>5, <2>6, SamePage DEF ByHandInv
<1> QED  BY <1>1, <1>3, <1>4, <1>5, <1>6

-----------------------------------------------------------------------------
(* Pages that query *)

\* Every request and every entry is what it was, but for what was read of it, or
\* is staler, or older while a change is written.
LEMMA QueryKept ==
    ASSUME PageTypes, FetchTypes, QueryInv,
           UNCHANGED <<view, failed, missed>>, Asked' = Asked,
           DOMAIN loads' = DOMAIN loads,
           \A i \in DOMAIN loads : loads'[i].key = loads[i].key,
           \A k \in Key : /\ cache'[k] = None <=> cache[k] = None
                          /\ cache[k] # None => cache'[k].key = cache[k].key,
           Unwritten' => /\ Unwritten
                         /\ \A i \in DOMAIN loads : loads'[i].old => loads[i].old
                         /\ \A k \in Key : cache[k] # None =>
                               /\ cache'[k].old => cache[k].old
                               /\ cache[k].stale => cache'[k].stale
    PROVE  QueryInv'
<1>1. Asked \in Key
  BY AskedFacts
<1>2. CASE ByHand
  BY <1>2, SamePage DEF QueryInv
<1>3. CASE ~ByHand
  <2>0. OneEach /\ OwnEntry /\ Covered /\ (Unwritten => Replaced)
    BY <1>3 DEF QueryInv
  <2>1. OneEach'
    BY <2>0 DEF OneEach
  <2>2. OwnEntry'
    BY <2>0 DEF OwnEntry
  <2>3. InFlight(Asked)' <=> InFlight(Asked)
    BY DEF InFlight
  <2>4. Covered'
    BY <1>1, <2>0, <2>3 DEF Covered
  <2>5. ASSUME Unwritten' PROVE Replaced'
    <3>1. Replaced
      BY <2>0, <2>5
    <3>2. (\A i \in DOMAIN loads : loads[i].old => loads[i].key \in missed)'
      BY <2>5, <3>1 DEF Replaced
    <3>3. (\A k \in Key : cache[k] # None /\ cache[k].old => cache[k].stale \/ k \in missed)'
      BY <2>5, <3>1 DEF Replaced
    <3>4. (cache[Asked] # None /\ cache[Asked].old =>
             Asked \in missed \cup failed \/ InFlight(Asked))'
      BY <1>1, <2>3, <2>5, <3>1 DEF Replaced
    <3> QED  BY <3>2, <3>3, <3>4 DEF Replaced
  <2> QED  BY <2>1, <2>2, <2>4, <2>5 DEF QueryInv
<1> QED  BY <1>2, <1>3

LEMMA QuerySame ==
    ASSUME PageTypes, FetchTypes, QueryInv, UNCHANGED <<view, cache, failed, loads, missed>>,
           Asked' = Asked, Unwritten' => Unwritten
    PROVE  QueryInv'
  BY QueryKept

LEMMA LoadKeys ==
    ASSUME FetchTypes
    PROVE  \A i \in DOMAIN loads : loads[i].key \in Key
<1>1. \A i \in DOMAIN loads : loads[i] \in Load
  BY DEF FetchTypes
<1> QED  BY <1>1 DEF Load

\* The page asks for a key, which has a request or a fresh entry, or gets one.
LEMMA QueryGoes ==
    ASSUME PageTypes, FetchTypes, QueryInv, UNCHANGED <<view, cache, failed, missed>>,
           NEW k \in Key, Asked' = k, Unwritten' => Unwritten,
           \/ loads' = loads /\ (InFlight(k) \/ (cache[k] # None /\ ~cache[k].stale))
           \/ loads' = Append(loads, New(k)) /\ ~InFlight(k)
    PROVE  QueryInv'
<1>1. CASE ByHand
  BY <1>1, SamePage DEF QueryInv
<1>2. ASSUME ~ByHand PROVE OneEach /\ OwnEntry /\ Covered /\ (Unwritten => Replaced) /\ OwnEntry'
  BY <1>2 DEF QueryInv, OwnEntry
<1>3. CASE ~ByHand /\ loads' = loads /\ (InFlight(k) \/ (cache[k] # None /\ ~cache[k].stale))
  <2>1. OneEach'
    BY <1>2, <1>3 DEF OneEach
  <2>2. InFlight(Asked)' <=> InFlight(k)
    BY <1>3 DEF InFlight
  <2>3. Covered'
    BY <1>3, <2>2 DEF Covered
  <2>4. ASSUME Unwritten' PROVE Replaced'
    BY <1>2, <1>3, <2>2, <2>4 DEF Replaced
  <2> QED  BY <1>2, <1>3, <2>1, <2>3, <2>4 DEF QueryInv
<1>4. CASE ~ByHand /\ loads' = Append(loads, New(k)) /\ ~InFlight(k)
  <2> DEFINE l == New(k)
  <2>1. l \in Load /\ l.key = k /\ l.old = FALSE /\ loads \in Seq(Load)
    BY NewFacts DEF FetchTypes
  <2> HIDE DEF l
  <2>2. /\ Len(loads) \in Nat /\ DOMAIN loads = 1 .. Len(loads)
        /\ DOMAIN loads' = 1 .. Len(loads) + 1 /\ loads'[Len(loads) + 1] = l
        /\ \A i \in DOMAIN loads : loads'[i] = loads[i]
    BY <1>4, <2>1, MoreFacts DEF l
  <2>3. \A i \in DOMAIN loads' : i \in DOMAIN loads \/ i = Len(loads) + 1
    BY <2>2
  <2>4. \A i \in DOMAIN loads : loads[i].key # k
    BY <1>4 DEF InFlight
  <2>5. ASSUME NEW i \in DOMAIN loads', NEW j \in DOMAIN loads', loads'[i].key = loads'[j].key
        PROVE  i = j
    <3>1. CASE i \in DOMAIN loads /\ j \in DOMAIN loads
      BY <1>2, <1>4, <2>2, <2>5, <3>1 DEF OneEach
    <3>2. CASE ~(i \in DOMAIN loads /\ j \in DOMAIN loads)
      BY <2>1, <2>2, <2>3, <2>4, <2>5, <3>2
    <3> QED  BY <3>1, <3>2
  <2>6. InFlight(Asked)'
    BY <2>1, <2>2 DEF InFlight
  <2>7. Covered'
    BY <2>6 DEF Covered
  <2>8. ASSUME Unwritten' PROVE Replaced'
    <3>1. Replaced
      BY <1>2, <1>4, <2>8
    <3>2. (\A i \in DOMAIN loads : loads[i].old => loads[i].key \in missed)'
      BY <2>1, <2>2, <2>3, <3>1 DEF Replaced
    <3>3. (\A j \in Key : cache[j] # None /\ cache[j].old => cache[j].stale \/ j \in missed)'
      BY <3>1 DEF Replaced
    <3> QED  BY <2>6, <3>2, <3>3 DEF Replaced
  <2>9. OneEach'
    BY <2>5 DEF OneEach
  <2> QED  BY <1>2, <1>4, <2>7, <2>8, <2>9 DEF QueryInv
<1> QED  BY <1>1, <1>3, <1>4

LEMMA QueryTurns ==
    ASSUME PageTypes, FetchTypes, QueryInv, NEW c, Turns(c)
    PROVE  QueryInv'
<1>1. /\ KeyOf(c) \in Key /\ Ask(c) /\ Asked' = KeyOf(c) /\ view' = view
      /\ Unwritten' <=> Unwritten
  BY KeyFacts DEF Turns, Asked, Unwritten
<1>2. CASE KeyOf(c) = Asked /\ UNCHANGED fetchVars
  BY <1>1, <1>2, QuerySame DEF fetchVars
<1>3. CASE ByHand
  BY <1>1, <1>3, SamePage DEF QueryInv
<1>4. CASE /\ loads' = IF InFlight(KeyOf(c)) \/ (cache[KeyOf(c)] # None /\ ~cache[KeyOf(c)].stale)
                       THEN loads ELSE Append(loads, New(KeyOf(c)))
           /\ UNCHANGED <<cache, failed, missed, muddled>>
  BY <1>1, <1>4, QueryGoes
<1> QED  BY <1>1, <1>2, <1>3, <1>4 DEF Ask

LEMMA QueryActs ==
    ASSUME ConsoleListAssumption, NoneAssumption, PageTypes, FetchTypes, QueryInv,
           \/ \E l \in Filter \cup {None} : Visit(l) \/ Reopen(l)
           \/ Refresh
           \/ \E S \in SUBSET Row : Tick(S)
           \/ \E r \in Row, to \in RowState : Send(r, to)
           \/ SendTicked
    PROVE  QueryInv'
<1>0. Asked \in Key /\ controls \in Control
  BY AskedFacts DEF PageTypes
<1>1. ASSUME NEW l \in Filter \cup {None}, Visit(l) PROVE QueryInv'
  <2>1. controls' = [controls EXCEPT !.link = l] /\ UNCHANGED <<view, fetchVars, change>>
    BY <1>1 DEF Visit
  <2>2. Asked' = Asked
    BY <1>0, <2>1 DEF Asked, KeyOf, Control
  <2>3. Unwritten' <=> Unwritten
    BY <2>1 DEF Unwritten
  <2> QED  BY <2>1, <2>2, <2>3, QuerySame DEF fetchVars
<1>2. ASSUME NEW l \in Filter \cup {None}, Reopen(l) PROVE QueryInv'
  <2> DEFINE k == KeyOf(Opened(l))
  <2>1. k \in Key /\ Asked' = k /\ UNCHANGED <<view, cache, failed, missed, change>>
    BY <1>2, ReopenFacts DEF Reopen, Asked
  <2>2. Unwritten' <=> Unwritten
    BY <2>1 DEF Unwritten
  <2>3. CASE ByHand
    BY <2>1, <2>3, SamePage DEF QueryInv
  <2>4. CASE ~ByHand
    <3>1. loads' = CASE ByHand -> <<New(k)>>
                     [] ~ByHand /\ ~InFlight(k) /\ (cache[k] = None \/ cache[k].stale) ->
                            Append(loads, New(k))
                     [] OTHER -> loads
      BY <1>2 DEF Reopen
    <3> HIDE DEF k
    <3>2. \/ loads' = loads /\ (InFlight(k) \/ (cache[k] # None /\ ~cache[k].stale))
          \/ loads' = Append(loads, New(k)) /\ ~InFlight(k)
      BY <2>4, <3>1
    <3> QED  BY <2>1, <2>2, <3>2, QueryGoes
  <2> QED  BY <2>3, <2>4
<1>3. ASSUME Refresh PROVE QueryInv'
  <2>1. /\ loads' = Append(loads, New(Asked)) /\ ~InFlight(Asked)
        /\ Asked' = Asked /\ UNCHANGED <<view, cache, failed, missed, change>>
    BY <1>3 DEF Refresh, Asked, pageVars
  <2>2. Unwritten' <=> Unwritten
    BY <2>1 DEF Unwritten
  <2> QED  BY <1>0, <2>1, <2>2, QueryGoes
<1>4. ASSUME NEW S \in SUBSET Row, Tick(S) PROVE QueryInv'
  <2>1. UNCHANGED <<view, controls, fetchVars, change>>
    BY <1>4 DEF Tick
  <2>2. Asked' = Asked /\ (Unwritten' <=> Unwritten)
    BY <2>1 DEF Asked, Unwritten
  <2> QED  BY <2>1, <2>2, QuerySame DEF fetchVars
<1>5. ASSUME (\E r \in Row, to \in RowState : Send(r, to)) \/ SendTicked PROVE QueryInv'
  <2>1. UNCHANGED <<view, controls, fetchVars>> /\ change = None
    BY <1>5 DEF Send, SendTicked, pageVars
  <2>2. Asked' = Asked /\ Unwritten
    BY <2>1 DEF Asked, Unwritten
  <2> QED  BY <2>1, <2>2, QuerySame DEF fetchVars
<1> QED  BY <1>1, <1>2, <1>3, <1>4, <1>5

LEMMA QueryChange ==
    ASSUME NoneAssumption, PageTypes, FetchTypes, QueryInv,
           Write \/ Acknowledge \/ ChangeFails
    PROVE  QueryInv'
<1>0. Asked \in Key
  BY AskedFacts
<1>1. ASSUME Write PROVE QueryInv'
  <2>1. change' # None /\ change'.written /\ UNCHANGED <<view, pageVars, failed, missed>>
    BY <1>1, WriteFacts
  <2>2. PICK next \in [Row -> RowState] : Rewrite(next, TRUE)
    BY <1>1, WriteFacts
  <2>3. /\ DOMAIN loads' = DOMAIN loads
        /\ \A i \in DOMAIN loads : loads'[i].key = loads[i].key
        /\ \A k \in Key : /\ cache'[k] = None <=> cache[k] = None
                          /\ cache[k] # None => cache'[k].key = cache[k].key
    BY <2>2, RewriteFacts
  <2>4. ~Unwritten' /\ Asked' = Asked
    BY <2>1 DEF Unwritten, Asked, pageVars
  <2> QED  BY <2>1, <2>3, <2>4, QueryKept
<1>2. ASSUME Acknowledge PROVE QueryInv'
  <2>1. view' = view /\ Asked' = Asked
    BY <1>2 DEF Acknowledge, Asked
  <2>2. CASE ByHand
    BY <2>1, <2>2, SamePage DEF QueryInv
  <2>3. CASE ~ByHand
    <3>0. OneEach /\ OwnEntry
      BY <2>3 DEF QueryInv
    <3>1. Invalidate
      BY <1>2, <2>3 DEF Acknowledge
    <3>2. /\ \E i \in DOMAIN loads' : loads'[i].key = Asked
          /\ \A i, j \in DOMAIN loads' : loads'[i].key = loads'[j].key => i = j
          /\ \A i \in DOMAIN loads' : loads'[i].old => loads'[i].key \in missed'
          /\ Staling
      BY <3>0, <3>1, InvalidateFacts
    <3>3. \A k \in Key : /\ cache'[k] = None <=> cache[k] = None
                         /\ cache[k] # None => cache'[k].key = cache[k].key /\ cache'[k].stale
      BY <3>2, StaleFacts
    <3>4. OneEach'
      BY <3>2 DEF OneEach
    <3>5. OwnEntry'
      BY <3>0, <3>3 DEF OwnEntry
    <3>6. InFlight(Asked)'
      BY <2>1, <3>2 DEF InFlight
    <3>7. Covered' /\ Replaced'
      BY <3>2, <3>3, <3>6 DEF Covered, Replaced
    <3> QED  BY <3>4, <3>5, <3>7 DEF QueryInv
  <2> QED  BY <2>2, <2>3
<1>3. ASSUME ChangeFails PROVE QueryInv'
  <2>1. /\ UNCHANGED <<view, controls, cache, shown, failed, loads>>
        /\ missed' = IF change.written THEN Key ELSE missed
    BY <1>3 DEF ChangeFails, pageVars
  <2>2. Asked' = Asked
    BY <2>1 DEF Asked
  <2>3. CASE change.written
    <3>1. CASE ByHand
      BY <2>1, <3>1, SamePage DEF QueryInv
    <3>2. CASE ~ByHand
      <4>0. OneEach /\ OwnEntry /\ Covered
        BY <3>2 DEF QueryInv
      <4>1. OneEach' /\ OwnEntry'
        BY <2>1, <4>0 DEF OneEach, OwnEntry
      <4>2. InFlight(Asked)' <=> InFlight(Asked)
        BY <2>1, <2>2 DEF InFlight
      <4>3. Covered'
        BY <2>1, <2>2, <4>0, <4>2 DEF Covered
      <4>4. \A i \in DOMAIN loads : loads[i].key \in Key
        BY LoadKeys
      <4>5. missed' = Key
        BY <2>1, <2>3
      <4>6. Replaced'
        BY <1>0, <2>1, <2>2, <4>4, <4>5 DEF Replaced
      <4> QED  BY <4>1, <4>3, <4>6 DEF QueryInv
    <3> QED  BY <3>1, <3>2
  <2>4. CASE ~change.written
    <3>1. Unwritten
      BY <2>4 DEF Unwritten
    <3> QED  BY <2>1, <2>2, <2>4, <3>1, QuerySame
  <2> QED  BY <2>3, <2>4
<1> QED  BY <1>1, <1>2, <1>3

\* One request is answered or fails: no other request was for its key.
LEMMA QueryLess ==
    ASSUME PageTypes, FetchTypes, QueryInv, NEW i \in DOMAIN loads, loads' = Without(i),
           UNCHANGED <<view, controls, change>>,
           \A k \in Key \ {loads[i].key} :
              /\ cache'[k] = cache[k]
              /\ k \in missed => k \in missed'
              /\ k \in failed => k \in failed',
           loads[i].key \in missed =>
              loads[i].key \in missed' \/ (cache'[loads[i].key] # None /\ ~cache'[loads[i].key].old),
           \/ loads[i].key \in failed' /\ cache'[loads[i].key] = cache[loads[i].key]
           \/ /\ cache'[loads[i].key] # None
              /\ cache'[loads[i].key].key = loads[i].key
              /\ cache'[loads[i].key].old <=> loads[i].old
    PROVE  QueryInv'
<1> DEFINE l == loads[i]
<1>1. Asked' = Asked /\ (Unwritten' <=> Unwritten) /\ Asked \in Key
  BY AskedFacts DEF Asked, Unwritten
<1>2. CASE ByHand
  BY <1>2, SamePage DEF QueryInv
<1>3. CASE ~ByHand
  <2>0. OneEach /\ OwnEntry /\ Covered /\ (Unwritten => Replaced)
    BY <1>3 DEF QueryInv
  <2>1. l.key \in Key /\ \A m \in DOMAIN loads : loads[m].key \in Key
    BY LoadKeys DEF l
  <2>2. /\ \A j \in DOMAIN loads' : \E m \in DOMAIN loads \ {i} : loads'[j] = loads[m]
        /\ \A m \in DOMAIN loads \ {i} : \E j \in DOMAIN loads' : loads'[j] = loads[m]
        /\ \A j, n \in DOMAIN loads' : loads'[j].key = loads'[n].key => j = n
        /\ \A j \in DOMAIN loads' : loads'[j].key # l.key
    BY <2>0, LeftFacts DEF FetchTypes
  <2> HIDE DEF l
  <2>3. OneEach'
    BY <2>2 DEF OneEach
  <2>4. OwnEntry'
    BY <2>0 DEF OwnEntry, l
  <2>5. Asked # l.key /\ InFlight(Asked) => InFlight(Asked)'
    BY <1>1, <2>2 DEF InFlight, l
  <2>6. Covered'
    BY <1>1, <2>0, <2>5 DEF Covered, l
  <2>7. ASSUME Unwritten' PROVE Replaced'
    <3>1. Replaced
      BY <1>1, <2>0, <2>7
    <3>2. (\A m \in DOMAIN loads : loads[m].old => loads[m].key \in missed)'
      BY <2>1, <2>2, <3>1 DEF Replaced, l
    <3>3. ASSUME NEW k \in Key, cache'[k] # None, cache'[k].old
          PROVE  /\ cache'[k].stale \/ k \in missed'
                 /\ k = Asked => k \in missed' \cup failed' \/ InFlight(Asked)'
      <4>1. CASE k # l.key
        BY <1>1, <2>5, <3>1, <3>3, <4>1 DEF Replaced, l
      <4>2. CASE k = l.key /\ cache'[k] = cache[k] /\ k \in failed'
        BY <3>1, <3>3, <4>2 DEF Replaced, l
      <4>3. CASE k = l.key /\ l.old
        BY <3>1, <3>3, <4>3 DEF Replaced, l
      <4> QED  BY <3>3, <4>1, <4>2, <4>3 DEF l
    <3> QED  BY <1>1, <3>2, <3>3 DEF Replaced
  <2> QED  BY <2>3, <2>4, <2>6, <2>7 DEF QueryInv
<1> QED  BY <1>2, <1>3

LEMMA QueryServer ==
    ASSUME ConsoleListAssumption, NoneAssumption, PageTypes, FetchTypes, QueryInv,
           \/ \E i \in DOMAIN loads : Read(i) \/ Answer(i) \/ Fail(i)
           \/ Age
           \/ \E r \in Row, to \in RowState : OthersChange(r, to)
    PROVE  QueryInv'
<1>1. ASSUME NEW i \in DOMAIN loads, Read(i) PROVE QueryInv'
  <2>1. /\ DOMAIN loads' = DOMAIN loads
        /\ \A j \in DOMAIN loads : loads'[j].key = loads[j].key /\ loads'[j].old = loads[j].old
        /\ UNCHANGED <<view, controls, cache, failed, missed, change>>
    BY <1>1, ReadFacts DEF pageVars
  <2>2. Asked' = Asked /\ (Unwritten' <=> Unwritten)
    BY <2>1 DEF Asked, Unwritten
  <2> QED  BY <2>1, <2>2, QueryKept
<1>2. ASSUME NEW i \in DOMAIN loads, Answer(i) PROVE QueryInv'
  <2> DEFINE k == loads[i].key
  <2>1. /\ loads' = Without(i) /\ loads[i].rows # None
        /\ failed' = failed \ {k}
        /\ missed' = IF loads[i].old THEN missed ELSE missed \ {k}
        /\ UNCHANGED <<view, controls, change>>
        /\ ~ByHand => cache' = [cache EXCEPT ![k] = Data(loads[i])]
    BY <1>2 DEF Answer, Answered, pageVars
  <2>2. Data(loads[i]) # None /\ Data(loads[i]).key = k /\ (Data(loads[i]).old <=> loads[i].old)
    BY <2>1, DataFacts
  <2>3. k \in Key /\ DOMAIN cache = Key
    BY LoadKeys DEF FetchTypes
  <2>4. CASE ByHand
    BY <2>1, <2>4, SamePage DEF QueryInv
  <2>5. CASE ~ByHand
    <3>1. cache'[k] = Data(loads[i]) /\ \A j \in Key \ {k} : cache'[j] = cache[j]
      BY <2>1, <2>3, <2>5
    <3>2. /\ cache'[k] # None /\ cache'[k].key = k /\ (cache'[k].old <=> loads[i].old)
          /\ k \in missed => k \in missed' \/ ~cache'[k].old
          /\ \A j \in Key \ {k} : (j \in missed => j \in missed') /\ (j \in failed => j \in failed')
      BY <2>1, <2>2, <3>1
    <3> QED  BY <2>1, <3>1, <3>2, QueryLess
  <2> QED  BY <2>4, <2>5
<1>3. ASSUME NEW i \in DOMAIN loads, Fail(i) PROVE QueryInv'
  <2>1. /\ loads' = Without(i) /\ failed' = failed \cup {loads[i].key}
        /\ UNCHANGED <<view, controls, cache, missed, change>>
    BY <1>3 DEF Fail, Answered, pageVars
  <2> QED  BY <2>1, QueryLess
<1>4. ASSUME Age PROVE QueryInv'
  <2>1. Staling /\ UNCHANGED <<view, controls, failed, loads, missed, change>>
    BY <1>4 DEF Age, Staling, pageVars
  <2>2. Asked' = Asked /\ (Unwritten' <=> Unwritten)
    BY <2>1 DEF Asked, Unwritten
  <2>3. \A k \in Key : /\ cache'[k] = None <=> cache[k] = None
                       /\ cache[k] # None => /\ cache'[k].key = cache[k].key
                                             /\ cache'[k].stale
                                             /\ cache'[k].old = cache[k].old
    BY <2>1, StaleFacts
  <2> QED  BY <2>1, <2>2, <2>3, QueryKept
<1>5. ASSUME NEW r \in Row, NEW to \in RowState, OthersChange(r, to) PROVE QueryInv'
  <2> DEFINE next == [rows EXCEPT ![r] = to]
  <2>1. next \in [Row -> RowState]
    BY DEF PageTypes
  <2>2. Rewrite(next, FALSE) /\ UNCHANGED <<view, controls, failed, missed, change>>
    BY <1>5 DEF OthersChange, pageVars
  <2> HIDE DEF next
  <2>3. /\ DOMAIN loads' = DOMAIN loads
        /\ \A i \in DOMAIN loads : loads'[i].key = loads[i].key /\ loads'[i].old = loads[i].old
        /\ cache' = cache
    BY <2>1, <2>2, RewriteFacts
  <2>4. Asked' = Asked /\ (Unwritten' <=> Unwritten)
    BY <2>2 DEF Asked, Unwritten
  <2> QED  BY <2>2, <2>3, <2>4, QueryKept
<1> QED  BY <1>1, <1>2, <1>3, <1>4, <1>5

-----------------------------------------------------------------------------
(* The ticks of the alerts page *)

\* The ticks are kept with the filter, and nothing was due, or are cleared.
LEMMA FitSame ==
    ASSUME TicksFit, UNCHANGED <<ticks, moved>>, controls'.filter = controls.filter, ~LinkDue
    PROVE  TicksFit'
  BY DEF TicksFit

LEMMA FitClear ==
    ASSUME ticks' = [r \in Row |-> None]
    PROVE  TicksFit'
  BY DEF TicksFit

LEMMA FitStep ==
    ASSUME ConsoleListAssumption, NoneAssumption, PageTypes, TicksFit, ListNext
    PROVE  TicksFit'
<1>0. controls \in Control /\ ticks \in [Row -> Filter \cup {None}]
  BY DEF PageTypes
<1>1. CASE FollowLink
  <2>1. moved' = (moved \/ ticks # [r \in Row |-> None]) /\ ticks' = ticks
    BY <1>1 DEF FollowLink
  <2>2. CASE ticks = [r \in Row |-> None]
    BY <2>1, <2>2, FitClear
  <2>3. CASE ticks # [r \in Row |-> None]
    <3>1. moved'
      BY <2>1, <2>3
    <3> QED  BY <3>1 DEF TicksFit
  <2> QED  BY <2>2, <2>3
<1>2. CASE ResetPage \/ ClampPage \/ Debounce
  <2>1. /\ controls'.filter = controls.filter /\ controls'.link = controls.link
        /\ UNCHANGED <<ticks, moved>>
    BY <1>0, <1>2 DEF ResetPage, ClampPage, Debounce, Control
  <2> QED  BY <2>1 DEF TicksFit, LinkDue
<1>3. ASSUME UserActs PROVE TicksFit'
  <2>1. ~LinkDue
    BY <1>3 DEF UserActs, Choose, Type, TurnPage, Visit, Reopen, Refresh, Tick, Send, SendTicked,
               Acts, Quiet
  <2>2. ASSUME NEW f \in Filter, Choose(f) PROVE TicksFit'
    BY <2>2, FitClear DEF Choose
  <2>3. ASSUME \/ \E s \in Term : Type(s)
               \/ \E p \in 1 .. RowCount : TurnPage(p)
               \/ \E l \in Filter \cup {None} : Visit(l)
        PROVE  TicksFit'
    <3>1. controls'.filter = controls.filter /\ UNCHANGED <<ticks, moved>>
      BY <1>0, <2>3 DEF Type, TurnPage, Visit, Control
    <3> QED  BY <2>1, <3>1, FitSame
  <2>4. ASSUME NEW l \in Filter \cup {None}, Reopen(l) PROVE TicksFit'
    BY <2>4, FitClear DEF Reopen
  <2>5. ASSUME NEW S \in SUBSET Row, Tick(S) PROVE TicksFit'
    <3>1. /\ \A r \in Row : ticks'[r] # None => ticks'[r] = ticks[r] \/ ticks'[r] = controls.filter
          /\ UNCHANGED <<controls, moved>>
      BY <2>5 DEF Tick
    <3> QED  BY <2>1, <3>1 DEF TicksFit
  <2>6. ASSUME Refresh \/ (\E r \in Row, to \in RowState : Send(r, to)) \/ SendTicked
        PROVE  TicksFit'
    BY <2>1, <2>6, FitSame DEF Refresh, Send, SendTicked, pageVars
  <2> QED  BY <1>3, <2>2, <2>3, <2>4, <2>5, <2>6 DEF UserActs
<1>4. CASE Acknowledge
  <2>1. /\ ticks' = ticks \/ ticks' = [r \in Row |-> None]
        /\ UNCHANGED <<controls, moved>> /\ ~LinkDue
    BY <1>4 DEF Acknowledge, Quiet
  <2> QED  BY <2>1, FitSame, FitClear
<1>5. CASE \/ Write \/ ChangeFails
           \/ \E i \in DOMAIN loads : Read(i) \/ Answer(i) \/ Fail(i)
           \/ Age
           \/ \E r \in Row, to \in RowState : OthersChange(r, to)
  <2>1. UNCHANGED pageVars /\ ~LinkDue
    BY <1>5 DEF Write, ChangeFails, Read, Answer, Fail, Age, OthersChange, Quiet
  <2> QED  BY <2>1, FitSame DEF pageVars
<1> QED  BY <1>1, <1>2, <1>3, <1>4, <1>5 DEF ListNext, Effects

-----------------------------------------------------------------------------
(* The invariant of a list page *)

LEMMA ListInvInit ==
    ASSUME ConsoleListAssumption, NoneAssumption, ListInit
    PROVE  ListInv
<1>1. PICK l \in Controls.links \cup {None} : controls = Opened(l)
  BY DEF ListInit
<1>2. PICK p \in Page : view = p
  BY DEF ListInit
<1>3. /\ IF l = None THEN Controls.default \in Filter ELSE l \in Filter
      /\ l \in Filter \cup {None}
  BY <1>2, PageFacts
<1>4. 1 \in 1 .. RowCount /\ "" \in Term
  BY RowFacts DEF Term
<1>5. \A b \in BOOLEAN, f \in Filter :
        [filter |-> f, search |-> "", sent |-> "", typing |-> b, page |-> 1, link |-> l] \in Control
  BY <1>3, <1>4 DEF Control
<1>6. controls \in Control /\ controls.link = l /\ controls.sent = controls.search
  BY <1>1, <1>3, <1>5 DEF Opened
<1>7. Asked \in Key
  BY <1>6, KeyFacts DEF Asked
<1>8. rows \in [Row -> RowState] /\ ticks \in [Row -> Filter \cup {None}]
  BY DEF ListInit, RowState
<1>9. due = FALSE /\ moved = FALSE /\ muddled = FALSE /\ change = None /\ shown = None /\ failed = {}
      /\ cache = [k \in Key |-> None] /\ loads = <<New(Asked)>> /\ ticks = [r \in Row |-> None]
  BY DEF ListInit
<1>10. due \in BOOLEAN
  BY <1>9
<1>11. moved \in BOOLEAN
  BY <1>9
<1>12. muddled \in BOOLEAN
  BY <1>9
<1>13. PageTypes
  BY <1>1, <1>2, <1>6, <1>8, <1>9, <1>10, <1>11 DEF PageTypes
<1> DEFINE n == New(Asked)
<1>14. n \in Load /\ n.key = Asked /\ n.rows = None /\ n.old = FALSE
  BY <1>7, NewFacts
<1> HIDE DEF n
<1>15. /\ loads \in Seq(Load) /\ DOMAIN loads = {1} /\ loads[1] = n /\ Len(loads) = 1
       /\ loads # <<>>
  BY <1>9, <1>14 DEF n
<1>16. FetchTypes
  BY <1>9, <1>12, <1>14, <1>15 DEF FetchTypes
<1>17. Typed
  BY <1>6 DEF Typed
<1>18. ByHandInv
  BY <1>14, <1>15 DEF ByHandInv
<1>19. OneEach /\ OwnEntry /\ Covered /\ Replaced
  BY <1>7, <1>9, <1>14, <1>15 DEF OneEach, OwnEntry, Covered, Replaced, InFlight
<1>20. TicksFit
  BY <1>9 DEF TicksFit
<1> QED  BY <1>13, <1>16, <1>17, <1>18, <1>19, <1>20, TypeParts DEF ListInv, QueryInv

LEMMA ListInvStep ==
    ASSUME ConsoleListAssumption, NoneAssumption, ListInv, [ListNext]_listVars
    PROVE  ListInv'
<1>0. PageTypes /\ FetchTypes /\ Typed /\ ByHandInv /\ QueryInv /\ TicksFit
  BY TypeParts DEF ListInv
<1>1. (PageTypes /\ FetchTypes /\ Typed)'
  BY <1>0, TypeStep
<1>2. ListTypeOK'
  <2>1. ListTypeOK' <=> PageTypes' /\ FetchTypes'
    BY DEF ListTypeOK, PageTypes, FetchTypes
  <2> QED  BY <1>1, <2>1
<1>3. (ByHandInv /\ QueryInv)'
  <2>1. CASE UNCHANGED listVars
    <3>1. UNCHANGED <<view, cache, shown, failed, loads, missed, muddled, controls, change>>
      BY <2>1 DEF listVars, pageVars, fetchVars
    <3>2. Asked' = Asked /\ (Unwritten' <=> Unwritten)
      BY <3>1 DEF Asked, Unwritten
    <3> QED  BY <1>0, <3>1, <3>2, HandSame, QuerySame
  <2>2. CASE \/ Effects \/ Debounce
             \/ \E f \in Filter : Choose(f)
             \/ \E s \in Term : Type(s)
             \/ \E p \in 1 .. RowCount : TurnPage(p)
    <3>1. \E c : Turns(c)
      BY <1>0, <2>2, EffectTurns, ChoiceTurns
    <3> QED  BY <1>0, <3>1, HandTurns, QueryTurns
  <2>3. CASE \/ \E l \in Filter \cup {None} : Visit(l) \/ Reopen(l)
             \/ Refresh
             \/ \E S \in SUBSET Row : Tick(S)
             \/ \E r \in Row, to \in RowState : Send(r, to)
             \/ SendTicked
    BY <1>0, <2>3, HandActs, QueryActs
  <2>4. CASE Write \/ Acknowledge \/ ChangeFails
    BY <1>0, <2>4, HandChange, QueryChange
  <2>5. CASE \/ \E i \in DOMAIN loads : Read(i) \/ Answer(i) \/ Fail(i)
             \/ Age
             \/ \E r \in Row, to \in RowState : OthersChange(r, to)
    BY <1>0, <2>5, HandServer, QueryServer
  <2> QED  BY <2>1, <2>2, <2>3, <2>4, <2>5 DEF ListNext, UserActs
<1>4. TicksFit'
  <2>1. CASE UNCHANGED listVars
    BY <1>0, <2>1 DEF listVars, pageVars, TicksFit, LinkDue
  <2>2. CASE ListNext
    BY <1>0, <2>2, FitStep
  <2> QED  BY <2>1, <2>2
<1> QED  BY <1>1, <1>2, <1>3, <1>4 DEF ListInv

\* What is on show when nothing is under way.
LEMMA SettledFacts ==
    ASSUME ListInv, Settled, OnShow # None,
           ~(ByHand /\ (muddled \/ loads # <<>> \/ failed # {}))
    PROVE  OnShow.key = Asked /\ (OnShow.old => ~ByHand /\ Asked \in missed)
<1>0. /\ ~InFlight(Asked) /\ Asked \notin failed /\ Asked \in Key /\ Unwritten
      /\ ByHandInv /\ QueryInv
  BY AskedFacts, TypeParts DEF Settled, Unwritten, ListInv
<1>1. CASE ByHand
  <2>1. shown # None /\ shown.key = Asked /\ ~shown.old
    BY <1>0, <1>1 DEF ByHandInv
  <2> QED  BY <1>1, <2>1 DEF OnShow
<1>2. CASE ~ByHand
  <2>1. OwnEntry /\ Covered /\ Replaced
    BY <1>0, <1>2 DEF QueryInv
  <2>2. cache[Asked] # None /\ cache[Asked].key = Asked
    BY <1>0, <2>1 DEF OwnEntry, Covered
  <2>3. OnShow = cache[Asked]
    BY <1>2, <2>2 DEF OnShow
  <2> QED  BY <1>0, <1>2, <2>1, <2>2, <2>3 DEF Replaced
<1> QED  BY <1>1, <1>2

LEMMA ListInvShows ==
    ASSUME ListInv
    PROVE  ShownIsChosen /\ OwnChangesShown /\ TicksFit
<1>1. ASSUME Settled, OnShow # None, ~(ByHand /\ (muddled \/ loads # <<>> \/ failed # {}))
      PROVE  /\ OnShow.key = [filter |-> controls.filter, search |-> controls.search,
                              page |-> controls.page]
             /\ controls.link \in {None, controls.filter}
  <2>1. OnShow.key = Asked /\ controls.sent = controls.search /\ ~LinkDue
    BY <1>1, SettledFacts DEF Settled, Quiet, ListInv, Typed
  <2> QED  BY <2>1 DEF Asked, KeyOf, LinkDue
<1>2. OwnChangesShown
  BY SettledFacts DEF OwnChangesShown
<1> QED  BY <1>1, <1>2 DEF ShownIsChosen, ListInv

-----------------------------------------------------------------------------
(* The dialogs *)

\* A set of targets has a first one.
LEMMA FirstFacts ==
    ASSUME ConsoleDialogsAssumption, existing \subseteq Target, existing # {}
    PROVE  First \in existing
<1> DEFINE below == OpToRel(<, Nat)
<1>1. \A m, n \in Nat : m < n => <<m, n>> \in below
  BY DEF OpToRel
<1>2. IsWellFoundedOn(below, Nat)
  BY NatLessThanWellFounded
<1>3. existing \subseteq Nat
  BY DEF ConsoleDialogsAssumption
<1> HIDE DEF below
<1>4. PICK t \in existing : \A u \in existing : ~(<<u, t>> \in below)
  BY <1>2, <1>3, WFMin
<1>5. ASSUME NEW u \in existing PROVE t <= u
  <2>1. t \in Nat /\ u \in Nat /\ ~(<<u, t>> \in below)
    BY <1>3, <1>4
  <2>2. ~(u < t)
    BY <1>1, <2>1
  <2> QED  BY <2>1, <2>2
<1> QED  BY <1>5 DEF First

Handler == [step: {"request", "list", "detail"}, to: Target, meant: Target \cup {NoTarget},
            over: Target \cup {NoTarget}]

\* A handler that is waiting, and one that goes on.
LEMMA HandlerFacts ==
    ASSUME DialogTypeOK, NEW k \in Kind
    PROVE  /\ handlers[k] # Idle => handlers[k] \in Handler
           /\ handlers[k].step # "idle" => handlers[k] # Idle
           /\ handlers[k] # Idle => handlers[k].step # "idle"
           /\ DOMAIN handlers = Kind
<1>1. handlers[k] \in {Idle} \cup Handler /\ DOMAIN handlers = Kind
  BY DEF DialogTypeOK, Handler
<1>2. Idle.step = "idle" /\ \A h \in Handler : h.step # "idle"
  BY DEF Idle, Handler
<1> QED  BY <1>1, <1>2

LEMMA MovedFacts ==
    ASSUME DialogTypeOK, NEW k \in Kind, handlers[k] # Idle, NEW s \in {"list", "detail"},
           handlers' = [handlers EXCEPT ![k].step = s]
    PROVE  /\ handlers' \in [Kind -> {Idle} \cup Handler]
           /\ \A j \in Kind \ {k} : handlers'[j] = handlers[j]
           /\ handlers'[k].step = s /\ handlers'[k].to = handlers[k].to
<1>1. handlers[k] \in Handler /\ handlers \in [Kind -> {Idle} \cup Handler]
  BY HandlerFacts DEF DialogTypeOK, Handler
<1> DEFINE h == [handlers[k] EXCEPT !.step = s]
<1>2. h \in Handler /\ h.step = s /\ h.to = handlers[k].to
  BY <1>1 DEF Handler
<1>3. handlers' = [handlers EXCEPT ![k] = h]
  OBVIOUS
<1> HIDE DEF h
<1> QED  BY <1>1, <1>2, <1>3

LEMMA IdledFacts ==
    ASSUME DialogTypeOK, NEW k \in Kind, handlers' = [handlers EXCEPT ![k] = Idle]
    PROVE  /\ handlers' \in [Kind -> {Idle} \cup Handler]
           /\ \A j \in Kind \ {k} : handlers'[j] = handlers[j]
           /\ handlers'[k] = Idle
  BY DEF DialogTypeOK, Handler

LEMMA SentFacts ==
    ASSUME DialogTypeOK, NEW k \in Kind, NEW to \in Target, NEW meant \in Target \cup {NoTarget},
           Sent(k, to, meant)
    PROVE  /\ handlers' \in [Kind -> {Idle} \cup Handler]
           /\ \A j \in Kind \ {k} : handlers'[j] = handlers[j]
           /\ handlers'[k].step = "request" /\ handlers'[k].to = to
           /\ handlers'[k].meant = meant /\ handlers'[k].over = selected
<1> DEFINE h == [step |-> "request", to |-> to, meant |-> meant, over |-> selected]
<1>1. h \in Handler /\ h.step = "request" /\ h.to = to /\ h.meant = meant /\ h.over = selected
  BY DEF DialogTypeOK, Handler
<1>2. handlers' = [handlers EXCEPT ![k] = h]
  BY DEF Sent
<1> HIDE DEF h
<1> QED  BY <1>1, <1>2 DEF DialogTypeOK, Handler

\* One more request for a target.
LEMMA AskingFacts ==
    ASSUME DialogTypeOK, NEW t \in Target, Asking(t)
    PROVE  /\ fetches' \in [Target -> Nat] /\ fetches'[t] = fetches[t] + 1
           /\ \A u \in Target \ {t} : fetches'[u] = fetches[u]
  BY DEF DialogTypeOK, Asking

\* The dialogs keep their kinds apart.
LEMMA KindFacts ==
    /\ "add" \in Kind /\ "remove" \in Kind /\ "rename" \in Kind /\ "delete" \in Kind /\ "deploy" \in Kind
    /\ "none" \notin Kind
    /\ GroupDialog \subseteq Kind \ {"deploy"}
    /\ NoForm.kind = "none" /\ NoForm.for = NoTarget
  BY DEF Kind, GroupDialog, NoForm

LEMMA FormFacts ==
    ASSUME DialogTypeOK
    PROVE  /\ form # NoForm => form.kind \in Kind /\ form.for \in Target \cup {NoTarget}
           /\ \A k \in Kind : form.kind = k => form # NoForm
           /\ \A k \in Kind, t \in Target \cup {NoTarget} :
                /\ [kind |-> k, for |-> t] \in [kind: Kind, for: Target \cup {NoTarget}]
                /\ [kind |-> k, for |-> t] # NoForm
  BY KindFacts DEF DialogTypeOK

\* A step writes handlers, requests and dialog of their types.
LEMMA DialogTypesKept ==
    ASSUME dialogPage' = dialogPage, DialogTypeOK,
           existing' \subseteq existing, selected' \in Target \cup {NoTarget},
           detailLoading' \in BOOLEAN, crossed' \in BOOLEAN,
           fetches' \in [Target -> Nat],
           form' = NoForm \/ form' \in [kind: Kind, for: Target \cup {NoTarget}],
           handlers' \in [Kind -> {Idle} \cup Handler]
    PROVE  DialogTypeOK'
  BY DEF DialogTypeOK, Handler

LEMMA FetchDetailFacts ==
    ASSUME DialogTypeOK, NEW k \in Kind, handlers[k] # Idle, FetchDetail(k)
    PROVE  /\ handlers' \in [Kind -> {Idle} \cup Handler]
           /\ \A j \in Kind \ {k} : handlers'[j] = handlers[j]
           /\ handlers'[k].step = "detail" /\ handlers'[k].to = handlers[k].to
           /\ handlers[k].to \in Target
           /\ fetches' \in [Target -> Nat]
           /\ fetches'[handlers[k].to] = fetches[handlers[k].to] + 1
           /\ \A u \in Target \ {handlers[k].to} : fetches'[u] = fetches[u]
           /\ detailLoading' = TRUE /\ detailLoading' \in BOOLEAN /\ crossed' \in BOOLEAN
           /\ ~crossed' => ~crossed /\ ~Awaited /\ \A j \in Kind \ {k} : handlers[j] = Idle
<1>1. handlers[k].to \in Target
  BY HandlerFacts DEF Handler
<1>2. /\ handlers' = [handlers EXCEPT ![k].step = "detail"]
      /\ Asking(handlers[k].to) /\ detailLoading' = TRUE
      /\ crossed' = (crossed \/ Busy(k))
  BY DEF FetchDetail
<1>3. detailLoading' \in BOOLEAN
  BY <1>2
<1>4. crossed' \in BOOLEAN
  BY <1>2
<1>5. ~crossed' => ~crossed /\ ~Awaited /\ \A j \in Kind \ {k} : handlers[j] = Idle
  BY <1>2 DEF Busy
<1> QED  BY <1>1, <1>2, <1>3, <1>4, <1>5, MovedFacts, AskingFacts

\* A dialog of the groups page was opened for a group.
GroupForm == dialogPage = "groups" /\ form # NoForm => form.kind \in GroupDialog /\ form.for # NoTarget
DialogTypes == DialogTypeOK /\ GroupForm

\* What the steps of the groups page write, by the step.
LEMMA OpenDetailFacts ==
    ASSUME ConsoleDialogsAssumption, DialogTypes, NEW t \in Target, OpenDetail(t)
    PROVE  /\ DialogTypes'
           /\ form = NoForm /\ t \in existing /\ detailLoading'
           /\ UNCHANGED <<dialogPage, existing, selected, form, handlers>>
           /\ fetches'[t] = fetches[t] + 1 /\ \A u \in Target \ {t} : fetches'[u] = fetches[u]
           /\ ~crossed' => ~Awaited /\ \A k \in Kind : handlers[k] = Idle
<1>1. /\ Asking(t) /\ detailLoading' = TRUE /\ crossed' = Busy("none")
      /\ form = NoForm /\ t \in existing
      /\ UNCHANGED <<dialogPage, existing, selected, form, handlers>>
  BY DEF OpenDetail
<1>2. detailLoading' \in BOOLEAN /\ detailLoading'
  BY <1>1
<1>3. Busy("none") \in BOOLEAN
  BY DEF Busy
<1>4. crossed' \in BOOLEAN
  BY <1>1, <1>3
<1>5. /\ fetches' \in [Target -> Nat] /\ fetches'[t] = fetches[t] + 1
      /\ \A u \in Target \ {t} : fetches'[u] = fetches[u]
  BY <1>1, AskingFacts DEF DialogTypes
<1>6. DialogTypeOK'
  BY <1>1, <1>2, <1>4, <1>5, DialogTypesKept DEF DialogTypes, DialogTypeOK, Handler
<1>7. ~crossed' => ~Awaited /\ \A k \in Kind : handlers[k] = Idle
  BY <1>1, KindFacts DEF Busy
<1>8. GroupForm'
  BY <1>1 DEF GroupForm
<1> QED  BY <1>1, <1>2, <1>5, <1>6, <1>7, <1>8 DEF DialogTypes

LEMMA OpenDialogFacts ==
    ASSUME DialogTypes, NEW kind \in GroupDialog, OpenDialog(kind)
    PROVE  /\ DialogTypes'
           /\ form' # NoForm /\ form'.for = selected /\ selected # NoTarget /\ ~detailLoading
           /\ UNCHANGED <<dialogPage, existing, selected, detailLoading, fetches, handlers, crossed>>
<1>1. /\ form' = [kind |-> kind, for |-> selected] /\ selected # NoTarget /\ ~detailLoading
      /\ UNCHANGED <<dialogPage, existing, selected, detailLoading, fetches, handlers, crossed>>
  BY DEF OpenDialog
<1>2. kind \in Kind /\ selected \in Target \cup {NoTarget}
  BY KindFacts DEF DialogTypes, DialogTypeOK
<1>3. form' \in [kind: Kind, for: Target \cup {NoTarget}] /\ form' # NoForm
  BY <1>1, <1>2, FormFacts DEF DialogTypes
<1>4. DialogTypeOK'
  BY <1>1, <1>3 DEF DialogTypes, DialogTypeOK
<1>5. form'.kind = kind /\ form'.for = selected
  BY <1>1
<1> QED  BY <1>1, <1>3, <1>4, <1>5 DEF DialogTypes, GroupForm

\* A handler is started by a dialog or a button.
LEMMA StartFacts ==
    ASSUME DialogTypes, Submit \/ RemoveMember \/ Deploy
    PROVE  /\ DialogTypes'
           /\ UNCHANGED <<dialogPage, existing, selected, detailLoading, fetches, form, crossed>>
           /\ \E k \in Kind :
                 /\ handlers[k] = Idle
                 /\ \A j \in Kind \ {k} : handlers'[j] = handlers[j]
                 /\ handlers'[k].step = "request" /\ handlers'[k].over = selected
                 /\ \/ /\ dialogPage = "groups" /\ k # "deploy" /\ form # NoForm
                       /\ handlers'[k].meant = form.for
                       /\ handlers'[k].to = IF k = "delete" THEN form.for ELSE selected
                       /\ k = "delete" \/ selected # NoTarget
                    \/ /\ dialogPage = "groups" /\ k # "deploy" /\ k # "delete"
                       /\ ~detailLoading /\ form = NoForm
                       /\ handlers'[k].meant = selected /\ handlers'[k].to = selected
                    \/ /\ dialogPage = "software" /\ k = "deploy" /\ form # NoForm
                       /\ handlers'[k].meant = form.for /\ handlers'[k].to = selected
<1>0. DialogTypeOK /\ selected \in Target \cup {NoTarget}
  BY DEF DialogTypes, DialogTypeOK
<1>1. ASSUME NEW k \in Kind, NEW to \in Target, NEW meant \in Target \cup {NoTarget},
             Sent(k, to, meant),
             UNCHANGED <<dialogPage, existing, selected, detailLoading, fetches, form, crossed>>
      PROVE  /\ DialogTypes'
             /\ \A j \in Kind \ {k} : handlers'[j] = handlers[j]
             /\ handlers'[k].step = "request" /\ handlers'[k].over = selected
             /\ handlers'[k].to = to /\ handlers'[k].meant = meant
  <2>1. /\ handlers' \in [Kind -> {Idle} \cup Handler]
        /\ \A j \in Kind \ {k} : handlers'[j] = handlers[j]
        /\ handlers'[k].step = "request" /\ handlers'[k].to = to
        /\ handlers'[k].meant = meant /\ handlers'[k].over = selected
    BY <1>0, <1>1, SentFacts
  <2>2. DialogTypeOK'
    BY <1>0, <1>1, <2>1 DEF DialogTypeOK, Handler
  <2>3. GroupForm'
    BY <1>1 DEF DialogTypes, GroupForm
  <2> QED  BY <2>1, <2>2, <2>3 DEF DialogTypes
<1>2. CASE Submit
  <2> DEFINE k == form.kind
             to == IF k = "delete" THEN form.for ELSE selected
  <2>1. /\ dialogPage = "groups" /\ form # NoForm /\ (k # "delete" => selected # NoTarget)
        /\ handlers[k] = Idle /\ Sent(k, to, form.for)
        /\ UNCHANGED <<dialogPage, existing, selected, detailLoading, fetches, form, crossed>>
    BY <1>2 DEF Submit
  <2>2. k \in Kind \ {"deploy"} /\ form.for \in Target
    BY <1>0, <2>1, FormFacts, KindFacts DEF DialogTypes, GroupForm
  <2>3. to \in Target
    BY <1>0, <2>1, <2>2
  <2> HIDE DEF k, to
  <2>4. /\ DialogTypes'
        /\ \A j \in Kind \ {k} : handlers'[j] = handlers[j]
        /\ handlers'[k].step = "request" /\ handlers'[k].over = selected
        /\ handlers'[k].to = to /\ handlers'[k].meant = form.for
    BY <1>1, <2>1, <2>2, <2>3
  <2> QED  BY <2>1, <2>2, <2>4 DEF to
<1>3. CASE RemoveMember
  <2>1. /\ dialogPage = "groups" /\ form = NoForm /\ selected # NoTarget /\ ~detailLoading
        /\ handlers["remove"] = Idle /\ Sent("remove", selected, selected)
        /\ UNCHANGED <<dialogPage, existing, selected, detailLoading, fetches, form, crossed>>
    BY <1>3 DEF RemoveMember
  <2>2. "remove" \in Kind /\ selected \in Target
    BY <1>0, <2>1, KindFacts
  <2> QED  BY <1>1, <2>1, <2>2
<1>4. CASE Deploy
  <2>1. /\ dialogPage = "software" /\ form # NoForm /\ selected # NoTarget
        /\ handlers["deploy"] = Idle /\ Sent("deploy", selected, form.for)
        /\ UNCHANGED <<dialogPage, existing, selected, detailLoading, fetches, form, crossed>>
    BY <1>4 DEF Deploy
  <2>2. "deploy" \in Kind /\ selected \in Target /\ form.for \in Target \cup {NoTarget}
    BY <1>0, <2>1, KindFacts, FormFacts
  <2> QED  BY <1>1, <2>1, <2>2
<1> QED  BY <1>2, <1>3, <1>4

LEMMA DoneFacts ==
    ASSUME DialogTypes, NEW k \in Kind, Done(k)
    PROVE  /\ DialogTypes' /\ dialogPage' = dialogPage
           /\ k # "deploy" /\ handlers[k] \in Handler /\ handlers[k].step = "request"
           /\ handlers[k].to \in existing /\ handlers[k].to \in Target
           /\ form' = NoForm \/ form' = form
           /\ existing' = IF k = "delete" THEN existing \ {handlers[k].to} ELSE existing
           /\ selected' = IF k = "delete" /\ handlers[k].over = handlers[k].to
                          THEN NoTarget ELSE selected
           /\ \A j \in Kind \ {k} : handlers'[j] = handlers[j]
           /\ handlers'[k].to = handlers[k].to
           /\ \/ k \in {"add", "remove"} /\ FetchDetail(k)
              \/ /\ handlers'[k].step = "list"
                 /\ UNCHANGED <<detailLoading, fetches, crossed>>
<1> DEFINE h == handlers[k]
<1>0. DialogTypeOK /\ selected \in Target \cup {NoTarget}
  BY DEF DialogTypes, DialogTypeOK
<1>1. /\ k # "deploy" /\ h.step = "request" /\ h.to \in existing
      /\ form' = NoForm \/ form' = form
      /\ existing' = IF k = "delete" THEN existing \ {h.to} ELSE existing
      /\ selected' = IF k = "delete" /\ h.over = h.to THEN NoTarget ELSE selected
      /\ dialogPage' = dialogPage
      /\ \/ k \in {"add", "remove"} /\ FetchDetail(k)
         \/ /\ handlers' = [handlers EXCEPT ![k].step = "list"]
            /\ UNCHANGED <<detailLoading, fetches, crossed>>
  BY DEF Done
<1>2. h # Idle /\ h \in Handler /\ h.to \in Target
  BY <1>0, <1>1, HandlerFacts DEF Handler
<1> HIDE DEF h
<1>3. /\ handlers' \in [Kind -> {Idle} \cup Handler]
      /\ \A j \in Kind \ {k} : handlers'[j] = handlers[j]
      /\ handlers'[k].to = h.to
      /\ detailLoading' \in BOOLEAN /\ crossed' \in BOOLEAN /\ fetches' \in [Target -> Nat]
      /\ \/ k \in {"add", "remove"} /\ FetchDetail(k)
         \/ handlers'[k].step = "list" /\ UNCHANGED <<detailLoading, fetches, crossed>>
  <2>1. CASE k \in {"add", "remove"} /\ FetchDetail(k)
    BY <1>0, <1>2, <2>1, FetchDetailFacts DEF h
  <2>2. CASE /\ handlers' = [handlers EXCEPT ![k].step = "list"]
             /\ UNCHANGED <<detailLoading, fetches, crossed>>
    BY <1>0, <1>2, <2>2, MovedFacts DEF DialogTypeOK, h
  <2> QED  BY <1>1, <2>1, <2>2
<1>4. existing' \subseteq existing /\ selected' \in Target \cup {NoTarget}
  BY <1>0, <1>1
<1>5. DialogTypeOK'
  BY <1>0, <1>1, <1>3, <1>4, DialogTypesKept DEF DialogTypeOK
<1>6. GroupForm'
  BY <1>1 DEF DialogTypes, GroupForm
<1> QED  BY <1>1, <1>2, <1>3, <1>5, <1>6 DEF DialogTypes, h

LEMMA RefusedFacts ==
    ASSUME DialogTypes, NEW k \in Kind, Refused(k)
    PROVE  /\ DialogTypes'
           /\ k # "deploy" /\ handlers[k].step = "request" /\ handlers[k] # Idle
           /\ form' = NoForm \/ form' = form
           /\ \A j \in Kind \ {k} : handlers'[j] = handlers[j]
           /\ handlers'[k] = Idle
           /\ UNCHANGED <<dialogPage, existing, selected, detailLoading, fetches, crossed>>
<1>0. DialogTypeOK
  BY DEF DialogTypes
<1>1. /\ k # "deploy" /\ handlers[k].step = "request"
      /\ form' = NoForm \/ form' = form
      /\ handlers' = [handlers EXCEPT ![k] = Idle]
      /\ UNCHANGED <<dialogPage, existing, selected, detailLoading, fetches, crossed>>
  BY DEF Refused
<1>2. /\ handlers' \in [Kind -> {Idle} \cup Handler]
      /\ \A j \in Kind \ {k} : handlers'[j] = handlers[j]
      /\ handlers'[k] = Idle /\ handlers[k] # Idle
  BY <1>0, <1>1, IdledFacts, HandlerFacts
<1>3. DialogTypeOK'
  BY <1>0, <1>1, <1>2, DialogTypesKept DEF DialogTypeOK
<1>4. GroupForm'
  BY <1>1 DEF DialogTypes, GroupForm
<1> QED  BY <1>1, <1>2, <1>3, <1>4 DEF DialogTypes

LEMMA ListedFacts ==
    ASSUME DialogTypes, NEW k \in Kind, Listed(k)
    PROVE  /\ DialogTypes' /\ UNCHANGED <<dialogPage, existing, selected, form>>
           /\ handlers[k].step = "list" /\ handlers[k] # Idle
           /\ \A j \in Kind \ {k} : handlers'[j] = handlers[j]
           /\ \/ k = "rename" /\ FetchDetail(k) /\ handlers'[k].to = handlers[k].to
                 /\ handlers'[k].step = "detail"
              \/ handlers'[k] = Idle /\ UNCHANGED <<detailLoading, fetches, crossed>>
<1>0. DialogTypeOK
  BY DEF DialogTypes
<1>1. /\ handlers[k].step = "list" /\ UNCHANGED <<dialogPage, existing, selected, form>>
      /\ \/ k = "rename" /\ FetchDetail(k)
         \/ /\ handlers' = [handlers EXCEPT ![k] = Idle]
            /\ UNCHANGED <<detailLoading, fetches, crossed>>
  BY DEF Listed
<1>2. handlers[k] # Idle
  BY <1>0, <1>1, HandlerFacts
<1>3. /\ handlers' \in [Kind -> {Idle} \cup Handler]
      /\ \A j \in Kind \ {k} : handlers'[j] = handlers[j]
      /\ detailLoading' \in BOOLEAN /\ crossed' \in BOOLEAN /\ fetches' \in [Target -> Nat]
      /\ \/ k = "rename" /\ FetchDetail(k) /\ handlers'[k].to = handlers[k].to
            /\ handlers'[k].step = "detail"
         \/ handlers'[k] = Idle /\ UNCHANGED <<detailLoading, fetches, crossed>>
  <2>1. CASE k = "rename" /\ FetchDetail(k)
    BY <1>0, <1>2, <2>1, FetchDetailFacts
  <2>2. CASE /\ handlers' = [handlers EXCEPT ![k] = Idle]
             /\ UNCHANGED <<detailLoading, fetches, crossed>>
    BY <1>0, <2>2, IdledFacts DEF DialogTypeOK
  <2> QED  BY <1>1, <2>1, <2>2
<1>4. DialogTypeOK'
  BY <1>0, <1>1, <1>3, DialogTypesKept DEF DialogTypeOK
<1>5. GroupForm'
  BY <1>1 DEF DialogTypes, GroupForm
<1> QED  BY <1>1, <1>2, <1>3, <1>4, <1>5 DEF DialogTypes

LEMMA DetailAnsweredFacts ==
    ASSUME ConsoleDialogsAssumption, DialogTypes, NEW t \in Target, NEW ok \in BOOLEAN,
           DetailAnswered(t, ok)
    PROVE  /\ DialogTypes' /\ UNCHANGED <<dialogPage, existing, form, crossed>>
           /\ dialogPage = "groups"
           /\ fetches[t] > 0 /\ (ok => t \in existing)
           /\ fetches'[t] = fetches[t] - 1 /\ \A u \in Target \ {t} : fetches'[u] = fetches[u]
           /\ selected' = IF ok THEN t ELSE selected
           /\ ~detailLoading'
           /\ \/ handlers' = handlers
              \/ \E k \in Kind : /\ handlers[k].step = "detail" /\ handlers[k].to = t
                                 /\ \A j \in Kind \ {k} : handlers'[j] = handlers[j]
                                 /\ \/ handlers'[k] = Idle
                                    \/ handlers'[k].step = "list" /\ handlers'[k].to = t
<1>0. DialogTypeOK /\ fetches \in [Target -> Nat] /\ selected \in Target \cup {NoTarget}
  BY DEF DialogTypes, DialogTypeOK
<1>1. /\ dialogPage = "groups" /\ fetches[t] > 0 /\ (ok => t \in existing)
      /\ fetches' = [fetches EXCEPT ![t] = @ - 1]
      /\ selected' = IF ok THEN t ELSE selected
      /\ detailLoading' = FALSE
      /\ UNCHANGED <<dialogPage, existing, form, crossed>>
  BY DEF DetailAnswered
<1>2. /\ fetches' \in [Target -> Nat] /\ fetches'[t] = fetches[t] - 1
      /\ \A u \in Target \ {t} : fetches'[u] = fetches[u]
  BY <1>0, <1>1
<1>3. detailLoading' \in BOOLEAN /\ ~detailLoading'
  BY <1>1
<1>4. \/ handlers' = handlers
      \/ \E k \in Kind : /\ handlers[k].step = "detail" /\ handlers[k].to = t
                         /\ \/ handlers' = [handlers EXCEPT ![k] = Idle]
                            \/ handlers' = [handlers EXCEPT ![k].step = "list"]
  BY DEF DetailAnswered
<1>5. /\ handlers' \in [Kind -> {Idle} \cup Handler]
      /\ \/ handlers' = handlers
         \/ \E k \in Kind : /\ handlers[k].step = "detail" /\ handlers[k].to = t
                            /\ \A j \in Kind \ {k} : handlers'[j] = handlers[j]
                            /\ \/ handlers'[k] = Idle
                               \/ handlers'[k].step = "list" /\ handlers'[k].to = t
  <2>1. CASE handlers' = handlers
    BY <1>0, <2>1 DEF DialogTypeOK, Handler
  <2>2. ASSUME NEW k \in Kind, handlers[k].step = "detail", handlers[k].to = t,
               \/ handlers' = [handlers EXCEPT ![k] = Idle]
               \/ handlers' = [handlers EXCEPT ![k].step = "list"]
        PROVE  /\ handlers' \in [Kind -> {Idle} \cup Handler]
               /\ \A j \in Kind \ {k} : handlers'[j] = handlers[j]
               /\ \/ handlers'[k] = Idle
                  \/ handlers'[k].step = "list" /\ handlers'[k].to = t
    <3>1. handlers[k] # Idle
      BY <1>0, <2>2, HandlerFacts
    <3> QED  BY <1>0, <2>2, <3>1, IdledFacts, MovedFacts
  <2> QED  BY <1>4, <2>1, <2>2
<1>6. DialogTypeOK'
  BY <1>0, <1>1, <1>2, <1>3, <1>5, DialogTypesKept DEF DialogTypeOK
<1>7. GroupForm'
  BY <1>1 DEF DialogTypes, GroupForm
<1> QED  BY <1>1, <1>2, <1>3, <1>5, <1>6, <1>7 DEF DialogTypes

\* What the steps of the deployment write.
LEMMA SoftwareFacts ==
    ASSUME ConsoleDialogsAssumption, DialogTypes,
           \/ Search \/ OpenDeploy
           \/ \E ok \in BOOLEAN : TargetsAnswered(ok)
           \/ \E t \in Target : ChooseTarget(t)
    PROVE  /\ DialogTypes' /\ dialogPage = "software"
           /\ UNCHANGED <<dialogPage, existing, handlers>>
           /\ \/ form = NoForm /\ form' = NoForm
              \/ form'.for = selected' /\ crossed' = Awaited
                 /\ UNCHANGED fetches
              \/ form # NoForm /\ form'.for = selected' /\ UNCHANGED <<fetches, crossed>>
              \/ form' = form /\ crossed' = crossed /\ Awaited
<1>0. DialogTypeOK /\ fetches \in [Target -> Nat] /\ selected \in Target \cup {NoTarget}
      /\ existing \subseteq Target
  BY DEF DialogTypes, DialogTypeOK
<1>1. CASE Search
  <2> DEFINE t == CHOOSE t \in Target : TRUE
  <2>1. t \in Target
    BY DEF ConsoleDialogsAssumption
  <2>2. /\ dialogPage = "software" /\ form = NoForm /\ Asking(t)
        /\ UNCHANGED <<dialogPage, existing, selected, detailLoading, form, handlers, crossed>>
    BY <1>1 DEF Search
  <2> HIDE DEF t
  <2>3. fetches' \in [Target -> Nat]
    BY <1>0, <2>1, <2>2, AskingFacts
  <2>4. DialogTypeOK' /\ GroupForm'
    BY <1>0, <2>2, <2>3 DEF DialogTypeOK, DialogTypes, GroupForm
  <2> QED  BY <2>2, <2>4 DEF DialogTypes
<1>2. CASE OpenDeploy
  <2>1. /\ dialogPage = "software" /\ form' = [kind |-> "deploy", for |-> selected]
        /\ crossed' = Awaited
        /\ UNCHANGED <<dialogPage, existing, selected, detailLoading, fetches, handlers>>
    BY <1>2 DEF OpenDeploy
  <2>2. Awaited \in BOOLEAN
    BY DEF Awaited
  <2>3. crossed' \in BOOLEAN
    BY <2>1, <2>2
  <2>4. form' \in [kind: Kind, for: Target \cup {NoTarget}] /\ form'.for = selected
    BY <1>0, <2>1, KindFacts, FormFacts
  <2>5. DialogTypeOK' /\ GroupForm'
    BY <1>0, <2>1, <2>3, <2>4 DEF DialogTypeOK, GroupForm
  <2> QED  BY <2>1, <2>4, <2>5 DEF DialogTypes
<1>3. ASSUME NEW ok \in BOOLEAN, TargetsAnswered(ok)
      PROVE  /\ DialogTypes' /\ dialogPage = "software" /\ Awaited
             /\ UNCHANGED <<dialogPage, existing, handlers, form, crossed>>
  <2>1. /\ dialogPage = "software"
        /\ selected' = IF ok /\ existing # {} THEN First ELSE selected
        /\ UNCHANGED <<dialogPage, existing, detailLoading, form, handlers, crossed>>
    BY <1>3 DEF TargetsAnswered
  <2>2. PICK t \in Target : fetches[t] > 0 /\ fetches' = [fetches EXCEPT ![t] = @ - 1]
    BY <1>3 DEF TargetsAnswered
  <2>3. fetches' \in [Target -> Nat] /\ Awaited
    BY <1>0, <2>2 DEF Awaited
  <2>4. selected' \in Target \cup {NoTarget}
    BY <1>0, <2>1, FirstFacts
  <2>5. DialogTypeOK' /\ GroupForm'
    BY <1>0, <2>1, <2>3, <2>4 DEF DialogTypeOK, DialogTypes, GroupForm
  <2> QED  BY <2>1, <2>3, <2>5 DEF DialogTypes
<1>4. ASSUME NEW t \in Target, ChooseTarget(t)
      PROVE  /\ DialogTypes' /\ dialogPage = "software" /\ form # NoForm /\ form'.for = selected'
             /\ UNCHANGED <<dialogPage, existing, handlers, fetches, crossed>>
  <2>1. /\ dialogPage = "software" /\ form # NoForm /\ selected' = t
        /\ form' = [form EXCEPT !.for = t]
        /\ UNCHANGED <<dialogPage, existing, detailLoading, fetches, handlers, crossed>>
    BY <1>4 DEF ChooseTarget
  <2>2. form \in [kind: Kind, for: Target \cup {NoTarget}]
    BY <1>0, <2>1 DEF DialogTypeOK
  <2>3. form' \in [kind: Kind, for: Target \cup {NoTarget}] /\ form'.for = t
    BY <2>1, <2>2
  <2>4. DialogTypeOK' /\ GroupForm'
    BY <1>0, <2>1, <2>3 DEF DialogTypeOK, GroupForm
  <2> QED  BY <2>1, <2>3, <2>4 DEF DialogTypes
<1> QED  BY <1>1, <1>2, <1>3, <1>4

\* A dialog is closed, the deployment answered, a group deleted by others.
LEMMA OtherFacts ==
    ASSUME DialogTypes,
           \/ CloseDialog
           \/ \E ok \in BOOLEAN : DeployAnswered(ok)
           \/ \E t \in Target : Vanish(t)
    PROVE  /\ DialogTypes' /\ UNCHANGED <<dialogPage, selected, detailLoading, fetches, crossed>>
           /\ (form' = NoForm \/ form' = form) /\ existing' \subseteq existing
           /\ \/ handlers' = handlers
              \/ /\ handlers["deploy"] # Idle
                 /\ \A j \in Kind \ {"deploy"} : handlers'[j] = handlers[j]
<1>0. DialogTypeOK
  BY DEF DialogTypes
<1>1. /\ UNCHANGED <<dialogPage, selected, detailLoading, fetches, crossed>>
      /\ form' = NoForm \/ form' = form
      /\ existing' \subseteq existing
  BY DEF CloseDialog, DeployAnswered, Vanish
<1>2. \/ handlers' = handlers
      \/ handlers["deploy"] # Idle /\ handlers' = [handlers EXCEPT !["deploy"] = Idle]
  BY DEF CloseDialog, DeployAnswered, Vanish
<1>3. /\ handlers' \in [Kind -> {Idle} \cup Handler]
      /\ \/ handlers' = handlers
         \/ handlers["deploy"] # Idle /\ \A j \in Kind \ {"deploy"} : handlers'[j] = handlers[j]
  BY <1>0, <1>2, KindFacts, IdledFacts DEF DialogTypeOK, Handler
<1>4. DialogTypeOK'
  BY <1>0, <1>1, <1>3, DialogTypesKept DEF DialogTypeOK
<1>5. GroupForm'
  BY <1>1 DEF DialogTypes, GroupForm
<1> QED  BY <1>1, <1>3, <1>4, <1>5 DEF DialogTypes

\* What a dialog or a handler stands for is on show, or is gone with nothing on show.
On(t) == t = selected \/ (selected = NoTarget /\ t \notin existing)

\* While the requests of the groups page have not overlapped, one detail is awaited
\* at most, for a handler or for nothing else; every dialog and every handler is for
\* the group on show; and a deletion was sent while its group was.
OneDetail ==
    /\ \A t, u \in Target : fetches[t] > 0 /\ fetches[u] > 0 => t = u
    /\ \A t \in Target : fetches[t] \in {0, 1}
    /\ Awaited => detailLoading
ShownFor ==
    /\ form # NoForm => On(form.for)
    /\ \A k \in Kind : handlers[k] # Idle => On(handlers[k].to)
DeleteOver ==
    handlers["delete"].step = "request" =>
        handlers["delete"].over = handlers["delete"].to \/ handlers["delete"].to \notin existing
DetailFor ==
    \A t \in Target : fetches[t] > 0 =>
        \/ form = NoForm /\ \A k \in Kind : handlers[k] = Idle
        \/ \E k \in Kind : handlers[k].step = "detail" /\ handlers[k].to = t
InStep == OneDetail /\ ShownFor /\ DeleteOver /\ DetailFor
GroupsInv == dialogPage = "groups" => handlers["deploy"] = Idle /\ (~crossed => InStep)

\* The dialog of the deployment is for the target that is selected, unless the
\* targets were awaited when it was opened.
SoftwareInv == dialogPage = "software" =>
    /\ \A k \in Kind \ {"deploy"} : handlers[k] = Idle
    /\ form # NoForm /\ ~crossed => ~Awaited /\ form.for = selected

DialogInv == DialogTypes /\ GroupsInv /\ SoftwareInv

\* The only request of the page is for the detail of a handler.
LEMMA FetchAlone ==
    ASSUME DialogTypes, InStep, NEW k \in Kind, k # "delete", handlers[k] # Idle, FetchDetail(k),
           UNCHANGED <<existing, selected>>, form' = NoForm \/ form' = form, ~crossed'
    PROVE  InStep'
<1> DEFINE to == handlers[k].to
<1>0. DialogTypeOK /\ fetches \in [Target -> Nat] /\ "delete" \in Kind
  BY KindFacts DEF DialogTypes, DialogTypeOK
<1>1. /\ \A j \in Kind \ {k} : handlers'[j] = handlers[j] /\ handlers[j] = Idle
      /\ handlers'[k].step = "detail" /\ handlers'[k].to = to /\ to \in Target
      /\ fetches'[to] = fetches[to] + 1
      /\ \A u \in Target \ {to} : fetches'[u] = fetches[u]
      /\ detailLoading' /\ ~Awaited
  BY <1>0, FetchDetailFacts
<1>2. \A u \in Target : fetches[u] = 0
  BY <1>0, <1>1 DEF Awaited
<1> HIDE DEF to
<1>3. OneDetail'
  BY <1>1, <1>2 DEF OneDetail, Awaited
<1>4. \A t : On(t)' <=> On(t)
  BY DEF On
<1>5. ShownFor'
  BY <1>1, <1>4 DEF ShownFor, InStep, to
<1>6. DeleteOver'
  BY <1>0, <1>1 DEF DeleteOver, InStep
<1>7. DetailFor'
  BY <1>1, <1>2 DEF DetailFor
<1> QED  BY <1>3, <1>5, <1>6, <1>7 DEF InStep

\* A handler that was not awaiting a detail goes on to the list, or is done.
LEMMA HandlerMoves ==
    ASSUME DialogTypes, InStep, NEW k \in Kind, handlers[k] # Idle, handlers[k].step # "detail",
           \A j \in Kind \ {k} : handlers'[j] = handlers[j],
           \/ handlers'[k] = Idle
           \/ handlers'[k].step = "list" /\ handlers'[k].to = handlers[k].to,
           UNCHANGED <<detailLoading, fetches>>, form' = NoForm \/ form' = form,
           existing' \subseteq existing, \A t \in Target \cup {NoTarget} : On(t) => On(t)'
    PROVE  InStep'
<1>0. "delete" \in Kind /\ Idle.step = "idle"
  BY KindFacts DEF Idle
<1>1. \A j \in Kind : handlers[j] # Idle => handlers[j].to \in Target
  BY HandlerFacts DEF DialogTypes, Handler
<1>2. form # NoForm => form.for \in Target \cup {NoTarget}
  BY FormFacts DEF DialogTypes
<1>3. OneDetail'
  BY DEF OneDetail, InStep, Awaited
<1>4. ShownFor'
  BY <1>1, <1>2 DEF ShownFor, InStep
<1>5. DeleteOver'
  BY <1>0 DEF DeleteOver, InStep
<1>6. ASSUME NEW t \in Target, fetches[t] > 0
      PROVE  \E j \in Kind : handlers'[j].step = "detail" /\ handlers'[j].to = t
  <2>1. PICK j \in Kind : handlers[j].step = "detail" /\ handlers[j].to = t
    BY <1>6 DEF DetailFor, InStep
  <2> QED  BY <2>1
<1>7. DetailFor'
  BY <1>6 DEF DetailFor
<1> QED  BY <1>3, <1>4, <1>5, <1>7 DEF InStep

LEMMA InStepOpen ==
    ASSUME ConsoleDialogsAssumption, DialogTypes, dialogPage = "groups",
           \/ \E t \in Target : OpenDetail(t)
           \/ \E kind \in GroupDialog : OpenDialog(kind),
           ~crossed => InStep, ~crossed'
    PROVE  InStep'
<1>0. fetches \in [Target -> Nat] /\ "delete" \in Kind /\ Idle.step = "idle"
  BY KindFacts DEF DialogTypes, DialogTypeOK, Idle
<1>1. ASSUME NEW t \in Target, OpenDetail(t) PROVE InStep'
  <2>1. /\ form' = NoForm /\ handlers' = handlers /\ detailLoading'
        /\ fetches'[t] = fetches[t] + 1 /\ \A u \in Target \ {t} : fetches'[u] = fetches[u]
        /\ ~Awaited /\ \A k \in Kind : handlers[k] = Idle
    BY <1>1, OpenDetailFacts
  <2>2. \A u \in Target : fetches[u] = 0
    BY <1>0, <2>1 DEF Awaited
  <2>3. OneDetail'
    BY <2>1, <2>2 DEF OneDetail, Awaited
  <2>4. ShownFor' /\ DeleteOver' /\ DetailFor'
    BY <1>0, <2>1 DEF ShownFor, DeleteOver, DetailFor
  <2> QED  BY <2>3, <2>4 DEF InStep
<1>2. ASSUME NEW kind \in GroupDialog, OpenDialog(kind) PROVE InStep'
  <2>1. /\ form'.for = selected /\ ~detailLoading
        /\ UNCHANGED <<dialogPage, existing, selected, detailLoading, fetches, handlers, crossed>>
    BY <1>2, OpenDialogFacts
  <2>2. InStep
    BY <2>1
  <2>3. ~Awaited
    BY <2>1, <2>2 DEF InStep, OneDetail
  <2>4. OneDetail' /\ DeleteOver'
    BY <2>1, <2>2 DEF InStep, OneDetail, DeleteOver, Awaited
  <2>5. ShownFor'
    BY <2>1, <2>2 DEF InStep, ShownFor, On
  <2>6. DetailFor'
    BY <2>1, <2>3 DEF DetailFor, Awaited
  <2> QED  BY <2>4, <2>5, <2>6 DEF InStep
<1> QED  BY <1>1, <1>2

LEMMA InStepStart ==
    ASSUME DialogTypes, InStep, dialogPage = "groups", Submit \/ RemoveMember \/ Deploy
    PROVE  InStep'
<1>0. "delete" \in Kind /\ Idle.step = "idle"
  BY KindFacts DEF Idle
<1>1. /\ UNCHANGED <<dialogPage, existing, selected, detailLoading, fetches, form, crossed>>
      /\ \E k \in Kind :
            /\ handlers[k] = Idle
            /\ \A j \in Kind \ {k} : handlers'[j] = handlers[j]
            /\ handlers'[k].step = "request" /\ handlers'[k].over = selected
            /\ \/ /\ form # NoForm
                  /\ handlers'[k].to = IF k = "delete" THEN form.for ELSE selected
               \/ /\ k # "delete"
                  /\ ~detailLoading /\ handlers'[k].to = selected
  BY StartFacts
<1>2. PICK k \in Kind :
            /\ handlers[k] = Idle
            /\ \A j \in Kind \ {k} : handlers'[j] = handlers[j]
            /\ handlers'[k].step = "request" /\ handlers'[k].over = selected
            /\ \/ /\ form # NoForm
                  /\ handlers'[k].to = IF k = "delete" THEN form.for ELSE selected
               \/ /\ k # "delete"
                  /\ ~detailLoading /\ handlers'[k].to = selected
  BY <1>1
<1>3. OneDetail'
  BY <1>1 DEF OneDetail, InStep, Awaited
<1>4. \A t : On(t)' <=> On(t)
  BY <1>1 DEF On
<1>5. On(handlers'[k].to)
  BY <1>2 DEF InStep, ShownFor, On
<1>6. ShownFor'
  BY <1>1, <1>2, <1>4, <1>5 DEF InStep, ShownFor
<1>7. DeleteOver'
  BY <1>0, <1>1, <1>2, <1>5 DEF InStep, DeleteOver, On
<1>8. ASSUME NEW t \in Target, fetches[t] > 0
      PROVE  \E j \in Kind : handlers'[j].step = "detail" /\ handlers'[j].to = t
  <2>1. form # NoForm
    BY <1>2, <1>8 DEF InStep, OneDetail, Awaited
  <2>2. PICK j \in Kind : handlers[j].step = "detail" /\ handlers[j].to = t
    BY <1>8, <2>1 DEF InStep, DetailFor
  <2> QED  BY <1>0, <1>2, <2>2
<1>9. DetailFor'
  BY <1>1, <1>8 DEF DetailFor
<1> QED  BY <1>3, <1>6, <1>7, <1>9 DEF InStep

LEMMA InStepHandlers ==
    ASSUME ConsoleDialogsAssumption, DialogTypes, InStep, ~crossed', NEW k \in Kind, Done(k) \/ Refused(k) \/ Listed(k)
    PROVE  InStep'
<1>0. \A j \in Kind : handlers[j] # Idle => handlers[j] \in Handler /\ handlers[j].to \in Target
  BY HandlerFacts DEF DialogTypes, Handler
<1>2. ASSUME Done(k) PROVE InStep'
  <2>1. /\ k # "deploy" /\ handlers[k] \in Handler /\ handlers[k].step = "request"
        /\ handlers[k].to \in existing
        /\ form' = NoForm \/ form' = form
        /\ existing' = IF k = "delete" THEN existing \ {handlers[k].to} ELSE existing
        /\ selected' = IF k = "delete" /\ handlers[k].over = handlers[k].to
                       THEN NoTarget ELSE selected
        /\ \A j \in Kind \ {k} : handlers'[j] = handlers[j]
        /\ handlers'[k].to = handlers[k].to
        /\ \/ k \in {"add", "remove"} /\ FetchDetail(k)
           \/ handlers'[k].step = "list" /\ UNCHANGED <<detailLoading, fetches, crossed>>
    BY <1>2, DoneFacts
  <2>2. handlers[k] # Idle
    BY <2>1 DEF Idle
  <2>3. handlers[k].to = selected
    BY <2>1, <2>2 DEF InStep, ShownFor, On
  <2>4. CASE k \in {"add", "remove"} /\ FetchDetail(k)
    <3>1. k # "delete"
      BY <2>4
    <3> QED  BY <2>1, <2>2, <2>4, <3>1, FetchAlone
  <2>5. CASE handlers'[k].step = "list" /\ UNCHANGED <<detailLoading, fetches, crossed>>
    <3>1. ASSUME NEW t \in Target \cup {NoTarget}, On(t) PROVE On(t)'
      <4>1. CASE k = "delete"
        <5>1. handlers[k].over = handlers[k].to
          BY <2>1, <4>1 DEF InStep, DeleteOver
        <5>2. selected' = NoTarget /\ selected \notin existing'
          BY <2>1, <2>3, <4>1, <5>1
        <5>3. t = selected
          BY <1>0, <2>2, <2>3, <3>1 DEF On, ConsoleDialogsAssumption
        <5> QED  BY <5>2, <5>3 DEF On
      <4>2. CASE k # "delete"
        BY <2>1, <3>1, <4>2 DEF On
      <4> QED  BY <4>1, <4>2
    <3>2. existing' \subseteq existing
      BY <2>1
    <3> QED  BY <2>1, <2>2, <2>5, <3>1, <3>2, HandlerMoves
  <2> QED  BY <2>1, <2>4, <2>5
<1>3. ASSUME Refused(k) PROVE InStep'
  <2>1. /\ handlers[k].step = "request" /\ handlers[k] # Idle /\ handlers'[k] = Idle
        /\ form' = NoForm \/ form' = form
        /\ \A j \in Kind \ {k} : handlers'[j] = handlers[j]
        /\ UNCHANGED <<dialogPage, existing, selected, detailLoading, fetches, crossed>>
    BY <1>3, RefusedFacts
  <2>2. \A t \in Target \cup {NoTarget} : On(t) => On(t)'
    BY <2>1 DEF On
  <2> QED  BY <2>1, <2>2, HandlerMoves
<1>4. ASSUME Listed(k) PROVE InStep'
  <2>1. /\ UNCHANGED <<dialogPage, existing, selected, form>>
        /\ handlers[k].step = "list" /\ handlers[k] # Idle
        /\ \A j \in Kind \ {k} : handlers'[j] = handlers[j]
        /\ \/ k = "rename" /\ FetchDetail(k)
           \/ handlers'[k] = Idle /\ UNCHANGED <<detailLoading, fetches, crossed>>
    BY <1>4, ListedFacts
  <2>2. \A t \in Target \cup {NoTarget} : On(t) => On(t)'
    BY <2>1 DEF On
  <2>3. CASE k = "rename" /\ FetchDetail(k)
    <3>1. k # "delete"
      BY <2>3
    <3> QED  BY <2>1, <2>3, <3>1, FetchAlone
  <2>4. CASE handlers'[k] = Idle /\ UNCHANGED <<detailLoading, fetches, crossed>>
    BY <2>1, <2>2, <2>4, HandlerMoves
  <2> QED  BY <2>1, <2>3, <2>4
<1> QED  BY <1>2, <1>3, <1>4

LEMMA InStepAnswered ==
    ASSUME ConsoleDialogsAssumption, DialogTypes, InStep, NEW t \in Target, NEW ok \in BOOLEAN,
           DetailAnswered(t, ok)
    PROVE  InStep'
<1>0. fetches \in [Target -> Nat] /\ Idle.step = "idle" /\ "delete" \in Kind
  BY KindFacts DEF DialogTypes, DialogTypeOK, Idle
<1>1. /\ UNCHANGED <<dialogPage, existing, form, crossed>>
      /\ fetches[t] > 0 /\ (ok => t \in existing)
      /\ fetches'[t] = fetches[t] - 1 /\ \A u \in Target \ {t} : fetches'[u] = fetches[u]
      /\ selected' = IF ok THEN t ELSE selected
      /\ \/ handlers' = handlers
         \/ \E k \in Kind : /\ handlers[k].step = "detail" /\ handlers[k].to = t
                            /\ \A j \in Kind \ {k} : handlers'[j] = handlers[j]
                            /\ \/ handlers'[k] = Idle
                               \/ handlers'[k].step = "list" /\ handlers'[k].to = t
  BY DetailAnsweredFacts
<1>2. fetches[t] = 1 /\ \A u \in Target \ {t} : fetches[u] = 0
  <2>1. \A u \in Target : fetches[u] \in {0, 1} /\ (fetches[u] > 0 => u = t)
    BY <1>1 DEF InStep, OneDetail
  <2>2. fetches[t] = 1
    BY <1>1, <2>1
  <2>3. ASSUME NEW u \in Target \ {t} PROVE fetches[u] = 0
    <3>1. fetches[u] \in {0, 1} /\ ~(fetches[u] > 0)
      BY <2>1
    <3> QED  BY <3>1
  <2> QED  BY <2>2, <2>3
<1>3. \A u \in Target : fetches'[u] = 0
  BY <1>1, <1>2
<1>4. OneDetail' /\ DetailFor'
  BY <1>3 DEF OneDetail, DetailFor, Awaited
<1>5. CASE form = NoForm /\ \A k \in Kind : handlers[k] = Idle
  <2>1. handlers' = handlers
    BY <1>0, <1>1, <1>5
  <2>2. ShownFor' /\ DeleteOver'
    BY <1>0, <1>1, <1>5, <2>1 DEF ShownFor, DeleteOver
  <2> QED  BY <1>4, <2>2 DEF InStep
<1>6. ASSUME NEW k \in Kind, handlers[k].step = "detail", handlers[k].to = t PROVE InStep'
  <2>1. handlers[k] # Idle
    BY <1>0, <1>6
  <2>2. On(t)
    BY <1>6, <2>1 DEF InStep, ShownFor
  <2>3. selected' = selected
    BY <1>1, <2>2 DEF On
  <2>4. \A u : On(u)' <=> On(u)
    BY <1>1, <2>3 DEF On
  <2>5. ASSUME NEW j \in Kind, handlers'[j] # Idle
        PROVE  handlers[j] # Idle /\ handlers'[j].to = handlers[j].to
               /\ (handlers'[j].step = "request" => handlers'[j] = handlers[j])
    BY <1>0, <1>1, <2>5
  <2>6. ShownFor'
    BY <1>1, <2>4, <2>5 DEF InStep, ShownFor
  <2>7. DeleteOver'
    BY <1>0, <1>1, <2>5 DEF InStep, DeleteOver
  <2> QED  BY <1>4, <2>6, <2>7 DEF InStep
<1> QED  BY <1>1, <1>5, <1>6 DEF InStep, DetailFor

LEMMA InStepOther ==
    ASSUME DialogTypes, InStep, handlers' = handlers, existing' \subseteq existing,
           form' = NoForm \/ form' = form, UNCHANGED <<selected, detailLoading, fetches>>
    PROVE  InStep'
<1>1. \A t : On(t) => On(t)'
  BY DEF On
<1>2. OneDetail' /\ ShownFor' /\ DeleteOver'
  BY <1>1 DEF InStep, OneDetail, ShownFor, DeleteOver, Awaited
<1>3. DetailFor'
  BY DEF InStep, DetailFor
<1> QED  BY <1>2, <1>3 DEF InStep

LEMMA DialogInvInit ==
    ASSUME ConsoleDialogsAssumption, DialogInit
    PROVE  DialogInv
<1>0. Idle.step = "idle" /\ "deploy" \in Kind /\ "delete" \in Kind
  BY KindFacts DEF Idle
<1>1. /\ dialogPage \in {"groups", "software"} /\ existing = Target /\ selected = NoTarget
      /\ detailLoading = FALSE /\ form = NoForm /\ handlers = [k \in Kind |-> Idle]
      /\ crossed = FALSE
      /\ fetches = [t \in Target |-> IF dialogPage = "software" /\ t = CHOOSE u \in Target : TRUE
                                     THEN 1 ELSE 0]
  BY DEF DialogInit
<1>2. detailLoading \in BOOLEAN
  BY <1>1
<1>3. crossed \in BOOLEAN
  BY <1>1
<1>4. fetches \in [Target -> Nat] /\ (dialogPage = "groups" => \A t \in Target : fetches[t] = 0)
  BY <1>1
<1>5. DialogTypes
  BY <1>1, <1>2, <1>3, <1>4 DEF DialogTypes, DialogTypeOK, GroupForm
<1>6. ASSUME dialogPage = "groups" PROVE handlers["deploy"] = Idle /\ InStep
  BY <1>0, <1>1, <1>4, <1>6 DEF InStep, OneDetail, ShownFor, DeleteOver, DetailFor, Awaited
<1>7. SoftwareInv
  BY <1>1 DEF SoftwareInv
<1> QED  BY <1>5, <1>6, <1>7 DEF DialogInv, GroupsInv

LEMMA GroupsStep ==
    ASSUME ConsoleDialogsAssumption, DialogInv, DialogNext
    PROVE  DialogTypes' /\ GroupsInv'
<1>0. DialogTypes /\ "deploy" \in Kind /\ Idle.step = "idle"
      /\ (dialogPage = "groups" => handlers["deploy"] = Idle /\ (~crossed => InStep))
  BY KindFacts DEF DialogInv, GroupsInv, Idle
<1>1. ASSUME \/ \E t \in Target : OpenDetail(t)
             \/ \E kind \in GroupDialog : OpenDialog(kind)
      PROVE  DialogTypes' /\ GroupsInv'
  <2>1. DialogTypes' /\ UNCHANGED <<dialogPage, handlers>>
    BY <1>0, <1>1, OpenDetailFacts, OpenDialogFacts
  <2> QED  BY <1>0, <1>1, <2>1, InStepOpen DEF GroupsInv
<1>2. ASSUME Submit \/ RemoveMember \/ Deploy PROVE DialogTypes' /\ GroupsInv'
  <2>1. /\ DialogTypes' /\ UNCHANGED <<dialogPage, crossed>>
        /\ dialogPage = "groups" => handlers'["deploy"] = handlers["deploy"]
    BY <1>0, <1>2, StartFacts
  <2> QED  BY <1>0, <1>2, <2>1, InStepStart DEF GroupsInv
<1>3. ASSUME NEW k \in Kind, Done(k) \/ Refused(k) \/ Listed(k) PROVE DialogTypes' /\ GroupsInv'
  <2>1. DialogTypes' /\ dialogPage' = dialogPage /\ handlers[k] # Idle
        /\ \A j \in Kind \ {k} : handlers'[j] = handlers[j]
    BY <1>0, <1>3, DoneFacts, RefusedFacts, ListedFacts
  <2>2. ~crossed' => ~crossed
    <3>1. crossed' = crossed \/ FetchDetail(k)
      BY <1>0, <1>3, DoneFacts, RefusedFacts, ListedFacts
    <3> QED  BY <1>0, <2>1, <3>1, FetchDetailFacts DEF DialogTypes
  <2> QED  BY <1>0, <1>3, <2>1, <2>2, InStepHandlers DEF GroupsInv
<1>4. ASSUME NEW t \in Target, NEW ok \in BOOLEAN, DetailAnswered(t, ok)
      PROVE  DialogTypes' /\ GroupsInv'
  <2>1. DialogTypes' /\ UNCHANGED <<dialogPage, crossed>>
    BY <1>0, <1>4, DetailAnsweredFacts
  <2>2. dialogPage = "groups" => handlers'["deploy"] = Idle
    BY <1>0, <1>4, DetailAnsweredFacts
  <2> QED  BY <1>0, <1>4, <2>1, <2>2, InStepAnswered DEF GroupsInv
<1>5. ASSUME \/ Search \/ OpenDeploy
             \/ \E ok \in BOOLEAN : TargetsAnswered(ok)
             \/ \E t \in Target : ChooseTarget(t)
      PROVE  DialogTypes' /\ GroupsInv'
  BY <1>0, <1>5, SoftwareFacts DEF GroupsInv
<1>6. ASSUME \/ CloseDialog
             \/ \E ok \in BOOLEAN : DeployAnswered(ok)
             \/ \E t \in Target : Vanish(t)
      PROVE  DialogTypes' /\ GroupsInv'
  BY <1>0, <1>6, OtherFacts, InStepOther DEF GroupsInv
<1> QED  BY <1>1, <1>2, <1>3, <1>4, <1>5, <1>6 DEF DialogNext, GroupsNext, SoftwareNext

LEMMA SoftwareStep ==
    ASSUME ConsoleDialogsAssumption, DialogInv, DialogNext
    PROVE  SoftwareInv'
<1>0. DialogTypes /\ "deploy" \in Kind /\ Idle.step = "idle"
      /\ (dialogPage = "software" =>
            /\ \A k \in Kind \ {"deploy"} : handlers[k] = Idle
            /\ form # NoForm /\ ~crossed => ~Awaited /\ form.for = selected)
  BY KindFacts DEF DialogInv, SoftwareInv, Idle
<1>1. ASSUME \/ \E t \in Target : OpenDetail(t)
             \/ \E kind \in GroupDialog : OpenDialog(kind)
             \/ Submit \/ RemoveMember
             \/ \E t \in Target, ok \in BOOLEAN : DetailAnswered(t, ok)
      PROVE  SoftwareInv'
  <2>1. dialogPage = "groups" /\ dialogPage' = dialogPage
    BY <1>1 DEF OpenDetail, OpenDialog, Submit, RemoveMember, DetailAnswered
  <2> QED  BY <2>1 DEF SoftwareInv
<1>2. CASE Deploy
  <2>1. /\ dialogPage = "software"
        /\ handlers' = [handlers EXCEPT !["deploy"] = handlers'["deploy"]]
        /\ UNCHANGED <<dialogPage, selected, fetches, form, crossed>>
    BY <1>2 DEF Deploy, Sent
  <2>2. Awaited' <=> Awaited
    BY <2>1 DEF Awaited
  <2>3. \A k \in Kind \ {"deploy"} : handlers'[k] = handlers[k]
    BY <1>0, <2>1, HandlerFacts DEF DialogTypes
  <2> QED  BY <1>0, <2>1, <2>2, <2>3 DEF SoftwareInv
<1>3. ASSUME NEW k \in Kind, Done(k) \/ Refused(k) \/ Listed(k) PROVE SoftwareInv'
  <2>1. /\ dialogPage' = dialogPage /\ handlers[k] # Idle
        /\ \A j \in Kind \ {k} : handlers'[j] = handlers[j]
        /\ k # "deploy" \/ (handlers'[k] = Idle /\ UNCHANGED <<selected, form, fetches, crossed>>)
    BY <1>0, <1>3, DoneFacts, RefusedFacts, ListedFacts
  <2>2. CASE dialogPage = "groups"
    BY <2>1, <2>2 DEF SoftwareInv
  <2>3. CASE dialogPage = "software"
    <3>1. k = "deploy"
      BY <1>0, <2>1, <2>3
    <3>2. handlers'["deploy"] = Idle /\ UNCHANGED <<selected, form, fetches, crossed>>
      BY <2>1, <3>1
    <3>3. Awaited' <=> Awaited
      BY <3>2 DEF Awaited
    <3>4. \A j \in Kind \ {"deploy"} : handlers'[j] = Idle
      BY <1>0, <2>1, <2>3, <3>1
    <3> QED  BY <1>0, <2>3, <3>2, <3>3, <3>4 DEF SoftwareInv
  <2> QED  BY <1>0, <2>2, <2>3 DEF DialogTypes, DialogTypeOK
<1>4. ASSUME \/ Search \/ OpenDeploy
             \/ \E ok \in BOOLEAN : TargetsAnswered(ok)
             \/ \E t \in Target : ChooseTarget(t)
      PROVE  SoftwareInv'
  <2>1. /\ dialogPage = "software" /\ UNCHANGED <<dialogPage, existing, handlers>>
        /\ \/ form = NoForm /\ form' = NoForm
           \/ form'.for = selected' /\ crossed' = Awaited /\ UNCHANGED fetches
           \/ form # NoForm /\ form'.for = selected' /\ UNCHANGED <<fetches, crossed>>
           \/ form' = form /\ crossed' = crossed /\ Awaited
    BY <1>0, <1>4, SoftwareFacts
  <2>2. fetches' = fetches => (Awaited' <=> Awaited)
    BY DEF Awaited
  <2> QED  BY <1>0, <2>1, <2>2 DEF SoftwareInv
<1>5. ASSUME \/ CloseDialog
             \/ \E ok \in BOOLEAN : DeployAnswered(ok)
             \/ \E t \in Target : Vanish(t)
      PROVE  SoftwareInv'
  <2>1. /\ UNCHANGED <<dialogPage, selected, fetches, crossed>>
        /\ form' = NoForm \/ form' = form
        /\ \A j \in Kind \ {"deploy"} : handlers'[j] = handlers[j]
    BY <1>0, <1>5, OtherFacts
  <2>2. Awaited' <=> Awaited
    BY <2>1 DEF Awaited
  <2> QED  BY <1>0, <2>1, <2>2 DEF SoftwareInv
<1> QED  BY <1>1, <1>2, <1>3, <1>4, <1>5 DEF DialogNext, GroupsNext, SoftwareNext

LEMMA DialogInvStep ==
    ASSUME ConsoleDialogsAssumption, DialogInv, [DialogNext]_dialogVars
    PROVE  DialogInv'
<1>1. CASE DialogNext
  BY <1>1, GroupsStep, SoftwareStep DEF DialogInv
<1>2. CASE UNCHANGED dialogVars
  <2>1. /\ UNCHANGED <<dialogPage, existing, selected, detailLoading, fetches, form, handlers,
                       crossed>>
    BY <1>2 DEF dialogVars
  <2>2. DialogTypes'
    BY <2>1 DEF DialogInv, DialogTypes, DialogTypeOK, GroupForm
  <2>3. \A t : On(t)' <=> On(t)
    BY <2>1 DEF On
  <2>4. InStep' <=> InStep
    BY <2>1, <2>3 DEF InStep, OneDetail, ShownFor, DeleteOver, DetailFor, Awaited
  <2>5. GroupsInv' /\ SoftwareInv'
    BY <2>1, <2>4 DEF DialogInv, GroupsInv, SoftwareInv, Awaited
  <2> QED  BY <2>2, <2>5 DEF DialogInv
<1> QED  BY <1>1, <1>2

\* Only a dialog or a button starts a handler, and it is meant for what it is sent to.
Hits == \A k \in Kind : handlers[k] = Idle /\ handlers'[k] # Idle =>
            handlers'[k].to = handlers'[k].meant \/ crossed

LEMMA HitsStep ==
    ASSUME ConsoleDialogsAssumption, DialogInv, DialogNext
    PROVE  Hits
<1>0. DialogTypes /\ "deploy" \in Kind /\ Idle.step = "idle"
  BY KindFacts DEF DialogInv, Idle
<1>1. CASE Submit \/ RemoveMember \/ Deploy
  <2>1. \E k \in Kind :
          /\ \A j \in Kind \ {k} : handlers'[j] = handlers[j]
          /\ \/ /\ dialogPage = "groups" /\ form # NoForm
                /\ handlers'[k].meant = form.for
                /\ handlers'[k].to = IF k = "delete" THEN form.for ELSE selected
                /\ k = "delete" \/ selected # NoTarget
             \/ handlers'[k].meant = selected /\ handlers'[k].to = selected
             \/ /\ dialogPage = "software" /\ form # NoForm
                /\ handlers'[k].meant = form.for /\ handlers'[k].to = selected
    BY <1>0, <1>1, StartFacts
  <2>2. PICK k \in Kind :
          /\ \A j \in Kind \ {k} : handlers'[j] = handlers[j]
          /\ \/ /\ dialogPage = "groups" /\ form # NoForm
                /\ handlers'[k].meant = form.for
                /\ handlers'[k].to = IF k = "delete" THEN form.for ELSE selected
                /\ k = "delete" \/ selected # NoTarget
             \/ handlers'[k].meant = selected /\ handlers'[k].to = selected
             \/ /\ dialogPage = "software" /\ form # NoForm
                /\ handlers'[k].meant = form.for /\ handlers'[k].to = selected
    BY <2>1
  <2>3. handlers'[k].to = handlers'[k].meant \/ crossed
    BY <2>2 DEF DialogInv, GroupsInv, SoftwareInv, InStep, ShownFor, On
  <2> QED  BY <2>2, <2>3 DEF Hits
<1>2. ASSUME NEW k \in Kind, Done(k) \/ Refused(k) \/ Listed(k) PROVE Hits
  <2>1. handlers[k] # Idle /\ \A j \in Kind \ {k} : handlers'[j] = handlers[j]
    BY <1>0, <1>2, DoneFacts, RefusedFacts, ListedFacts
  <2> QED  BY <2>1 DEF Hits
<1>3. ASSUME NEW t \in Target, NEW ok \in BOOLEAN, DetailAnswered(t, ok) PROVE Hits
  <2>1. \/ handlers' = handlers
        \/ \E k \in Kind : /\ handlers[k].step = "detail"
                           /\ \A j \in Kind \ {k} : handlers'[j] = handlers[j]
    BY <1>0, <1>3, DetailAnsweredFacts
  <2>2. \A k \in Kind : handlers[k].step = "detail" => handlers[k] # Idle
    BY DEF Idle
  <2> QED  BY <2>1, <2>2 DEF Hits
<1>4. CASE \/ \E t \in Target : OpenDetail(t)
           \/ \E kind \in GroupDialog : OpenDialog(kind)
           \/ Search \/ OpenDeploy
           \/ \E ok \in BOOLEAN : TargetsAnswered(ok)
           \/ \E t \in Target : ChooseTarget(t)
  <2>1. handlers' = handlers
    BY <1>4 DEF OpenDetail, OpenDialog, Search, OpenDeploy, TargetsAnswered, ChooseTarget
  <2> QED  BY <2>1 DEF Hits
<1>5. CASE \/ CloseDialog
           \/ \E ok \in BOOLEAN : DeployAnswered(ok)
           \/ \E t \in Target : Vanish(t)
  BY <1>0, <1>5, OtherFacts DEF Hits
<1> QED  BY <1>1, <1>2, <1>3, <1>4, <1>5 DEF DialogNext, GroupsNext, SoftwareNext

-----------------------------------------------------------------------------
(* The pages together *)

PagesInv == ListInv /\ DialogInv

LEMMA PagesInvInit ==
    ASSUME ConsoleListAssumption, NoneAssumption, ConsoleDialogsAssumption, PagesInit
    PROVE  PagesInv
  BY ListInvInit, DialogInvInit DEF PagesInit, PagesInv

LEMMA PagesInvStep ==
    ASSUME ConsoleListAssumption, NoneAssumption, ConsoleDialogsAssumption, PagesInv,
           [PagesNext]_pagesVars
    PROVE  PagesInv'
<1>1. [ListNext]_listVars /\ [DialogNext]_dialogVars
  BY DEF PagesNext, pagesVars
<1> QED  BY <1>1, ListInvStep, DialogInvStep DEF PagesInv

THEOREM PagesInvariant == PagesSpec => []PagesInv
<1>1. PagesInit => PagesInv
  BY ConsoleListAssumption, NoneAssumption, ConsoleDialogsAssumption, PagesInvInit
<1>2. PagesInv /\ [PagesNext]_pagesVars => PagesInv'
  BY ConsoleListAssumption, NoneAssumption, ConsoleDialogsAssumption, PagesInvStep
<1> QED  BY <1>1, <1>2, PTL DEF PagesSpec

\* The controls, the requests, the entries and the rows of a list page and the
\* dialogs of the others hold what their handlers write.
THEOREM PagesTypesOK == PagesSpec => [](ListTypeOK /\ DialogTypeOK)
<1>1. PagesInv => ListTypeOK /\ DialogTypeOK
  BY DEF PagesInv, ListInv, DialogInv, DialogTypes
<1> QED  BY <1>1, PagesInvariant, PTL

\* Whatever the user chose, typed, turned or followed, in whatever order the
\* requests were answered, a list page at rest shows the list of its controls.
THEOREM PagesShowTheChoice == PagesSpec => []ShownIsChosen
<1>1. PagesInv => ShownIsChosen
  BY ListInvShows DEF PagesInv
<1> QED  BY <1>1, PagesInvariant, PTL

\* And it was read after the user's last acknowledged change, but for the
\* requests that the invalidation does not replace.
THEOREM PagesShowOwnChanges == PagesSpec => []OwnChangesShown
<1>1. PagesInv => OwnChangesShown
  BY ListInvShows DEF PagesInv
<1> QED  BY <1>1, PagesInvariant, PTL

\* What is ticked on the alerts page was ticked under the filter that is chosen.
THEOREM PagesTicksFit == PagesSpec => []TicksFit
<1>1. PagesInv => TicksFit
  BY ListInvShows DEF PagesInv
<1> QED  BY <1>1, PagesInvariant, PTL

\* A dialog sends its request for the group or target it was opened for, as long
\* as the requests of its page do not overlap.
THEOREM PagesRequestsHit == PagesSpec => RequestHits
<1>1. PagesInv /\ [PagesNext]_pagesVars =>
        [\A k \in Kind : handlers[k] = Idle /\ handlers'[k] # Idle =>
            handlers'[k].to = handlers'[k].meant \/ crossed]_dialogVars
  <2> SUFFICES ASSUME PagesInv, [PagesNext]_pagesVars
               PROVE  Hits \/ UNCHANGED dialogVars
    BY DEF Hits
  <2>1. DialogInv /\ [DialogNext]_dialogVars
    BY DEF PagesInv, PagesNext, pagesVars
  <2> QED  BY <2>1, ConsoleDialogsAssumption, HitsStep
<1> QED  BY <1>1, PagesInvariant, PTL DEF PagesSpec, RequestHits
=============================================================================
