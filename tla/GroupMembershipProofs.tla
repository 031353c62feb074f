----------------------- MODULE GroupMembershipProofs -----------------------
(***************************************************************************)
(* Proofs about the way of group membership from the table to the cached   *)
(* LCD decisions: for every number of users, changes, notifications and    *)
(* overlapping reloads.                                                    *)
(***************************************************************************)
EXTENDS GroupMembership, SequenceTheorems, WellFoundedInduction, TLAPS

(***************************************************************************)
(* The inductive invariant.  The versions only grow along the way from the *)
(* table through the running load to the index, and everything in use now, *)
(* in the index or on a row, is at least as new as what was in use at the  *)
(* last notification.  Nothing is stamped before the first load is done.   *)
(***************************************************************************)
MembershipInv ==
  /\ TypeOK
  /\ idx <= db
  /\ fetched # None => idx <= fetched /\ fetched <= db
  /\ ~ loading \/ listening => idx # None
  /\ fetched # None => loading
  /\ floor <= idx
  /\ \A i \in 1..Len(rows) : floor <= rows[i].ver
  /\ ClearBoundsStaleness

-----------------------------------------------------------------------------
\* A set of natural numbers has a least element.
LEMMA LeastNat ==
  ASSUME NEW S \in SUBSET Nat, S # {}
  PROVE  \E x \in S : \A y \in S : x <= y
<1> DEFINE R == {p \in Nat \X Nat : p[1] < p[2]}
<1>1. IsWellFoundedOn(R, Nat)
  BY NatLessThanWellFounded DEF OpToRel
<1>2. \A x, y \in Nat : x < y => <<x, y>> \in R
  OBVIOUS
<1> HIDE DEF R
<1>3. \E x \in S : \A y \in S : <<y, x>> \notin R
  BY <1>1, WFMin
<1>4. PICK x \in S : \A y \in S : <<y, x>> \notin R
  BY <1>3
<1>5. ASSUME NEW y \in S PROVE x <= y
  <2>1. x \in Nat /\ y \in Nat /\ ~(y < x)
    BY <1>2, <1>4
  <2> QED BY <2>1
<1> QED BY <1>5

\* Min is what it says on sets of integers bounded below.
LEMMA MinIsLeast ==
  ASSUME NEW S \in SUBSET Int, S # {}, NEW b \in Int, \A y \in S : b <= y
  PROVE  Min(S) \in S /\ \A y \in S : Min(S) <= y
<1> DEFINE D == {y - b : y \in S}
<1>1. D \in SUBSET Nat /\ D # {}
  <2>1. \A y \in S : y - b \in Nat
    OBVIOUS
  <2> QED BY <2>1
<1>2. PICK d \in D : \A z \in D : d <= z
  BY <1>1, LeastNat
<1>3. PICK x \in S : d = x - b
  BY <1>2
<1>4. \A y \in S : x <= y
  <2> SUFFICES ASSUME NEW y \in S PROVE x <= y
    OBVIOUS
  <2>1. y - b \in D
    OBVIOUS
  <2>2. x - b <= y - b
    BY <1>2, <1>3, <2>1
  <2> QED BY <2>2
<1> QED BY <1>4 DEF Min

\* Max picks an element of every non-empty set of positions.
LEMMA MaxIsElement ==
  ASSUME NEW n \in Nat, NEW S \in SUBSET (1..n), S # {}
  PROVE  Max(S) \in S /\ \A y \in S : Max(S) >= y
<1> DEFINE D == {n - y : y \in S}
<1>1. D \in SUBSET Nat /\ D # {}
  OBVIOUS
<1>2. PICK d \in D : \A z \in D : d <= z
  BY <1>1, LeastNat
<1>3. PICK x \in S : d = n - x
  BY <1>2
<1>4. \A y \in S : x >= y
  <2> SUFFICES ASSUME NEW y \in S PROVE x >= y
    OBVIOUS
  <2>1. n - y \in D
    OBVIOUS
  <2>2. n - x <= n - y
    BY <1>2, <1>3, <2>1
  <2> QED BY <2>2
<1> QED BY <1>4 DEF Max

-----------------------------------------------------------------------------
\* The initial state satisfies the invariant.
LEMMA MembershipInit == Init => MembershipInv
<1> SUFFICES ASSUME Init PROVE MembershipInv
  OBVIOUS
<1>1. TypeOK
  <2>1. cache \in [(SUBSET User) \ {{}} -> Version \cup {None}]
    BY DEF Init, Empty
  <2>2. rows \in Seq(Row) /\ Len(rows) = 0
    BY DEF Init
  <2>3. listening \in BOOLEAN /\ loading \in BOOLEAN /\ missed \in BOOLEAN
    BY DEF Init
  <2>4. db \in Version /\ heard \in Version /\ notices \in 0..MaxNotices
    BY MembershipAssumption DEF Init, Version
  <2> QED BY <2>1, <2>2, <2>3, <2>4, MembershipAssumption DEF Init, TypeOK
<1>2. ClearBoundsStaleness
  BY <1>1 DEF Init, ClearBoundsStaleness, Empty
<1> QED BY <1>1, <1>2 DEF Init, MembershipInv, None

\* The oldest version in use is one of those in use.
LEMMA OldestInUse ==
  ASSUME TypeOK
  PROVE  /\ Min(InUse) \in Version \cup {None}
         /\ Min(InUse) <= idx
         /\ \A i \in 1..Len(rows) : Min(InUse) <= rows[i].ver
<1>1. DOMAIN rows = 1..Len(rows) /\ \A i \in 1..Len(rows) : rows[i].ver \in Version
  <2>1. rows \in Seq(Row)
    BY DEF TypeOK
  <2>2. DOMAIN rows = 1..Len(rows) /\ \A i \in 1..Len(rows) : rows[i] \in Row
    BY <2>1, LenProperties, ElementOfSeq
  <2> QED BY <2>2 DEF Row
<1>2. InUse \subseteq Version \cup {None} /\ idx \in InUse
  BY <1>1 DEF InUse, TypeOK
<1>3. \A i \in 1..Len(rows) : rows[i].ver \in InUse
  BY <1>1 DEF InUse
<1>4. InUse \in SUBSET Int /\ \A v \in InUse : -1 <= v
  BY <1>2, MembershipAssumption DEF Version, None
<1>5. Min(InUse) \in InUse /\ \A v \in InUse : Min(InUse) <= v
  <2> HIDE DEF InUse
  <2>1. InUse # {} /\ -1 \in Int
    BY <1>2
  <2> QED BY <1>4, <2>1, MinIsLeast
<1> QED BY <1>2, <1>3, <1>5

\* A notification: the cache is emptied, the bound is taken anew.
LEMMA MembershipDeliver == MembershipInv /\ Deliver => MembershipInv'
<1> SUFFICES ASSUME MembershipInv, Deliver PROVE MembershipInv'
  OBVIOUS
<1>1. TypeOK
  BY DEF MembershipInv
<1>2. /\ floor' \in Version \cup {None}
      /\ floor' <= idx'
      /\ \A i \in 1..Len(rows') : floor' <= rows'[i].ver
  BY <1>1, OldestInUse DEF Deliver, Reload
<1>3. TypeOK'
  BY <1>1, <1>2, MembershipAssumption DEF TypeOK, Deliver, Reload, Empty
<1>4. ClearBoundsStaleness'
  BY <1>3 DEF ClearBoundsStaleness, Deliver, Empty
<1> QED BY <1>2, <1>3, <1>4 DEF MembershipInv, Deliver, Reload

\* A row is stamped with the version of the index.
LEMMA MembershipEnrich ==
  ASSUME MembershipInv, NEW u \in User, Enrich(u)
  PROVE  MembershipInv'
<1> DEFINE r == [user |-> u, ver |-> idx]
<1>1. TypeOK /\ idx \in Version /\ r \in Row /\ rows \in Seq(Row)
  BY DEF MembershipInv, TypeOK, Enrich, Row
<1>2. r.ver = idx
  OBVIOUS
<1> HIDE DEF r
<1>3. rows' = Append(rows, r) /\ Len(rows) < MaxRows
  BY DEF Enrich, r
<1>4. /\ rows' \in Seq(Row) /\ Len(rows') = Len(rows) + 1 /\ Len(rows) \in Nat
      /\ \A i \in 1..Len(rows) : rows'[i] = rows[i]
      /\ rows'[Len(rows) + 1] = r
  BY <1>1, <1>3, AppendProperties, LenProperties
<1>5. TypeOK'
  BY <1>1, <1>3, <1>4, MembershipAssumption
  DEF TypeOK, Enrich, db_vars, load_vars
<1>6. \A i \in 1..(Len(rows) + 1) : floor <= rows'[i].ver
  <2> SUFFICES ASSUME NEW i \in 1..(Len(rows) + 1) PROVE floor <= rows'[i].ver
    OBVIOUS
  <2>1. CASE i = Len(rows) + 1
    BY <1>2, <1>4, <2>1 DEF MembershipInv
  <2>2. CASE i \in 1..Len(rows)
    BY <1>4, <2>2 DEF MembershipInv
  <2> QED BY <1>4, <2>1, <2>2
<1>7. ClearBoundsStaleness'
  BY <1>5 DEF MembershipInv, ClearBoundsStaleness, Enrich
<1> QED
  BY <1>4, <1>5, <1>6, <1>7 DEF MembershipInv, Enrich, db_vars, load_vars

\* A decision computed from the first n rows is not older than what is in use.
LEMMA PublishedVersion ==
  ASSUME MembershipInv, NEW n \in 1..Len(rows)
  PROVE  LET win == SubSeq(rows, 1, n)
             key == {win[i].user : i \in DOMAIN win}
             lcd == Min({RowVersion(win, u) : u \in key} \cup {idx})
         IN  /\ key \in (SUBSET User) \ {{}}
             /\ lcd \in Version \cup {None} /\ floor <= lcd
<1> DEFINE win == SubSeq(rows, 1, n)
           key == {win[i].user : i \in DOMAIN win}
           V == {RowVersion(win, u) : u \in key} \cup {idx}
<1>1. rows \in Seq(Row) /\ Len(rows) \in Nat /\ n \in Nat /\ n <= Len(rows) /\ 1 <= n
  BY LenProperties DEF MembershipInv, TypeOK
<1>2. \A i \in 1..Len(rows) : rows[i] \in Row
  BY <1>1, ElementOfSeq
<1>3. win \in Seq(Row) /\ Len(win) = n /\ \A i \in 1..n : win[i] = rows[i]
  <2>1. \A i \in 1..n : rows[i] \in Row
    BY <1>1, <1>2
  <2> QED BY <1>1, <2>1, SubSeqProperties
<1>4. DOMAIN win = 1..n
  BY <1>3, LenProperties
<1>5. \A i \in 1..n : /\ win[i].user \in User
                      /\ win[i].ver \in Version /\ floor <= win[i].ver
  BY <1>1, <1>2, <1>3 DEF MembershipInv, Row
<1> HIDE DEF win
<1>6. key \in (SUBSET User) \ {{}}
  <2>1. key \in SUBSET User
    BY <1>4, <1>5
  <2>2. 1 \in DOMAIN win
    BY <1>1, <1>4
  <2>3. win[1].user \in key
    BY <2>2
  <2> HIDE DEF key
  <2> QED BY <2>1, <2>3
<1>7. ASSUME NEW u \in key
      PROVE  RowVersion(win, u) \in Version /\ floor <= RowVersion(win, u)
  <2> DEFINE P == {i \in DOMAIN win : win[i].user = u}
  <2>1. P \in SUBSET (1..n) /\ P # {}
    BY <1>4, <1>7
  <2> HIDE DEF P
  <2>2. Max(P) \in 1..n
    BY <1>1, <2>1, MaxIsElement
  <2> QED BY <1>5, <2>2 DEF RowVersion, P
<1>8. V \subseteq Version \cup {None} /\ \A v \in V : floor <= v
  BY <1>7 DEF MembershipInv, TypeOK
<1>9. V # {} /\ floor \in Int /\ V \in SUBSET Int
  <2>1. Version \cup {None} \subseteq Int
    BY MembershipAssumption DEF Version, None
  <2>2. floor \in Version \cup {None}
    BY DEF MembershipInv, TypeOK
  <2> QED BY <1>8, <2>1, <2>2
<1> HIDE DEF V
<1>10. Min(V) \in V
  BY <1>8, <1>9, MinIsLeast
<1> QED BY <1>6, <1>8, <1>10 DEF V, win

\* A window is aggregated: a missing decision is computed and cached.
LEMMA MembershipPublish ==
  ASSUME MembershipInv, NEW n \in 1..Len(rows), Publish(n)
  PROVE  MembershipInv'
<1> DEFINE win == SubSeq(rows, 1, n)
           key == {win[i].user : i \in DOMAIN win}
           lcd == Min({RowVersion(win, u) : u \in key} \cup {idx})
           decision == IF cache[key] = None THEN lcd ELSE cache[key]
<1>1. key \in (SUBSET User) \ {{}} /\ lcd \in Version \cup {None} /\ floor <= lcd
  BY PublishedVersion
<1>2. /\ cache' = [cache EXCEPT ![key] = decision]
      /\ rows' = SubSeq(rows, n + 1, Len(rows))
      /\ UNCHANGED <<db_vars, load_vars, floor>>
  BY DEF Publish
<1> HIDE DEF key, lcd
<1>3. TypeOK /\ cache \in [(SUBSET User) \ {{}} -> Version \cup {None}]
  BY DEF MembershipInv, TypeOK
<1>4. cache' \in [(SUBSET User) \ {{}} -> Version \cup {None}]
  BY <1>1, <1>2, <1>3
<1>5. \A k \in DOMAIN cache' : cache'[k] # None => cache'[k] >= floor
  <2>1. \A k \in (SUBSET User) \ {{}} : cache[k] # None => cache[k] >= floor
    BY <1>3 DEF MembershipInv, ClearBoundsStaleness
  <2>2. lcd \in Int /\ floor \in Int
    BY <1>1, <1>3, MembershipAssumption DEF Version, None, TypeOK
  <2>3. decision # None => decision >= floor
    BY <1>1, <2>1, <2>2
  <2> QED BY <1>1, <1>2, <1>3, <2>1, <2>3
<1>6. /\ rows' \in Seq(Row) /\ Len(rows') <= MaxRows
      /\ \A i \in 1..Len(rows') : floor <= rows'[i].ver
  <2>1. /\ rows \in Seq(Row) /\ Len(rows) \in Nat /\ Len(rows) <= MaxRows
        /\ n \in Nat /\ n <= Len(rows)
    BY <1>3, LenProperties DEF TypeOK
  <2>2. \A i \in (n + 1)..Len(rows) : rows[i] \in Row
    BY <2>1, ElementOfSeq
  <2>3. /\ rows' \in Seq(Row)
        /\ Len(rows') = IF n + 1 <= Len(rows) THEN Len(rows) - (n + 1) + 1 ELSE 0
        /\ \A i \in 1..(Len(rows) - (n + 1) + 1) : rows'[i] = rows[(n + 1) + i - 1]
    BY <1>2, <2>1, <2>2, SubSeqProperties
  <2>4. Len(rows') = Len(rows) - n
    <3> DEFINE k == Len(rows')
               l == Len(rows)
    <3>1. k = IF n + 1 <= l THEN l - (n + 1) + 1 ELSE 0
      BY <2>3
    <3>2. l \in Nat /\ n \in Nat /\ n <= l
      BY <2>1
    <3> HIDE DEF k, l
    <3>3. k = l - n
      BY <3>1, <3>2
    <3> QED BY <3>3 DEF k, l
  <2>5. ASSUME NEW i \in 1..Len(rows')
        PROVE  i + n \in 1..Len(rows) /\ rows'[i] = rows[i + n]
    BY <2>1, <2>3, <2>4
  <2>6. \A i \in 1..Len(rows) : floor <= rows[i].ver
    BY DEF MembershipInv
  <2>7. \A i \in 1..Len(rows') : floor <= rows'[i].ver
    BY <2>5, <2>6
  <2>8. Len(rows') <= MaxRows
    BY <2>1, <2>4, MembershipAssumption
  <2> QED BY <2>3, <2>7, <2>8
<1>7. TypeOK'
  BY <1>2, <1>3, <1>4, <1>6 DEF TypeOK, db_vars, load_vars
<1>8. ClearBoundsStaleness'
  BY <1>2, <1>5, <1>7 DEF ClearBoundsStaleness
<1> QED
  BY <1>2, <1>6, <1>7, <1>8 DEF MembershipInv, db_vars, load_vars

\* Every step preserves the invariant.
LEMMA MembershipStep == MembershipInv /\ [Next]_vars => MembershipInv'
<1> SUFFICES ASSUME MembershipInv, [Next]_vars PROVE MembershipInv'
  OBVIOUS
<1>0. /\ TypeOK /\ ClearBoundsStaleness
      /\ Version \subseteq Nat /\ db \in Nat
  BY MembershipAssumption DEF MembershipInv, TypeOK, Version
<1>1. CASE Change
  <2>1. TypeOK'
    <3>1. db' \in Version
      BY <1>0, <1>1, MembershipAssumption DEF Change, Version
    <3> QED BY <1>0, <1>1, <3>1 DEF Change, TypeOK, load_vars, agg_vars
  <2>2. idx \in Int /\ fetched \in Int
    BY <1>0 DEF TypeOK, None
  <2>3. ClearBoundsStaleness'
    BY <1>0, <1>1, <2>1 DEF Change, ClearBoundsStaleness, agg_vars
  <2> QED
    BY <1>0, <1>1, <2>1, <2>2, <2>3 DEF MembershipInv, Change, load_vars, agg_vars
<1>2. CASE RefreshAndNotify
  <2>1. TypeOK'
    <3>1. notices' \in 0..MaxNotices /\ heard' \in Version
      BY <1>0, <1>2, MembershipAssumption DEF RefreshAndNotify, TypeOK
    <3> QED BY <1>0, <1>2, <3>1 DEF RefreshAndNotify, TypeOK, load_vars, agg_vars
  <2>2. ClearBoundsStaleness'
    BY <1>0, <1>2, <2>1 DEF RefreshAndNotify, ClearBoundsStaleness, agg_vars
  <2> QED
    BY <1>2, <2>1, <2>2 DEF MembershipInv, RefreshAndNotify, load_vars, agg_vars
<1>3. CASE Listen
  <2>1. TypeOK'
    BY <1>0, <1>3 DEF Listen, TypeOK, load_vars, agg_vars
  <2>2. ClearBoundsStaleness'
    BY <1>0, <1>3, <2>1 DEF Listen, ClearBoundsStaleness, agg_vars
  <2> QED
    BY <1>3, <2>1, <2>2 DEF MembershipInv, Listen, load_vars, agg_vars
<1>4. CASE Deliver
  BY <1>4, MembershipDeliver
<1>5. CASE Fetch
  <2>1. TypeOK'
    BY <1>0, <1>5 DEF Fetch, TypeOK, db_vars, agg_vars
  <2>2. ClearBoundsStaleness'
    BY <1>0, <1>5, <2>1 DEF Fetch, ClearBoundsStaleness, agg_vars
  <2>3. fetched' = db' /\ db' # None /\ idx' = idx
    BY <1>0, <1>5 DEF Fetch, None, db_vars
  <2> QED
    BY <1>0, <1>5, <2>1, <2>2, <2>3 DEF MembershipInv, Fetch, db_vars, agg_vars
<1>6. CASE Install
  <2>1. TypeOK'
    BY <1>0, <1>6 DEF Install, TypeOK, db_vars, agg_vars
  <2>2. ClearBoundsStaleness'
    BY <1>0, <1>6, <2>1 DEF Install, ClearBoundsStaleness, agg_vars
  <2>3. floor <= idx' /\ idx' # None /\ idx' <= db
    <3>1. floor \in Int /\ idx \in Int /\ fetched \in Int
      BY <1>0 DEF TypeOK, None
    <3> QED BY <1>6, <3>1 DEF MembershipInv, Install
  <2> QED
    BY <1>6, <2>1, <2>2, <2>3 DEF MembershipInv, Install, db_vars, agg_vars
<1>7. CASE \E u \in User : Enrich(u)
  BY <1>7, MembershipEnrich
<1>8. CASE \E n \in 1..Len(rows) : Publish(n)
  BY <1>8, MembershipPublish
<1>9. CASE UNCHANGED vars
  BY <1>9 DEF vars, db_vars, load_vars, agg_vars, MembershipInv, TypeOK,
              ClearBoundsStaleness
<1> QED
  BY <1>1, <1>2, <1>3, <1>4, <1>5, <1>6, <1>7, <1>8, <1>9 DEF Next

-----------------------------------------------------------------------------
\* The inductive invariant holds in every reachable state.
THEOREM MembershipInvariant == Spec => []MembershipInv
BY MembershipInit, MembershipStep, PTL DEF Spec

(***************************************************************************)
(* The GroupAggregator never serves a cached LCD decision older than what  *)
(* was in use when groups_changed last cleared its cache, although rows    *)
(* stamped before the notification are still aggregated after it.          *)
(***************************************************************************)
THEOREM MembershipClearBoundsStaleness == Spec => []ClearBoundsStaleness
<1>1. MembershipInv => ClearBoundsStaleness
  BY DEF MembershipInv
<1> QED BY <1>1, MembershipInvariant, PTL

\* A step of the correlator or the table is a step of the monotone view.
LEMMA ViewStep ==
  MembershipInv /\ [Next]_vars => [View!Change \/ View!Refresh]_<<db, idx>>
<1> SUFFICES ASSUME MembershipInv, [Next]_vars
             PROVE  View!Change \/ View!Refresh \/ UNCHANGED <<db, idx>>
  OBVIOUS
<1>1. CASE Change
  BY <1>1 DEF Change, View!Change, load_vars
<1>2. CASE Install
  <2>1. idx \in Int /\ db \in Int /\ fetched \in Int
    BY MembershipAssumption DEF MembershipInv, TypeOK, Version, None
  <2>2. idx <= fetched /\ fetched <= db
    BY <1>2 DEF Install, MembershipInv
  <2> QED BY <1>2, <2>1, <2>2 DEF Install, View!Refresh, db_vars
<1>3. CASE RefreshAndNotify \/ Listen \/ Deliver \/ Fetch
  BY <1>3 DEF RefreshAndNotify, Listen, Deliver, Reload, Fetch, load_vars, db_vars
<1>4. CASE \E u \in User : Enrich(u)
  BY <1>4 DEF Enrich, load_vars, db_vars
<1>5. CASE \E n \in 1..Len(rows) : Publish(n)
  BY <1>5 DEF Publish, load_vars, db_vars
<1>6. CASE UNCHANGED vars
  BY <1>6 DEF vars, load_vars, db_vars
<1> QED BY <1>1, <1>2, <1>3, <1>4, <1>5, <1>6 DEF Next

(***************************************************************************)
(* The GroupIndex implements a monotone view of user_groups: it only holds *)
(* memberships the table really had, and load() never puts an older one    *)
(* back, however notifications, reloads and changes of the table overlap.  *)
(***************************************************************************)
THEOREM MembershipImplementsView == Spec => IndexIsMonotoneView
<1>1. Init => View!Init
  BY DEF Init, View!Init, None
<1> QED
  BY <1>1, ViewStep, MembershipInvariant, PTL DEF Spec, IndexIsMonotoneView, View!Spec
=============================================================================
