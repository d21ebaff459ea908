--------------------------- MODULE AccountsProofs ---------------------------
(***************************************************************************)
(* Proofs about Accounts for any number of users, orders and calls, and    *)
(* any free limit.                                                         *)
(***************************************************************************)
EXTENDS Accounts, FiniteSetTheorems, TLAPS

Acting == Screenings \cup Orders \cup Upgrades

\* A call acts for a user from the moment it is under way.
ActsFor == \A c \in Acting : pc[c] # "new" => user[c] \in Signups

\* Where the call that asked for an order stands, its row and the payment
\* go together.
OrderOK ==
    \A o \in Orders :
        orders[o] # "none" \/ o \in captured => pc[o] = "issued"

\* An upgrade call that got through holds an order of its user that is paid.
ClaimOK ==
    \A v \in Upgrades : pc[v] \in {"claimed", "upgraded"} =>
        /\ claims[v] \in Orders
        /\ claims[v] \in captured
        /\ orders[claims[v]] = "paid"
        /\ user[claims[v]] = user[v]

\* The screenings of u that were counted.
Counted(u) == {c \in recorded : user[c] = u}

\* UsageMatchesHistory, for rows not yet inserted too, and the other way.
UsageOK ==
    /\ \A u \in Signups : used[u] = Cardinality(Counted(u))
    /\ \A c \in Screenings : pc[c] = "served" <=> c \in recorded

\* QuotaWithinOverlap, for rows not yet inserted too.
QuotaOK ==
    \A u \in Signups : plan[u] = "free" /\ Email[u] \notin Admins =>
        used[u] + Cardinality(UnderWay(u)) <= limit[u] - 1 + peak[u]

\* ProIsPaidFor, for rows not yet inserted too.
PaidOK ==
    \A u \in Signups : plan[u] = "pro" =>
        \E o \in captured : user[o] = u /\ orders[o] = "paid"

IInv ==
    /\ TypeOK
    /\ ActsFor
    /\ OneAccountPerEmail
    /\ OrderOK
    /\ ClaimOK
    /\ OrderUsedOnce
    /\ PaidOK
    /\ UpgradeLasts
    /\ UsageOK
    /\ QuotaOK

\* The steps of a screening.
Screens ==
    \E c \in Screenings :
        \/ \E u \in Signups : AdmitScreening(c, u) \/ RefuseScreening(c, u)
        \/ AbandonScreening(c) \/ RecordScreening(c)

\* The steps that concern money.
Purchases ==
    \/ \E o \in Orders :
         \/ \E u \in Signups : AskProvider(o, u)
         \/ StoreOrder(o) \/ Pay(o)
    \/ \E v \in Upgrades :
         \/ \E u \in Signups, o \in Orders :
              RejectSignature(v, u, o) \/ ClaimOrder(v, u, o)
         \/ UpgradeToPro(v)

----------------------------------------------------------------------------
\* The sets that are counted are finite.
LEMMA CountedFinite ==
    ASSUME TypeOK, NEW u
    PROVE  /\ IsFiniteSet(UnderWay(u))
           /\ IsFiniteSet(Counted(u))
           /\ Cardinality(UnderWay(u)) \in Nat
           /\ Cardinality(Counted(u)) \in Nat
<1>1. UnderWay(u) \in SUBSET Screenings /\ Counted(u) \in SUBSET Screenings
  BY DEF TypeOK, UnderWay, Counted
<1>2. IsFiniteSet(UnderWay(u)) /\ IsFiniteSet(Counted(u))
  BY <1>1, FS_Subset, AccountsAssumption
<1>3. QED
  BY <1>2, FS_CardinalityType

\* Every variable keeps its type.
LEMMA TypeStep ==
    ASSUME IInv, [Next]_vars
    PROVE  TypeOK'
<1> USE AccountsAssumption
    DEF IInv, TypeOK, account, Calls, CallSteps, Acting, ActsFor
<1>1. ASSUME NEW s \in Signups, LookUpEmail(s) PROVE TypeOK'
  BY <1>1 DEF LookUpEmail
<1>2. ASSUME NEW s \in Signups, InsertUser(s) PROVE TypeOK'
  BY <1>2 DEF InsertUser
<1>3. ASSUME NEW c \in Screenings, NEW u \in Signups, AdmitScreening(c, u)
      PROVE  TypeOK'
  <2>1. Cardinality(UnderWay(u)) \in Nat
    BY CountedFinite
  <2>2. Max2(peak[u], Cardinality(UnderWay(u)) + 1) \in Nat
    BY <2>1 DEF Max2
  <2>3. QED
    BY <1>3, <2>2 DEF AdmitScreening
<1>4. ASSUME NEW c \in Screenings, NEW u \in Signups, RefuseScreening(c, u)
      PROVE  TypeOK'
  BY <1>4 DEF RefuseScreening
<1>5. ASSUME NEW c \in Screenings, AbandonScreening(c) PROVE TypeOK'
  BY <1>5 DEF AbandonScreening
<1>6. ASSUME NEW c \in Screenings, RecordScreening(c) PROVE TypeOK'
  BY <1>6 DEF RecordScreening
<1>7. ASSUME NEW o \in Orders, NEW u \in Signups, AskProvider(o, u)
      PROVE  TypeOK'
  BY <1>7 DEF AskProvider
<1>8. ASSUME NEW o \in Orders, StoreOrder(o) PROVE TypeOK'
  BY <1>8 DEF StoreOrder
<1>9. ASSUME NEW o \in Orders, Pay(o) PROVE TypeOK'
  BY <1>9 DEF Pay
<1>10. ASSUME NEW v \in Upgrades, NEW u \in Signups, NEW o \in Orders,
              RejectSignature(v, u, o)
       PROVE  TypeOK'
  BY <1>10 DEF RejectSignature
<1>11. ASSUME NEW v \in Upgrades, NEW u \in Signups, NEW o \in Orders,
              ClaimOrder(v, u, o)
       PROVE  TypeOK'
  BY <1>11 DEF ClaimOrder
<1>12. ASSUME NEW v \in Upgrades, UpgradeToPro(v) PROVE TypeOK'
  BY <1>12 DEF UpgradeToPro
<1>13. ASSUME NEW c \in Calls, Stop(c) PROVE TypeOK'
  BY <1>13 DEF Stop
<1>14. CASE UNCHANGED vars
  BY <1>14 DEF vars
<1>15. QED
  BY <1>1, <1>2, <1>3, <1>4, <1>5, <1>6, <1>7, <1>8, <1>9, <1>10, <1>11,
     <1>12, <1>13, <1>14 DEF Next

\* The UNIQUE column decides between signups that both found the address
\* free; and every call knows whom it acts for.
LEMMA SignupStep ==
    ASSUME IInv, [Next]_vars
    PROVE  OneAccountPerEmail' /\ ActsFor'
<1> USE AccountsAssumption
    DEF IInv, TypeOK, account, Calls, Acting, ActsFor, OneAccountPerEmail
<1>1. ASSUME NEW s \in Signups, LookUpEmail(s) \/ InsertUser(s)
      PROVE  OneAccountPerEmail' /\ ActsFor'
  BY <1>1 DEF LookUpEmail, InsertUser
<1>2. CASE Screens
  BY <1>2 DEF Screens, AdmitScreening, RefuseScreening, AbandonScreening,
              RecordScreening
<1>3. CASE Purchases
  BY <1>3 DEF Purchases, AskProvider, StoreOrder, Pay, RejectSignature,
              ClaimOrder, UpgradeToPro
<1>4. ASSUME NEW c \in Calls, Stop(c)
      PROVE  OneAccountPerEmail' /\ ActsFor'
  BY <1>4 DEF Stop
<1>5. CASE UNCHANGED vars
  BY <1>5 DEF vars
<1>6. QED
  BY <1>1, <1>2, <1>3, <1>4, <1>5 DEF Next, Screens, Purchases

----------------------------------------------------------------------------
Money == OrderOK /\ ClaimOK /\ OrderUsedOnce /\ PaidOK /\ UpgradeLasts

\* What a step that touches no order, payment, plan or upgrade call leaves.
LEMMA MoneyFrame ==
    ASSUME IInv,
           UNCHANGED <<plan, limit, orders, captured, claims>>,
           \A o \in Orders : pc'[o] = pc[o] /\ user'[o] = user[o],
           \A v \in Upgrades :
             /\ user'[v] = user[v]
             /\ pc'[v] \in {"claimed", "upgraded"} => pc'[v] = pc[v]
    PROVE  Money'
<1>1. OrderOK'
  BY DEF IInv, OrderOK
<1>2. ClaimOK'
  BY DEF IInv, ClaimOK
<1>3. OrderUsedOnce'
  BY DEF IInv, OrderUsedOnce
<1>4. PaidOK'
  BY DEF IInv, PaidOK, TypeOK
<1>5. UpgradeLasts'
  BY DEF IInv, UpgradeLasts
<1>6. QED
  BY <1>1, <1>2, <1>3, <1>4, <1>5 DEF Money

\* Signups and screenings have nothing to do with money.
LEMMA OtherCallsFrame ==
    ASSUME IInv,
           (\E s \in Signups : LookUpEmail(s) \/ InsertUser(s)) \/ Screens
    PROVE  Money'
<1> USE AccountsAssumption DEF TypeOK, account, Calls
<1>1. TypeOK
  BY DEF IInv
<1>2. /\ UNCHANGED <<plan, limit, orders, captured, claims>>
      /\ \A o \in Orders : pc'[o] = pc[o] /\ user'[o] = user[o]
      /\ \A v \in Upgrades : pc'[v] = pc[v] /\ user'[v] = user[v]
  <2>1. ASSUME NEW s \in Signups, LookUpEmail(s) \/ InsertUser(s)
        PROVE  <1>2!:
    BY <1>1, <2>1 DEF LookUpEmail, InsertUser
  <2>2. CASE Screens
    BY <1>1, <2>2 DEF Screens, AdmitScreening, RefuseScreening,
                      AbandonScreening, RecordScreening
  <2>3. QED
    BY <2>1, <2>2
<1>3. QED
  BY <1>2, MoneyFrame

\* The conditional UPDATE lets one call through for each order, and only a
\* call of its owner.
LEMMA MoneyStep ==
    ASSUME IInv, [Next]_vars
    PROVE  Money'
<1> USE AccountsAssumption DEF TypeOK, account, Calls
<1>1. TypeOK /\ OrderOK /\ ClaimOK /\ OrderUsedOnce /\ PaidOK /\ UpgradeLasts
  BY DEF IInv
<1>2. ASSUME NEW o \in Orders, NEW u \in Signups, AskProvider(o, u)
      PROVE  Money'
  <2>1. orders[o] = "none" /\ o \notin captured
    BY <1>1, <1>2 DEF AskProvider, OrderOK
  <2>2. OrderOK'
    BY <1>1, <1>2, <2>1 DEF AskProvider, OrderOK
  <2>3. ClaimOK'
    BY <1>1, <1>2, <2>1 DEF AskProvider, ClaimOK
  <2>4. OrderUsedOnce'
    BY <1>1, <1>2 DEF AskProvider, OrderUsedOnce
  <2>5. PaidOK'
    BY <1>1, <1>2, <2>1 DEF AskProvider, PaidOK
  <2>6. UpgradeLasts'
    BY <1>1, <1>2 DEF AskProvider, UpgradeLasts
  <2>7. QED
    BY <2>2, <2>3, <2>4, <2>5, <2>6 DEF Money
<1>3. ASSUME NEW o \in Orders, StoreOrder(o) PROVE Money'
  <2>1. orders[o] = "none"
    BY <1>1, <1>3 DEF StoreOrder, OrderOK
  <2>2. OrderOK' /\ ClaimOK' /\ PaidOK'
    BY <1>1, <1>3, <2>1 DEF StoreOrder, OrderOK, ClaimOK, PaidOK
  <2>3. OrderUsedOnce' /\ UpgradeLasts'
    BY <1>1, <1>3 DEF StoreOrder, OrderUsedOnce, UpgradeLasts
  <2>4. QED
    BY <2>2, <2>3 DEF Money
<1>4. ASSUME NEW o \in Orders, Pay(o) PROVE Money'
  <2>1. OrderOK' /\ ClaimOK' /\ PaidOK'
    BY <1>1, <1>4 DEF Pay, OrderOK, ClaimOK, PaidOK
  <2>2. OrderUsedOnce' /\ UpgradeLasts'
    BY <1>1, <1>4 DEF Pay, OrderUsedOnce, UpgradeLasts
  <2>3. QED
    BY <2>1, <2>2 DEF Money
<1>5. ASSUME NEW v \in Upgrades, NEW u \in Signups, NEW o \in Orders,
             RejectSignature(v, u, o)
      PROVE  Money'
  <2>1. OrderOK' /\ PaidOK'
    BY <1>1, <1>5 DEF RejectSignature, OrderOK, PaidOK
  <2>2. ClaimOK' /\ OrderUsedOnce' /\ UpgradeLasts'
    BY <1>1, <1>5 DEF RejectSignature, ClaimOK, OrderUsedOnce, UpgradeLasts
  <2>3. QED
    BY <2>1, <2>2 DEF Money
<1>6. ASSUME NEW v \in Upgrades, NEW u \in Signups, NEW o \in Orders,
             ClaimOrder(v, u, o)
      PROVE  Money'
  <2>1. CASE Claimable(u, o)
    <3>1. \A w \in Upgrades : pc[w] \in {"claimed", "upgraded"} =>
            claims[w] # o
      BY <1>1, <2>1 DEF ClaimOK, Claimable
    <3>2. OrderOK'
      BY <1>1, <1>6, <2>1 DEF ClaimOrder, Claimable, OrderOK
    <3>3. ClaimOK'
      BY <1>1, <1>6, <2>1 DEF ClaimOrder, Claimable, ClaimOK
    <3>4. OrderUsedOnce'
      BY <1>1, <1>6, <2>1, <3>1 DEF ClaimOrder, OrderUsedOnce
    <3>5. PaidOK'
      BY <1>1, <1>6, <2>1 DEF ClaimOrder, Claimable, PaidOK
    <3>6. UpgradeLasts'
      BY <1>1, <1>6, <2>1 DEF ClaimOrder, UpgradeLasts
    <3>7. QED
      BY <3>2, <3>3, <3>4, <3>5, <3>6 DEF Money
  <2>2. CASE ~Claimable(u, o)
    <3>1. OrderOK' /\ PaidOK'
      BY <1>1, <1>6, <2>2 DEF ClaimOrder, OrderOK, PaidOK
    <3>2. ClaimOK' /\ OrderUsedOnce' /\ UpgradeLasts'
      BY <1>1, <1>6, <2>2 DEF ClaimOrder, ClaimOK, OrderUsedOnce,
                              UpgradeLasts
    <3>3. QED
      BY <3>1, <3>2 DEF Money
  <2>3. QED
    BY <2>1, <2>2
<1>7. ASSUME NEW v \in Upgrades, UpgradeToPro(v) PROVE Money'
  <2>1. OrderOK' /\ ClaimOK' /\ OrderUsedOnce'
    BY <1>1, <1>7 DEF UpgradeToPro, OrderOK, ClaimOK, OrderUsedOnce
  <2>2. /\ claims[v] \in captured /\ orders[claims[v]] = "paid"
        /\ user[claims[v]] = user[v]
    BY <1>1, <1>7 DEF UpgradeToPro, ClaimOK
  <2>3. PaidOK'
    BY <1>1, <1>7, <2>2 DEF UpgradeToPro, PaidOK
  <2>4. user[v] \in Signups
    BY <1>7 DEF IInv, ActsFor, Acting, UpgradeToPro
  <2>5. UpgradeLasts'
    BY <1>1, <1>7, <2>4 DEF UpgradeToPro, UpgradeLasts
  <2>6. QED
    BY <2>1, <2>3, <2>5 DEF Money
<1>8. ASSUME NEW c \in Calls, Stop(c) PROVE Money'
  <2>1. OrderOK' /\ PaidOK'
    BY <1>1, <1>8 DEF Stop, OrderOK, PaidOK
  <2>2. ClaimOK' /\ OrderUsedOnce' /\ UpgradeLasts'
    BY <1>1, <1>8 DEF Stop, ClaimOK, OrderUsedOnce, UpgradeLasts
  <2>3. QED
    BY <2>1, <2>2 DEF Money
<1>9. CASE UNCHANGED vars
  <2>1. /\ UNCHANGED <<plan, limit, orders, captured, claims>>
        /\ \A o \in Orders : pc'[o] = pc[o] /\ user'[o] = user[o]
        /\ \A v \in Upgrades : pc'[v] = pc[v] /\ user'[v] = user[v]
    BY <1>9 DEF vars
  <2>2. QED
    BY <2>1, MoneyFrame
<1>10. QED
  BY <1>2, <1>3, <1>4, <1>5, <1>6, <1>7, <1>8, <1>9, OtherCallsFrame
  DEF Next, Screens

----------------------------------------------------------------------------
\* Whose screenings are under way or counted does not change when no
\* screening moves.
LEMMA CountFrame ==
    ASSUME IInv,
           UNCHANGED <<plan, used, limit, recorded, peak>>,
           \A c \in Screenings :
             /\ user'[c] = user[c]
             /\ pc'[c] = pc[c]
    PROVE  UsageOK' /\ QuotaOK'
<1> USE DEF IInv
<1>1. recorded \subseteq Screenings
  BY DEF TypeOK
<1>2. \A u : UnderWay(u)' = UnderWay(u) /\ Counted(u)' = Counted(u)
  BY <1>1 DEF UnderWay, Counted
<1>3. UsageOK'
  BY <1>2 DEF UsageOK
<1>4. QuotaOK'
  BY <1>2 DEF QuotaOK
<1>5. QED
  BY <1>3, <1>4

\* A screening that leaves without being counted, or never enters.
LEMMA LeaveFrame ==
    ASSUME IInv, NEW c \in Screenings,
           UNCHANGED <<plan, used, limit, recorded, peak>>,
           pc[c] # "served", pc'[c] \notin {"served", "admitted"},
           c \notin recorded,
           \A d \in Screenings \ {c} :
             user'[d] = user[d] /\ pc'[d] = pc[d]
    PROVE  UsageOK' /\ QuotaOK'
<1> USE DEF IInv
<1>1. recorded \subseteq Screenings
  BY DEF TypeOK
<1>2. \A u : Counted(u)' = Counted(u)
  BY <1>1 DEF Counted
<1>3. UsageOK'
  BY <1>2 DEF UsageOK
<1>4. ASSUME NEW u \in Signups
      PROVE  /\ Cardinality(UnderWay(u)) \in Nat
             /\ Cardinality(UnderWay(u)') \in Nat
             /\ Cardinality(UnderWay(u)') <= Cardinality(UnderWay(u))
  <2>1. IsFiniteSet(UnderWay(u))
    BY CountedFinite
  <2>2. UnderWay(u)' \in SUBSET UnderWay(u)
    BY DEF UnderWay
  <2>3. IsFiniteSet(UnderWay(u)')
    BY <2>1, <2>2, FS_Subset
  <2>4. QED
    BY <2>1, <2>2, <2>3, FS_Subset, FS_CardinalityType
<1>5. ASSUME NEW u \in Signups, plan'[u] = "free", Email[u] \notin Admins
      PROVE  used'[u] + Cardinality(UnderWay(u)') <= limit'[u] - 1 + peak'[u]
  <2>1. used[u] + Cardinality(UnderWay(u)) <= limit[u] - 1 + peak[u]
    BY <1>5 DEF QuotaOK
  <2>2. used[u] \in Nat /\ limit[u] \in Int /\ peak[u] \in Nat
    BY AccountsAssumption DEF TypeOK
  <2>3. QED
    BY <1>4, <2>1, <2>2
<1>6. QuotaOK'
  BY <1>5 DEF QuotaOK, UnderWay
<1>7. QED
  BY <1>3, <1>6

\* The quota is tested when the screening comes under way.
LEMMA AdmitStep ==
    ASSUME IInv, NEW c \in Screenings, NEW u \in Signups,
           AdmitScreening(c, u)
    PROVE  UsageOK' /\ QuotaOK'
<1> USE AccountsAssumption DEF IInv, account
<1>1. /\ UNCHANGED <<plan, used, limit, recorded>>
      /\ pc[c] = "new" /\ pc'[c] = "admitted" /\ user'[c] = u
      /\ \A d \in Screenings \ {c} : user'[d] = user[d] /\ pc'[d] = pc[d]
      /\ peak'[u] = Max2(peak[u], Cardinality(UnderWay(u)) + 1)
      /\ \A w \in Signups \ {u} : peak'[w] = peak[w]
      /\ MayScreen(u)
  BY DEF AdmitScreening, TypeOK, Calls
<1>2. recorded \subseteq Screenings /\ c \notin recorded
  BY <1>1 DEF TypeOK, UsageOK
<1>3. \A w : Counted(w)' = Counted(w)
  BY <1>1, <1>2 DEF Counted
<1>4. UsageOK'
  BY <1>1, <1>2, <1>3 DEF UsageOK
<1>5. UnderWay(u)' = UnderWay(u) \cup {c} /\ c \notin UnderWay(u)
  BY <1>1 DEF UnderWay
<1>6. \A w \in Signups \ {u} : UnderWay(w)' = UnderWay(w)
  BY <1>1 DEF UnderWay
<1>7. /\ Cardinality(UnderWay(u)) \in Nat
      /\ Cardinality(UnderWay(u)') = Cardinality(UnderWay(u)) + 1
  BY <1>5, CountedFinite, FS_AddElement
<1>8. ASSUME plan'[u] = "free", Email[u] \notin Admins
      PROVE  used'[u] + Cardinality(UnderWay(u)') <= limit'[u] - 1 + peak'[u]
  <2>1. used[u] < limit[u]
    BY <1>1, <1>8 DEF MayScreen
  <2>2. used[u] \in Nat /\ limit[u] \in Int /\ peak[u] \in Nat
    BY DEF TypeOK
  <2>3. ASSUME NEW a \in Nat, NEW b \in Nat
        PROVE  Max2(a, b) \in Nat /\ Max2(a, b) >= b
    BY DEF Max2
  <2>4. peak'[u] \in Nat /\ peak'[u] >= Cardinality(UnderWay(u)) + 1
    <3> DEFINE n == Cardinality(UnderWay(u)) + 1
    <3>1. n \in Nat
      BY <1>7
    <3>2. peak'[u] = Max2(peak[u], n)
      BY <1>1
    <3> HIDE DEF n
    <3>3. Max2(peak[u], n) \in Nat /\ Max2(peak[u], n) >= n
      BY <2>2, <2>3, <3>1
    <3>4. peak'[u] \in Nat /\ peak'[u] >= n
      BY <3>2, <3>3
    <3>5. QED
      BY <3>4 DEF n
  <2>5. QED
    BY <1>1, <1>7, <2>1, <2>2, <2>4
<1>9. QuotaOK'
  BY <1>1, <1>6, <1>8 DEF QuotaOK
<1>10. QED
  BY <1>4, <1>9

\* Counting moves one screening of one user from under way to the history.
LEMMA RecordStep ==
    ASSUME IInv, NEW c \in Screenings, RecordScreening(c)
    PROVE  UsageOK' /\ QuotaOK'
<1> USE AccountsAssumption DEF IInv, account
<1>1. PICK u \in Signups : u = user[c]
  BY DEF RecordScreening, ActsFor, Acting
<1>2. /\ UNCHANGED <<plan, limit, user, peak>>
      /\ pc[c] = "admitted" /\ pc'[c] = "served"
      /\ \A d \in Screenings \ {c} : pc'[d] = pc[d]
      /\ recorded' = recorded \cup {c}
      /\ used'[u] = used[u] + 1
      /\ \A w \in Signups \ {u} : used'[w] = used[w]
  BY <1>1 DEF RecordScreening, TypeOK, Calls
<1>3. recorded \subseteq Screenings /\ c \notin recorded
  BY <1>2 DEF TypeOK, UsageOK
<1>4. /\ Counted(u)' = Counted(u) \cup {c} /\ c \notin Counted(u)
      /\ UnderWay(u)' = UnderWay(u) \ {c} /\ c \in UnderWay(u)
  <2>1. Counted(u)' = Counted(u) \cup {c}
    BY <1>1, <1>2 DEF Counted
  <2>2. UnderWay(u)' = UnderWay(u) \ {c}
    BY <1>1, <1>2 DEF UnderWay
  <2>3. c \notin Counted(u) /\ c \in UnderWay(u)
    BY <1>1, <1>2, <1>3 DEF Counted, UnderWay
  <2>4. QED
    BY <2>1, <2>2, <2>3
<1>5. ASSUME NEW w \in Signups \ {u}
      PROVE  Counted(w)' = Counted(w) /\ UnderWay(w)' = UnderWay(w)
  <2>1. user[c] # w
    BY <1>1
  <2>2. Counted(w)' = Counted(w)
    BY <1>2, <2>1 DEF Counted
  <2>3. UnderWay(w)' = UnderWay(w)
    BY <1>2, <2>1 DEF UnderWay
  <2>4. QED
    BY <2>2, <2>3
<1>6. /\ Cardinality(Counted(u)') = Cardinality(Counted(u)) + 1
      /\ Cardinality(UnderWay(u)') = Cardinality(UnderWay(u)) - 1
      /\ Cardinality(UnderWay(u)) \in Nat
  BY <1>4, CountedFinite, FS_AddElement, FS_RemoveElement
<1>7. UsageOK'
  <2>1. ASSUME NEW w \in Signups
        PROVE  used'[w] = Cardinality(Counted(w)')
    <3>1. used[w] = Cardinality(Counted(w))
      BY DEF UsageOK
    <3>2. CASE w = u
      <4>1. used'[u] = Cardinality(Counted(u)) + 1
        BY <1>2, <3>1, <3>2
      <4>2. used'[u] = Cardinality(Counted(u)')
        BY <1>6, <4>1
      <4>3. QED
        BY <3>2, <4>2, Zenon
    <3>3. CASE w # u
      <4>1. used'[w] = used[w] /\ Counted(w)' = Counted(w)
        BY <1>2, <1>5, <3>3
      <4>2. QED
        BY <3>1, <4>1
    <3>4. QED
      BY <3>2, <3>3
  <2>2. \A d \in Screenings : pc'[d] = "served" <=> d \in recorded'
    BY <1>2 DEF UsageOK
  <2>3. QED
    BY <2>1, <2>2 DEF UsageOK, Counted
<1>8. used'[u] + Cardinality(UnderWay(u)')
        = used[u] + Cardinality(UnderWay(u))
  BY <1>1, <1>2, <1>6 DEF TypeOK
<1>9. ASSUME NEW w \in Signups, plan'[w] = "free", Email[w] \notin Admins
      PROVE  used'[w] + Cardinality(UnderWay(w)') <= limit'[w] - 1 + peak'[w]
  <2>1. used[w] + Cardinality(UnderWay(w)) <= limit[w] - 1 + peak[w]
    BY <1>2, <1>9 DEF QuotaOK
  <2>2. limit'[w] = limit[w] /\ peak'[w] = peak[w]
    BY <1>2
  <2>3. used'[w] + Cardinality(UnderWay(w)')
          = used[w] + Cardinality(UnderWay(w))
    <3>1. CASE w = u
      BY <1>8, <3>1, Zenon
    <3>2. CASE w # u
      <4>1. used'[w] = used[w] /\ UnderWay(w)' = UnderWay(w)
        BY <1>2, <1>5, <3>2
      <4>2. QED
        BY <4>1
    <3>3. QED
      BY <3>1, <3>2
  <2>4. QED
    BY <2>1, <2>2, <2>3
<1>10. QuotaOK'
  BY <1>9 DEF QuotaOK, UnderWay
<1>11. QED
  BY <1>7, <1>10

\* The history and the quota through every step.
LEMMA UsageStep ==
    ASSUME IInv, [Next]_vars
    PROVE  UsageOK' /\ QuotaOK'
<1> USE AccountsAssumption DEF account, Calls
<1>1. TypeOK /\ UsageOK /\ QuotaOK
  BY DEF IInv
<1>2. ASSUME NEW s \in Signups, LookUpEmail(s) \/ InsertUser(s)
      PROVE  UsageOK' /\ QuotaOK'
  <2>1. /\ UNCHANGED <<plan, used, limit, recorded, peak>>
        /\ \A c \in Screenings : user'[c] = user[c] /\ pc'[c] = pc[c]
    BY <1>1, <1>2 DEF LookUpEmail, InsertUser, TypeOK
  <2>2. QED
    BY <2>1, CountFrame
<1>3. ASSUME NEW c \in Screenings, NEW u \in Signups, RefuseScreening(c, u)
      PROVE  UsageOK' /\ QuotaOK'
  <2>1. c \notin recorded
    BY <1>1, <1>3 DEF RefuseScreening, UsageOK
  <2>2. /\ UNCHANGED <<plan, used, limit, recorded, peak>>
        /\ pc[c] # "served" /\ pc'[c] \notin {"served", "admitted"}
        /\ \A d \in Screenings \ {c} : user'[d] = user[d] /\ pc'[d] = pc[d]
    BY <1>1, <1>3 DEF RefuseScreening, TypeOK
  <2>3. QED
    BY <2>1, <2>2, LeaveFrame
<1>4. ASSUME NEW c \in Screenings, AbandonScreening(c)
      PROVE  UsageOK' /\ QuotaOK'
  <2>1. c \notin recorded
    BY <1>1, <1>4 DEF AbandonScreening, UsageOK
  <2>2. /\ UNCHANGED <<plan, used, limit, recorded, peak>>
        /\ pc[c] # "served" /\ pc'[c] \notin {"served", "admitted"}
        /\ \A d \in Screenings \ {c} : user'[d] = user[d] /\ pc'[d] = pc[d]
    BY <1>1, <1>4 DEF AbandonScreening, TypeOK
  <2>3. QED
    BY <2>1, <2>2, LeaveFrame
<1>5. ASSUME NEW v \in Upgrades, UpgradeToPro(v)
      PROVE  UsageOK' /\ QuotaOK'
  <2>1. /\ UNCHANGED <<used, recorded, user, peak>>
        /\ \A c \in Screenings : pc'[c] = pc[c]
        /\ \A w \in Signups :
             plan'[w] = "free" => plan[w] = "free" /\ limit'[w] = limit[w]
    BY <1>1, <1>5 DEF UpgradeToPro, TypeOK
  <2>2. \A u : UnderWay(u)' = UnderWay(u) /\ Counted(u)' = Counted(u)
    BY <2>1 DEF UnderWay, Counted
  <2>3. UsageOK'
    BY <1>1, <2>1, <2>2 DEF UsageOK
  <2>4. QuotaOK'
    BY <1>1, <2>1, <2>2 DEF QuotaOK
  <2>5. QED
    BY <2>3, <2>4
<1>6. CASE Purchases /\ ~ \E v \in Upgrades : UpgradeToPro(v)
  <2>1. /\ UNCHANGED <<plan, used, limit, recorded, peak>>
        /\ \A c \in Screenings : user'[c] = user[c] /\ pc'[c] = pc[c]
    BY <1>1, <1>6 DEF Purchases, AskProvider, StoreOrder, Pay,
                      RejectSignature, ClaimOrder, TypeOK
  <2>2. QED
    BY <2>1, CountFrame
<1>7. ASSUME NEW c \in Calls, Stop(c) PROVE UsageOK' /\ QuotaOK'
  <2>1. /\ UNCHANGED <<plan, used, limit, recorded, peak, user>>
        /\ pc[c] \notin {"new", "served"} /\ pc'[c] = "stopped"
        /\ \A d \in Calls \ {c} : pc'[d] = pc[d]
    BY <1>1, <1>7 DEF Stop, TypeOK
  <2>2. CASE c \in Screenings
    <3>1. c \notin recorded
      BY <1>1, <2>1, <2>2 DEF UsageOK
    <3>2. QED
      BY <2>1, <2>2, <3>1, LeaveFrame
  <2>3. CASE c \notin Screenings
    BY <2>1, <2>3, CountFrame
  <2>4. QED
    BY <2>2, <2>3
<1>8. CASE UNCHANGED vars
  BY <1>8, CountFrame DEF vars
<1>9. QED
  BY <1>2, <1>3, <1>4, <1>5, <1>6, <1>7, <1>8, AdmitStep, RecordStep
  DEF Next, Purchases

----------------------------------------------------------------------------
\* Nothing has been done yet.
LEMMA InvInit == Init => IInv
<1> SUFFICES ASSUME Init PROVE IInv
  OBVIOUS
<1> USE AccountsAssumption DEF Init
<1>1. TypeOK
  BY DEF TypeOK, CallSteps
<1>2. /\ ActsFor /\ OneAccountPerEmail /\ OrderOK /\ ClaimOK
      /\ OrderUsedOnce /\ PaidOK /\ UpgradeLasts
  BY DEF ActsFor, Acting, Calls, OneAccountPerEmail, OrderOK, ClaimOK,
         OrderUsedOnce, PaidOK, UpgradeLasts
<1>3. \A u : UnderWay(u) = {} /\ Counted(u) = {}
  BY DEF UnderWay, Counted, Calls
<1>4. Cardinality({}) = 0
  BY FS_EmptySet
<1>5. UsageOK
  BY <1>3, <1>4 DEF UsageOK, Calls
<1>6. QuotaOK
  BY <1>3, <1>4 DEF QuotaOK
<1>7. QED
  BY <1>1, <1>2, <1>5, <1>6 DEF IInv

\* No step breaks the invariant.
LEMMA InvNext == IInv /\ [Next]_vars => IInv'
<1> SUFFICES ASSUME IInv, [Next]_vars PROVE IInv'
  OBVIOUS
<1>1. TypeOK'
  BY TypeStep
<1>2. OneAccountPerEmail' /\ ActsFor'
  BY SignupStep
<1>3. Money'
  BY MoneyStep
<1>4. UsageOK' /\ QuotaOK'
  BY UsageStep
<1>5. QED
  BY <1>1, <1>2, <1>3, <1>4 DEF IInv, Money

\* The inductive invariant holds in every reachable state.
THEOREM Invariance == Spec => []IInv
  BY InvInit, InvNext, PTL DEF Spec

\* The tables and the calls keep their types for any number of users.
THEOREM TypeCorrect == Spec => []TypeOK
<1>1. IInv => TypeOK
  BY DEF IInv
<1>2. QED
  BY <1>1, Invariance, PTL

\* An address has one account, however its signups interleave.
THEOREM OneAccount == Spec => []OneAccountPerEmail
<1>1. IInv => OneAccountPerEmail
  BY DEF IInv
<1>2. QED
  BY <1>1, Invariance, PTL

\* A free account exceeds its limit at most by its overlapping screenings.
THEOREM QuotaHolds == Spec => []QuotaWithinOverlap
<1>1. IInv => QuotaWithinOverlap
  BY DEF IInv, TypeOK, QuotaOK, QuotaWithinOverlap
<1>2. QED
  BY <1>1, Invariance, PTL

\* The counter is the length of the history, and what was served is counted.
THEOREM UsageCounted == Spec => []UsageMatchesHistory
<1>1. IInv => UsageMatchesHistory
  BY DEF IInv, TypeOK, UsageOK, UsageMatchesHistory, Counted
<1>2. QED
  BY <1>1, Invariance, PTL

\* A Pro account has an order of its own that was paid for.
THEOREM ProPaid == Spec => []ProIsPaidFor
<1>1. IInv => ProIsPaidFor
  BY DEF IInv, TypeOK, PaidOK, ProIsPaidFor
<1>2. QED
  BY <1>1, Invariance, PTL

\* At most one call gets through for an order.
THEOREM UsedOnce == Spec => []OrderUsedOnce
<1>1. IInv => OrderUsedOnce
  BY DEF IInv
<1>2. QED
  BY <1>1, Invariance, PTL

\* An upgrade that was announced is not undone.
THEOREM UpgradesLast == Spec => []UpgradeLasts
<1>1. IInv => UpgradeLasts
  BY DEF IInv
<1>2. QED
  BY <1>1, Invariance, PTL
=============================================================================
