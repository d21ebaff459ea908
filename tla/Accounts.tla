------------------------------ MODULE Accounts ------------------------------
(***************************************************************************)
(* User accounts, the screening quota and the Pro plan: the handlers       *)
(* /auth/signup, /rank (its accounting), /payments/order and /auth/upgrade *)
(* of app/main.py over the tables of app/db.py, with the payment provider  *)
(* of app/payments.py outside.                                             *)
(*                                                                         *)
(* The application runs as serverless invocations over one database        *)
(* (db.py), so two handlers interleave between any two transactions, and   *)
(* one of them may end between its own: a transaction is one step, and     *)
(* every call may stop before its next one (Stop).                         *)
(*                                                                         *)
(* A users row has the name of the signup that inserted it, and an order   *)
(* the name of the call that asked the provider for it.  Passwords,        *)
(* tokens, names and amounts are left out: whoever has a row can act for   *)
(* it.                                                                     *)
(***************************************************************************)
EXTENDS Integers, FiniteSets

CONSTANTS
    Signups,    \* calls of POST /auth/signup, and the users rows they insert
    Email,      \* Email[s] is the address signup s is for
    Admins,     \* ADMIN_EMAILS
    Screenings, \* calls of POST /rank with a valid token
    Orders,     \* calls of POST /payments/order, and the orders they create
    Upgrades,   \* calls of POST /auth/upgrade
    FreeLimit,  \* the default of users.screenings_limit
    ProLimit,   \* the limit upgrade_to_pro sets, 999999
    Nobody      \* no user, no order

Calls == Signups \cup Screenings \cup Orders \cup Upgrades

ASSUME AccountsAssumption ==
    /\ IsFiniteSet(Screenings)
    /\ ProLimit \in Nat
    /\ FreeLimit \in 1 .. ProLimit
    /\ Nobody \notin Signups \cup Orders
    /\ Signups \cap Screenings = {}
    /\ Orders \cap (Signups \cup Screenings) = {}
    /\ Upgrades \cap (Signups \cup Screenings \cup Orders) = {}

VARIABLES
    users,    \* the rows of the table users
    plan,     \* users.plan
    used,     \* users.screenings_used
    limit,    \* users.screenings_limit
    recorded, \* the rows of the table screenings
    orders,   \* payment_orders.status; "none" where there is no row
    captured, \* the orders somebody has paid at the provider
    pc,       \* where each call stands
    user,     \* the user a call acts for; of an order, its user_id
    claims,   \* the order an upgrade call presents
    peak      \* history: most screenings of a user under way at once

account == <<plan, used, limit>>
vars == <<users, account, recorded, orders, captured, pc, user, claims, peak>>

----------------------------------------------------------------------------
Min2(a, b) == IF a < b THEN a ELSE b
Max2(a, b) == IF a > b THEN a ELSE b

\* The screenings of u that have passed the quota and are not recorded yet.
UnderWay(u) == {c \in Screenings : pc[c] = "admitted" /\ user[c] = u}

Init ==
    /\ users = {}
    /\ plan = [u \in Signups |-> "free"]
    /\ used = [u \in Signups |-> 0]
    /\ limit = [u \in Signups |-> FreeLimit]
    /\ recorded = {}
    /\ orders = [o \in Orders |-> "none"]
    /\ captured = {}
    /\ pc = [c \in Calls |-> "new"]
    /\ user = [c \in Screenings \cup Orders \cup Upgrades |-> Nobody]
    /\ claims = [v \in Upgrades |-> Nobody]
    /\ peak = [u \in Signups |-> 0]

\* The call is cut short, or its next database call raises: what it has
\* committed stays, and the client is not told.
Stop(c) ==
    /\ pc[c] \in {"checked", "admitted", "made", "claimed"}
    /\ pc' = [pc EXCEPT ![c] = "stopped"]
    /\ UNCHANGED <<users, account, recorded, orders, captured, user, claims,
                   peak>>

----------------------------------------------------------------------------
\* POST /auth/signup: look the address up ...
LookUpEmail(s) ==
    /\ pc[s] = "new"
    /\ pc' = [pc EXCEPT ![s] =
                IF \E u \in users : Email[u] = Email[s] THEN "conflict"
                ELSE "checked"]
    /\ UNCHANGED <<users, account, recorded, orders, captured, user, claims,
                   peak>>

\* Mutant: the column email is not UNIQUE.
InsertAnyUser(s) ==
    /\ pc[s] = "checked"
    /\ users' = users \cup {s}
    /\ pc' = [pc EXCEPT ![s] = "created"]
    /\ UNCHANGED <<account, recorded, orders, captured, user, claims, peak>>

\* ... and insert the row; a second row for it violates UNIQUE, and the
\* exception becomes a 500.
InsertUser(s) ==
    /\ pc[s] = "checked"
    /\ IF \E u \in users : Email[u] = Email[s]
       THEN /\ pc' = [pc EXCEPT ![s] = "serverError"]
            /\ UNCHANGED users
       ELSE /\ pc' = [pc EXCEPT ![s] = "created"]
            /\ users' = users \cup {s}
    /\ UNCHANGED <<account, recorded, orders, captured, user, claims, peak>>

----------------------------------------------------------------------------
\* POST /rank, for a logged-in user.

\* Mutant: > in place of >= in the test of the quota.
MayScreenOneMore(u) ==
    Email[u] \in Admins \/ plan[u] = "pro" \/ used[u] <= limit[u]

\* The row read from the database allows one more screening.
MayScreen(u) ==
    Email[u] \in Admins \/ plan[u] = "pro" \/ used[u] < limit[u]

RefuseScreening(c, u) ==
    /\ pc[c] = "new"
    /\ u \in users
    /\ ~MayScreen(u)
    /\ pc' = [pc EXCEPT ![c] = "refused"]
    /\ user' = [user EXCEPT ![c] = u]
    /\ UNCHANGED <<users, account, recorded, orders, captured, claims, peak>>

\* The quota allows it: the handler goes on to validate and to await the
\* ranking.
AdmitScreening(c, u) ==
    /\ pc[c] = "new"
    /\ u \in users
    /\ MayScreen(u)
    /\ pc' = [pc EXCEPT ![c] = "admitted"]
    /\ user' = [user EXCEPT ![c] = u]
    /\ peak' = [peak EXCEPT ![u] = Max2(@, Cardinality(UnderWay(u)) + 1)]
    /\ UNCHANGED <<users, account, recorded, orders, captured, claims>>

\* The input is invalid (422) or the ranking raises (500): nothing counts.
AbandonScreening(c) ==
    /\ pc[c] = "admitted"
    /\ pc' = [pc EXCEPT ![c] = "unserved"]
    /\ UNCHANGED <<users, account, recorded, orders, captured, user, claims,
                   peak>>

\* Mutant: the counter is capped at the limit that was tested.
RecordCapped(c) ==
    /\ pc[c] = "admitted"
    /\ recorded' = recorded \cup {c}
    /\ used' = [used EXCEPT ![user[c]] = Min2(@ + 1, limit[user[c]])]
    /\ pc' = [pc EXCEPT ![c] = "served"]
    /\ UNCHANGED <<users, plan, limit, orders, captured, user, claims, peak>>

\* Mutant: the row as it was tested is written back, with the new count.
RecordWholeRow(c) ==
    /\ pc[c] = "admitted"
    /\ recorded' = recorded \cup {c}
    /\ used' = [used EXCEPT ![user[c]] = @ + 1]
    /\ plan' = [plan EXCEPT ![user[c]] = "free"]
    /\ limit' = [limit EXCEPT ![user[c]] = FreeLimit]
    /\ pc' = [pc EXCEPT ![c] = "served"]
    /\ UNCHANGED <<users, orders, captured, user, claims, peak>>

\* record_screening: the history row and the counter, in one transaction.
RecordScreening(c) ==
    /\ pc[c] = "admitted"
    /\ recorded' = recorded \cup {c}
    /\ used' = [used EXCEPT ![user[c]] = @ + 1]
    /\ pc' = [pc EXCEPT ![c] = "served"]
    /\ UNCHANGED <<users, plan, limit, orders, captured, user, claims, peak>>

----------------------------------------------------------------------------
\* POST /payments/order: the provider creates the order, and its answer
\* arrives or not (502).
AskProvider(o, u) ==
    /\ pc[o] = "new"
    /\ u \in users
    /\ user' = [user EXCEPT ![o] = u]
    /\ \E outcome \in {"made", "badGateway"} :
         pc' = [pc EXCEPT ![o] = outcome]
    /\ UNCHANGED <<users, account, recorded, orders, captured, claims, peak>>

\* The order is stored, pending, and its id given to the browser.
StoreOrder(o) ==
    /\ pc[o] = "made"
    /\ orders' = [orders EXCEPT ![o] = "pending"]
    /\ pc' = [pc EXCEPT ![o] = "issued"]
    /\ UNCHANGED <<users, account, recorded, captured, user, claims, peak>>

\* The user pays at the provider, which signs the payment.
Pay(o) ==
    /\ pc[o] = "issued"
    /\ o \notin captured
    /\ captured' = captured \cup {o}
    /\ UNCHANGED <<users, account, recorded, orders, pc, user, claims, peak>>

\* POST /auth/upgrade with a signature that is not the provider's: 400.
RejectSignature(v, u, o) ==
    /\ pc[v] = "new"
    /\ u \in users
    /\ pc' = [pc EXCEPT ![v] = "badSignature"]
    /\ user' = [user EXCEPT ![v] = u]
    /\ claims' = [claims EXCEPT ![v] = o]
    /\ UNCHANGED <<users, account, recorded, orders, captured, peak>>

\* Mutant: the UPDATE does not ask for status = 'pending'.
ClaimableAgain(u, o) == orders[o] # "none" /\ user[o] = u

\* Mutant: the UPDATE does not ask for the user_id.
ClaimableByAll(u, o) == orders[o] = "pending"

\* The WHERE clause of claim_payment_order.
Claimable(u, o) == orders[o] = "pending" /\ user[o] = u

\* The signature is good, which only that of a payment made can be: claim
\* the order, or answer 409.
ClaimOrder(v, u, o) ==
    /\ pc[v] = "new"
    /\ u \in users
    /\ o \in captured
    /\ user' = [user EXCEPT ![v] = u]
    /\ claims' = [claims EXCEPT ![v] = o]
    /\ IF Claimable(u, o)
       THEN /\ orders' = [orders EXCEPT ![o] = "paid"]
            /\ pc' = [pc EXCEPT ![v] = "claimed"]
       ELSE /\ pc' = [pc EXCEPT ![v] = "conflict"]
            /\ UNCHANGED orders
    /\ UNCHANGED <<users, account, recorded, captured, peak>>

\* Mutant: the Pro quota is added to the free one.
UpgradeAdds(v) ==
    /\ pc[v] = "claimed"
    /\ plan' = [plan EXCEPT ![user[v]] = "pro"]
    /\ limit' = [limit EXCEPT ![user[v]] = @ + ProLimit]
    /\ pc' = [pc EXCEPT ![v] = "upgraded"]
    /\ UNCHANGED <<users, used, recorded, orders, captured, user, claims,
                   peak>>

\* upgrade_to_pro, a transaction of its own.
UpgradeToPro(v) ==
    /\ pc[v] = "claimed"
    /\ plan' = [plan EXCEPT ![user[v]] = "pro"]
    /\ limit' = [limit EXCEPT ![user[v]] = ProLimit]
    /\ pc' = [pc EXCEPT ![v] = "upgraded"]
    /\ UNCHANGED <<users, used, recorded, orders, captured, user, claims,
                   peak>>

----------------------------------------------------------------------------
\* Clients need not send anything: the system may stop anywhere.
Next ==
    \/ \E s \in Signups : LookUpEmail(s) \/ InsertUser(s)
    \/ \E c \in Screenings :
         \/ \E u \in Signups : AdmitScreening(c, u) \/ RefuseScreening(c, u)
         \/ AbandonScreening(c) \/ RecordScreening(c)
    \/ \E o \in Orders :
         \/ \E u \in Signups : AskProvider(o, u)
         \/ StoreOrder(o) \/ Pay(o)
    \/ \E v \in Upgrades :
         \/ \E u \in Signups, o \in Orders :
              RejectSignature(v, u, o) \/ ClaimOrder(v, u, o)
         \/ UpgradeToPro(v)
    \/ \E c \in Calls : Stop(c)

Spec == Init /\ [][Next]_vars

----------------------------------------------------------------------------
CallSteps ==
    {"new", "stopped", "checked", "conflict", "created", "serverError",
     "refused", "admitted", "unserved", "served", "made", "badGateway",
     "issued", "badSignature", "claimed", "upgraded"}

TypeOK ==
    /\ users \subseteq Signups
    /\ plan \in [Signups -> {"free", "pro"}]
    /\ used \in [Signups -> Nat]
    /\ limit \in [Signups -> {FreeLimit, ProLimit}]
    /\ recorded \subseteq Screenings
    /\ orders \in [Orders -> {"none", "pending", "paid"}]
    /\ captured \subseteq Orders
    /\ pc \in [Calls -> CallSteps]
    /\ user \in [Screenings \cup Orders \cup Upgrades -> Signups \cup {Nobody}]
    /\ claims \in [Upgrades -> Orders \cup {Nobody}]
    /\ peak \in [Signups -> Nat]

\* However signups for one address interleave, one account results.
OneAccountPerEmail ==
    \A u, w \in users : Email[u] = Email[w] => u = w

\* What the quota is worth.  It is tested before the ranking is awaited and
\* counted after it, so that a free account may exceed its limit by the
\* screenings it had under way at once, less one: who never overlaps two
\* keeps the limit exactly.
QuotaWithinOverlap ==
    \A u \in users : plan[u] = "free" /\ Email[u] \notin Admins =>
        used[u] + Cardinality(UnderWay(u)) <= limit[u] - 1 + peak[u]

\* The counter of an account agrees with its history, whatever overlaps,
\* fails or stops, and every screening that was answered is in both.
UsageMatchesHistory ==
    /\ \A u \in users :
         used[u] = Cardinality({c \in recorded : user[c] = u})
    /\ \A c \in Screenings : pc[c] = "served" => c \in recorded

\* Nobody is Pro without an order of their own that was paid for.
ProIsPaidFor ==
    \A u \in users : plan[u] = "pro" =>
        \E o \in captured : user[o] = u /\ orders[o] = "paid"

\* A payment is used once: of all the calls that present an order, one gets
\* through.
OrderUsedOnce ==
    \A v, w \in Upgrades :
        /\ {pc[v], pc[w]} \subseteq {"claimed", "upgraded"}
        /\ claims[v] = claims[w]
        => v = w

\* Who has been told of the upgrade stays Pro, screenings under way included.
UpgradeLasts ==
    \A v \in Upgrades : pc[v] = "upgraded" =>
        plan[user[v]] = "pro" /\ limit[user[v]] = ProLimit

\* What the 409 of /auth/upgrade tells the client: "This payment has already
\* been used, or does not belong to your account."
ConflictIsTrue ==
    \A v \in Upgrades : pc[v] = "conflict" =>
        \/ user[claims[v]] # user[v]
        \/ \E w \in Upgrades :
             claims[w] = claims[v] /\ pc[w] \in {"claimed", "upgraded"}
=============================================================================
