----------------------------- MODULE MCAccounts -----------------------------
(* Two signups for one address and a third for another, which is that of   *)
(* an administrator; screenings, orders and upgrade calls are              *)
(* interchangeable.                                                        *)
EXTENDS Accounts, TLC

CONSTANTS s1, s2, s3, c1, c2, o1, o2, v1, v2

MCSignups == {s1, s2, s3}
MCEmail == (s1 :> "ann") @@ (s2 :> "ann") @@ (s3 :> "bob")
MCScreenings == {c1, c2}
MCOrders == {o1, o2}
MCUpgrades == {v1, v2}
MCAdmins == {"bob"}

MCSymmetry ==
    Permutations({s1, s2}) \cup Permutations(MCScreenings) \cup
    Permutations(MCOrders) \cup Permutations(MCUpgrades)
=============================================================================
