----------------------------- MODULE MCAccounts -------------------------------
(* Accounts for TLC: the accounts other than the seed's are interchangeable,  *)
(* and a request gives a role, less than super administrator, or switches the *)
(* account off (an administrator comes back by promotion); new accounts get   *)
(* any role.                                                                  *)
EXTENDS Accounts, TLC

CONSTANT Others
Interchangeable == Permutations(Others) \cup Permutations(Slot)
OneChange == [give: {"ORG_ADMIN"} \cup Lesser, set: {None}] \cup [give: {None}, set: {"INACTIVE"}]
=============================================================================
