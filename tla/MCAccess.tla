------------------------------ MODULE MCAccess ------------------------------
EXTENDS Access, TLC

CONSTANTS r1

MCRoleLists == {{"OWNER"}, {r1}}
MCPermissionLists == {{"admin"}}
MCSymmetry == Permutations(Users) \cup Permutations(Requests)
                \cup Permutations(Subjects) \cup Permutations(Tenants)
=============================================================================
