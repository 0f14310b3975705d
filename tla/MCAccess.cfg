SPECIFICATION Spec
CONSTANTS
    Tenants = {t1, t2}
    Users = {u1, u2, u3}
    Subjects = {s1, s2, s3}
    Invites = {i1}
    Roles = {r1}
    Requests = {q1, q2}
    RoleLists <- MCRoleLists
    PermissionLists <- MCPermissionLists
    None = None
    r1 = r1
SYMMETRY MCSymmetry
INVARIANTS
    EveryTenantHasOwner
    OneAccountPerIdentity
    RolesStayInTenant
    InviteReusedOnlyInARace
