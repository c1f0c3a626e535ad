CONSTANTS
    Users = {ann, bob}
    Apps = {app}
    Scopes = {"identity"}
    Clients = {c1, c2}
    Nonces = {n1}
    Codes = {k1}
    Devices = {d1}
    Secrets = {x0, x1, x2}
    None = None
    RoleAnswers <- LoginRoles
    Young = {bob}
    AppScopes <- LoginScopes
    CredsScopes <- LoginScopes
    Owner <- LoginOwner
    MaxRequests = 3
    MaxFailures = 1
    MaxLate = 1
    x0 = x0
    app = app
    OpenSessions <- LoginOpen
    OpenCodes <- LoginCodes
    ann = ann
    bob = bob
    c1 = c1
    c2 = c2
SYMMETRY LoginSymmetry
SPECIFICATION Spec
INVARIANTS
    TypeOK
    LoginsAreLogged
    CodeIsSpent
    DeliveredOnce
CHECK_DEADLOCK FALSE
