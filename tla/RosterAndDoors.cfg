SPECIFICATION ServerSpec
CONSTANTS
    p1 = p1
    p2 = p2
    j1 = j1
    j2 = j2
    Person = {p1, p2}
    Layer = {l1}
    Unrestricted = admins
    Channel = {c1}
    Token = {t1}
    Session = {s1}
    Job = {j1, j2}
    Idle = Idle
    Nobody = Nobody
    MaxRequests = 4
    d1 = d1
    d2 = d2
    k1 = k1
    k2 = k2
    u1 = u1
    u2 = u2
    pub = pub
    hr = hr
    fin = fin
    note = note
    other = other
    page = page
    file = file
    again = again
    fresh = fresh
    Requests = {note, other, page, file, again, fresh}
    BackOffice = {other}
    Deliveries = {d1, d2}
    Keys = {k1, k2}
    KindOf <- MCKindOf
    KeyOf <- MCKeyOf
    Named <- MCNamed
    Says <- MCSays
    UploadOf <- MCUploadOf
    Doors = {pub, hr, fin}
    Everyone = pub
    Unset = Unset
    MaxSends = 2
    MaxChanges = 1
SYMMETRY Symmetric
CHECK_DEADLOCK FALSE
INVARIANTS  BarredNeverServes KeyIsOneSubmission
PROPERTIES AnAdministratorRemains
