\* Two users with a default matter each and a document; or one user, two matters, two uploads;
\* or two uploads of one content on two workers. One fault.
SPECIFICATION WorkspaceSpec
CONSTANTS
  u1 = u1
  u2 = u2
  d1 = d1
  d2 = d2
  m1 = m1
  m2 = m2
  m3 = m3
  n1 = n1
  n2 = n2
  j1 = j1
  j2 = j2
  User = {u1, u2}
  Matter = {m1, m3}
  Doc = {d1}
  Job = {j1, j2}
  Org <- Orgs
  Default <- Defaults
  Owner <- Owners
  None = None
  Faults = 1
  Jobs = 2
  Content = {c1}
  MaxQueued = 2
  Workers = 2
INVARIANTS LeadsKept AuditComplete FiledOnce RegisteredIsReady
PROPERTIES UploadIsFiled DeletedIsGone JobEnds RoutingRecovers
