\* One user, two matters, one document, one upload, no fault.
SPECIFICATION Spec
CONSTANTS
  u1 = u1
  u2 = u2
  d1 = d1
  d2 = d2
  m1 = m1
  m2 = m2
  m3 = m3
  User = {u1}
  Matter = {m1, m2}
  Doc = {d1}
  Job = {j1}
  Org <- Orgs
  Default <- Defaults
  Owner <- Owners
  None = None
  Faults = 0
PROPERTIES ArchivedReadOnly
