\* Two requests at a time, next to cmd/breakglass.
SPECIFICATION Spec
CONSTANTS
  Emails = {a, b, c}
  Seed = {a, b}
  Requests = {q1, q2}
  Nobody = Nobody
INVARIANTS
PROPERTIES
  LastEmailStays
