CONSTANTS
  Len = 20
  Attempts = 2
  WordBytes = 8
  FreeDivisor = 4
  SizeModulus = 1024
  IntModulus = 64
  Requests = {1, 17, 40}
  Payload = {5}
SPECIFICATION Spec
INVARIANT NoFalsePanic
