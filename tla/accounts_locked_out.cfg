SPECIFICATION UserSpec
CONSTANTS
  Accounts = {u1, u2, u3}
  Roles = {"ADMIN", "STAFF"}
  Managers = {r1}
INVARIANT SomebodyManages
