SPECIFICATION Spec
CONSTANTS
  Vendors = {"Aruba", "Cisco", "Fortiswitch"}
  Places = {"login", "password", "new", "confirm", "user", "enable", "exec", "config", "dialog", "pager", "expired"}
  Sleeps = {0, 1, 3, 12}
  MaxRetries = 2
  MaxLate = 10
INVARIANT ConnectedIsLoggedIn
INVARIANT TriesAreFew
INVARIANT FactorySwitchIsBootstrapped
