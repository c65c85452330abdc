CONSTANTS
  alice = alice
  bob = bob
  carol = carol
  default = default
  minter = minter
  dave = dave
  one = one
  uno = uno
  two = two
  Accounts <- MCAccounts
  Roles <- MCRoles
  DEFAULT_ADMIN_ROLE = default
  Admin = alice
  Owners = {dave, erin, frank}
  ZERO = zero
  NoOne = nobody
  Beneficiaries = {dave, erin}
  Wallet = wallet
  Refusers = {erin}
  Tokens = {token}
  Ether = ether
  Starts = {1}
  Durations = {0, 4}
  MaxU256 = 8
  MaxTime = 5
  MaxPaid = 3
  Senders = {bob, carol}
  Logics = {one, uno, two}
  VERSION_NUMBER <- MCVersions
  Strangers = {stranger}
  Proxies = {proxy}
  BeaconProxies = {beaconProxy}
  BEACON = beacon
  MaxDepth = 2
SPECIFICATION MCSpec
SYMMETRY MCSymmetry
INVARIANTS MembersAreHolders OffersAreCurrent VestingIsKept ProxiesRunTheirVersion
PROPERTIES DeadRolesStayDead SuccessionIsInvited UpgradesGoForward
CHECK_DEADLOCK FALSE
