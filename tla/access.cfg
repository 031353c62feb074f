SPECIFICATION Spec
CONSTANTS
  Group = {"editors"}
  RoleMap <- MCRoleMap
  Kid = {k1, k2}
  None = None
  AccessTtl = 1
  SessionTtl = 3
  CookieAge = 3
  StateAge = 1
  TokenTtl = 1
  MaxNow = 3
  MaxLogins = 2
  MaxChanges = 1
INVARIANTS GrantsAreCurrent CookiesLiveTogether
PROPERTY SignOutWorks
