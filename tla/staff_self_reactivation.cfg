SPECIFICATION Spec
CONSTANTS
  Users = {u1, u2, u3}
  Disabled = {}
  Requests = {r1, r2}
  RoleChoices <- AnyRole
  Roles <- RoleKeys
  Permissions <- allPermissionKeys
  Grants <- permissionKeys
  NoOne = NoOne
  u1 = u1
  u2 = u2
  u3 = u3
  r1 = r1
  r2 = r2
PROPERTY
  NoSelfReactivation
