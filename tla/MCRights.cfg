CONSTANTS
  Users = {auth, alice, bob}
  Trustees = {alice}
  AUTH = auth
  Roles = {"manager", "clerk"}
  Perms = {"roleManage", "userManage"}
  RoleManage = "roleManage"
  UserManage = "userManage"
  MaxId = 2
  NoUser = nouser
  ARTIST = artist
  People = {ann, bob}
  Nobody = nobody
  Texts = {"a", "b"}
  Levels = {"none", "vip"}
  NoLevel = "none"
  Statuses = {"on", "off"}
SPECIFICATION MCSpec
INVARIANTS RightsTypeOK NoDanglingGrants OneRowPerRight
PROPERTIES ManagersRemain OwnRowOnly
CHECK_DEADLOCK FALSE
