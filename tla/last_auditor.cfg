SPECIFICATION Spec
CONSTANTS
  Users = {u1, u2, u3, u4}
  Tiers = {"demo", "consultant", "admin"}
  Roles = {"super_admin", "security_audit", "product", "consultant_manager"}
  Sessions = {t1, t2}
  NULL = NULL
SYMMETRY Alike
INVARIANTS AuditorRemains
