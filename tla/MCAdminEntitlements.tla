------------------------ MODULE MCAdminEntitlements ------------------------
EXTENDS AdminEntitlements, TLC

Alike == Permutations(Users) \cup Permutations(Sessions)
=============================================================================
