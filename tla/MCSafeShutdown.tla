----------------------------- MODULE MCSafeShutdown -----------------------------
EXTENDS SafeShutdown
CONSTANTS o1, o2
TwoOwners == {o1, o2}
OneDashboard == {"asset"}
=============================================================================
