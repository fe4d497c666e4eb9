---------------------------- MODULE MCLockStore -----------------------------
EXTENDS LockStore
MCValues == 1..3
=============================================================================
