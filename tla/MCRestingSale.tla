----------------------------- MODULE MCRestingSale -----------------------------
EXTENDS RestingSale, TLC
CONSTANTS connection
OneConnection == {connection}
NoOne == {}
=============================================================================
