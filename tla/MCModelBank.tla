----------------------------- MODULE MCModelBank -----------------------------
EXTENDS ModelBank
=============================================================================
