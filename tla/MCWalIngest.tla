----------------------------- MODULE MCWalIngest -----------------------------
EXTENDS WalIngest
=============================================================================
