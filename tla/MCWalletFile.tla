---------------------------- MODULE MCWalletFile ----------------------------
EXTENDS WalletFile
=============================================================================
