-------------------------- MODULE MCWalletIndexer ---------------------------
EXTENDS WalletIndexer
=============================================================================
