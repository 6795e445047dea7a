-------------------------- MODULE MCPaymasterSetup --------------------------
EXTENDS PaymasterSetup, TLC

=============================================================================
