---------------------------- MODULE MCRelayerBoot ----------------------------
EXTENDS RelayerBoot

Good == [SIMULATE_WITH_BUNDLER |-> None, BUNDLER_URL |-> "url",
         ALLOWED_SENDER_IMPLEMENTATIONS |-> None, PRICE_SOURCE |-> "oneinch",
         FIXED_TOKENS_PER_ETH |-> {}, ALLOW_UNREGISTERED |-> FALSE]

\* Sound ones, and each way to be refused.
MCEnvironments == {
    Good,
    [Good EXCEPT !.PRICE_SOURCE = "fixed", !.FIXED_TOKENS_PER_ETH = {"dai"}, !.ALLOW_UNREGISTERED = TRUE],
    [Good EXCEPT !.PRICE_SOURCE = "none"],
    [Good EXCEPT !.BUNDLER_URL = None]}

MCTokenOf == [i \in Instances |-> IF i = "dai pool" THEN "dai" ELSE None]

=============================================================================
