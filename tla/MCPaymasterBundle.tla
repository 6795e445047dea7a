-------------------------- MODULE MCPaymasterBundle --------------------------
EXTENDS PaymasterBundle, TLC

CONSTANTS s1, s2, n1, n2, n3, hundred, thousand, dollars

W(n, s, a, f, p) == [note |-> n, recipient |-> s, asset |-> a, fee |-> f, toPaymaster |-> p]

\* Three pools, the last one of tokens.
MCPoolOf == (n1 :> hundred) @@ (n2 :> thousand) @@ (n3 :> dollars)

\* s1 has two ETH notes and a token note; there are other proofs for two of its notes,
\* so that s2 can hold grants on both pools of ether.
MCWithdrawals ==
    {W(n1, s1, Eth, 5, TRUE), W(n2, s1, Eth, 5, FALSE), W(n3, s1, Token, 10, TRUE),
     W(n1, s2, Eth, 4, TRUE), W(n2, s2, Eth, 5, TRUE)}

=============================================================================
