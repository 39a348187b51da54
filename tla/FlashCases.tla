----------------------------- MODULE FlashCases -----------------------------
(***************************************************************************)
(* What the transaction builder is given in the runs: one pool per venue,  *)
(* routes of two and three hops, a Token-2022 mint, and lenders of which   *)
(* one is configured twice and one with an address that does not parse.    *)
(***************************************************************************)
EXTENDS Naturals

Owners == [sol |-> "Tokenkeg", usdc |-> "Tokenkeg", tok |-> "Tokenkeg", t22 |-> "TokenzQdBNbLqP5"]

P(dex, a, b, meta) ==
    [dex |-> dex, a |-> a, b |-> b, meta |-> meta, bins |-> {3, 4, 6}, active |-> 4]

ThePools ==
    [ray   |-> P("raydium", "tok", "sol", "whole"),
     part  |-> P("raydium", "tok", "sol", "part"),
     raw   |-> P("raydium", "tok", "sol", "none"),
     orca  |-> P("orca", "sol", "tok", "whole"),
     met   |-> P("meteora", "sol", "tok", "whole"),
     pump  |-> P("pumpswap", "tok", "sol", "none"),
     pumpb |-> P("pumpswap", "sol", "tok", "none"),
     usd   |-> P("orca", "usdc", "tok", "whole"),
     new   |-> P("raydium", "sol", "t22", "whole"),
     clmm  |-> P("clmm", "sol", "tok", "whole")]

Hop(p, in, out) == [pool |-> p, in |-> in, out |-> out, est |-> 11]
Route(hops, amount) ==
    [hops |-> hops, borrow |-> amount, gross |-> 1, net |-> 1, risk |-> 5]
Trip(p, q, amount) == Route(<<Hop(p, "sol", "tok"), Hop(q, "tok", "sol")>>, amount)

\* Only Kamino has the liquidity for a loan of 11; the last two do not pass the
\* preflight check.
TheRoutes ==
    {Trip("ray", "orca", 11), Trip("met", "pump", 10), Trip("pumpb", "ray", 10),
     Trip("ray", "clmm", 11), Trip("raw", "orca", 10), Trip("orca", "part", 10),
     Route(<<Hop("new", "sol", "t22"), Hop("new", "t22", "sol")>>, 10),
     Route(<<Hop("ray", "sol", "tok"), Hop("usd", "tok", "usdc"),
             Hop("usd", "usdc", "tok"), Hop("met", "tok", "sol")>>, 10),
     Route(<<Hop("usd", "usdc", "tok"), Hop("usd", "tok", "usdc")>>, 10),
     [Trip("met", "orca", 10) EXCEPT !.net = 0],
     [Trip("orca", "met", 10) EXCEPT !.risk = 100]}

\* Which of the two discriminators of Meteora is the program's is not in the
\* sources: it may know both.
Ops == {"9", "f8c6f491", "f8c69e91", "swap_v2", "buy", "sell", "jupiter"}

Environment ==
    <<[x \in {<<"MARGINFI_GROUP", "">>, <<"MARGINFI_ACCOUNT", "">>,
              <<"MARGINFI_BANK", "SOL">>, <<"KAMINO_LIQUIDITY_VAULT", "SOL">>,
              <<"SOLEND_RESERVE", "SOL">>} |-> "key"],
      [x \in {<<"KAMINO_MAIN_MARKET", "">>, <<"PORT_RESERVE", "SOL">>,
              <<"PORT_MAIN_MARKET", "">>, <<"SOLEND_RESERVE", "USDC">>,
              <<"KAMINO_LIQUIDITY_SUPPLY", "USDC">>, <<"MARGINFI_BANK", "SOL">>} |->
         IF x \in {<<"MARGINFI_BANK", "SOL">>, <<"KAMINO_LIQUIDITY_SUPPLY", "USDC">>}
         THEN "bad" ELSE "key"]>>

Banks == <<1>>
Fees == [marginfi |-> 0, port |-> 1, solend |-> 1, kamino |-> 1]
=============================================================================
