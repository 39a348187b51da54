--------------------------- MODULE MCTransactions ---------------------------
(***************************************************************************)
(* What becomes of a route that is worth a transaction: the lookup tables  *)
(* that compress it, created and kept by threads of their own, and the     *)
(* transaction itself, built and executed.  A table changes how a          *)
(* transaction is written and not what it does, so a behaviour runs one of *)
(* them (part).                                                            *)
(***************************************************************************)
EXTENDS MCAltCache, FlashCases, Integers, Sequences

\* The constants of FlashTx; FlashCases has their values.
CONSTANTS Pools, FlashRoutes, KnownOps, MinProfit, Wsol, Usdc, OwnerOf, Env, ActiveBanks, Fee,
          Collateral, Outputs, OwnFunds, MaxAccounts, Forgets

VARIABLES part, route, programs, forgot, lenders, tx, own, run, status

flashVars == <<route, programs, forgot, lenders, tx, own, run, status>>

Flash == INSTANCE FlashTx WITH Routes <- FlashRoutes

\* What the executor is given: hops over mints that exist, amounts, fees and
\* balances that are natural numbers.
Hops == [pool : DOMAIN Pools, in : DOMAIN OwnerOf, out : DOMAIN OwnerOf, est : Nat]
Executable ==
    /\ FlashRoutes \subseteq [hops : Seq(Hops), borrow : Nat, gross : Nat, net : Int, risk : Nat]
    /\ Fee \in [Flash!Providers -> Nat]
    /\ Outputs \subseteq Nat /\ OwnFunds \subseteq Nat /\ Forgets \in Nat

ASSUME ExecutableAssumption == Executable

MCInit ==
    /\ Init
    /\ part \in {"tables", "flash"}
    /\ IF part = "flash" THEN Flash!Init
       ELSE /\ route = "none" /\ programs = "none" /\ forgot = 0 /\ lenders = "none"
            /\ tx = "none" /\ own = "none" /\ run = "none" /\ status = "none"

MCNext ==
    /\ UNCHANGED part
    /\ \/ part = "tables" /\ Next /\ UNCHANGED flashVars
       \/ part = "flash" /\ Flash!Next /\ UNCHANGED vars

MCSpec == MCInit /\ [][MCNext]_<<part, vars, flashVars>>

-----------------------------------------------------------------------------
\* The flash loans of a built transaction open and close around its swaps,
\* whatever stands before them (build_flash_arb and the builders of the
\* providers); and the states have their types.
LoansAreBracketed ==
    TypeOK /\ (part = "flash" => Flash!TypeOK /\ Flash!BracketsClose)

\* What helios-arb executes is the route: the accounts it is given, directly or
\* through the Port receiver, fall into those of each hop (execute_hops).
TransactionsAreRoutes == part = "flash" => Flash!PlanIsTheRoute

\* Loans are bracketed, a transaction that lands has repaid what it borrowed,
\* and through the arbitrage program it costs its payer at most the loan's fee,
\* whatever the pools yield (build_flash_arb, helios-arb).
LandedIsSafe ==
    /\ LoansAreBracketed
    /\ part = "flash" => Flash!RepaidWhenLanded /\ Flash!HeliosCostsAtMostTheFee

\* "The flash loan repay IS the slippage check" (tx_builder.rs): not so.
RepayIsTheSafetyNet == part = "flash" => Flash!RepayIsTheSafetyNet
=============================================================================
