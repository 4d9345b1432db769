----------------------------- MODULE MCSettlement -----------------------------
(* Small instances of Settlement for TLC, and what its comment promises. *)
EXTENDS Settlement, FiniteSetsExt

CONSTANTS MaxUser, MaxCents

MCUsers == 1..MaxUser
MCCurrencyOrder == <<"EUR", "USD">>

\* Every balance that adds up to zero give or take a cent, and two
\* small ones in the second currency.
MCInputs ==
    [{"EUR"} -> {bal \in [MCUsers -> -MaxCents..MaxCents] :
                     MapThenSumSet(LAMBDA u : bal[u], MCUsers) \in -1..1}]

WithSecondCurrency ==
    {[cur \in {"EUR", "USD"} |-> IF cur = "EUR" THEN f["EUR"] ELSE g] :
        f \in MCInputs,
        g \in {[u \in MCUsers |-> 0],
               [u \in MCUsers |-> IF u = 1 THEN 2 ELSE IF u = 2 THEN -3 ELSE 0]}}

\* One currency, adding up to zero.
OneCurrency == <<"EUR">>
ZeroSum ==
    {f \in MCInputs : MapThenSumSet(LAMBDA u : f["EUR"][u], MCUsers) = 0}

----------------------------------------------------------------------------
\* The reference

\* The fewest transfers that settle a zero-sum balance: everybody with a balance,
\* minus the largest number of groups that settle among themselves.
FewestTransfers(bal) ==
    LET open == {u \in Users : bal[u] # 0}
        Splits(k) == \E f \in [open -> 1..k] :
                        \A part \in 1..k :
                            LET P == {u \in open : f[u] = part}
                            IN  P # {} /\ MapThenSumSet(LAMBDA u : bal[u], P) = 0
    IN  Cardinality(open) - Max({0} \cup {k \in 1..Cardinality(open) : Splits(k)})

\* settlement.go:20, "CalculateSettlements computes minimal transfers to settle all
\* debts".
MinimalTransfers ==
    Done => Len(suggestions) = FewestTransfers(balances["EUR"])

=============================================================================
