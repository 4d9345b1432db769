------------------------------ MODULE MCHistory ------------------------------
(* Small instances of GroupHistory for TLC. *)
EXTENDS GroupHistory

CONSTANTS a, b, c, d, e, EUR, USD

MCCurrencies == {EUR, USD}
MCIds == 1..3
MCDates == {1, 2}

\* All equal; a counts double; c has left the group.
MCWeightings ==
    { [u \in {a, b, c} |-> 1],
      [u \in {a, b, c} |-> IF u = a THEN 2 ELSE 1],
      [u \in {a, b} |-> 1] }

Expense(p, S, n, cur) ==
    [kind |-> "expense", payer |-> p, beneficiaries |-> S, amount |-> n, currency |-> cur]
Transfer(p, q, n, cur) ==
    [kind |-> "transfer", sender |-> p, receiver |-> q, amount |-> n, currency |-> cur]
Conversion(x, y, n, m) ==
    [kind |-> "conversion", from |-> x, to |-> y, rate |-> [num |-> n, den |-> m]]

MCTemplates ==
    { Expense(a, {a, b, c}, 10, EUR), Expense(b, {}, 1, EUR), Expense(a, {c}, 7, USD),
      Transfer(b, a, 3, EUR),
      Conversion(EUR, USD, 3, 2), Conversion(USD, EUR, 1, 3) }

\* Five members share 2 cents.
DriftWeightings == {[u \in {a, b, c, d, e} |-> 1]}
DriftTemplates == {Expense(a, {b, c, d, e}, 2, EUR), Expense(b, {a, c, d}, 1, EUR)}

=============================================================================
