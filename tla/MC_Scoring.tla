----------------------------- MODULE MC_Scoring -----------------------------
(* Instances of Scoring for TLC. *)
EXTENDS Scoring

CONSTANTS c1, l1

\* Piecewise linear tanh(x) and x^0.85, in thousandths.
Between(x, x0, y0, x1, y1) == y0 + ((x - x0) * (y1 - y0)) \div (x1 - x0)
MCTanh(x) ==
    IF x < 200 THEN Between(x, 0, 0, 200, 197)
    ELSE IF x < 500 THEN Between(x, 200, 197, 500, 462)
    ELSE IF x < 1000 THEN Between(x, 500, 462, 1000, 761)
    ELSE IF x < 2000 THEN Between(x, 1000, 761, 2000, 964) ELSE 1000
MCCurve(x) ==
    IF x < 50 THEN Between(x, 0, 0, 50, 78)
    ELSE IF x < 250 THEN Between(x, 50, 78, 250, 307)
    ELSE IF x < 500 THEN Between(x, 250, 307, 500, 554) ELSE Between(x, 500, 554, 1000, 1000)

\* No history (old and new on the network, active and not), the first repaid
\* loans, records with cured defaults, one blacklisted, one in debt, one in
\* default.
Row(bl, out, unc, days, rech, tk, rec, cr, cl) ==
    [blacklisted |-> bl, outstanding |-> out, uncured |-> unc, days |-> days,
     recharges |-> rech, taken |-> tk, recovered |-> rec, curedRecent |-> cr, curedLifetime |-> cl]
MCRows == {Row(FALSE, 0, FALSE, 59, 30, 0, 0, 0, 0), Row(FALSE, 0, FALSE, 400, 4, 0, 0, 0, 0)}
          \union {Row(FALSE, 0, FALSE, 400, 30, tk, tk, 0, 0) : tk \in {0, 1, 2}}
          \union {Row(FALSE, 0, FALSE, 400, 30, tk, tk - 1, 1, 2) : tk \in {4, 12}}
          \union {Row(TRUE, 0, FALSE, 400, 30, 12, 12, 0, 0), Row(FALSE, 1, FALSE, 400, 30, 12, 11, 0, 0),
                  Row(FALSE, 0, TRUE, 400, 30, 12, 10, 0, 1)}
MCLoans == l1 :> 1400
MCEdits == {[velocityExtreme |-> Missing], 
            [velocityExtreme |-> 2, velocityThreshold |-> 0, partnerCapNaira |-> 4950,
             exposureHaltPct |-> 900]}
=============================================================================
