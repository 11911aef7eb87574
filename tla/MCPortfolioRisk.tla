--------------------------- MODULE MCPortfolioRisk ---------------------------
EXTENDS PortfolioRisk

CONSTANTS m1, m2

(* Two books between which a quote moves either way, one of them thin.     *)
MCBooks == {[bid |-> 400, ask |-> 500, depth |-> 5000],
            [bid |-> 500, ask |-> 800, depth |-> 1000]}

(* A strong NO, a modest YES, and a YES at a price outside the limits.     *)
MCViews == {[edge |-> -250, q |-> 500], [edge |-> 100, q |-> 500],
            [edge |-> 250, q |-> 4]}

(* No position; one close to its cap and one at it; one too many.          *)
MCLedgers ==
    LET near  == [market |-> m1, side |-> "no", size |-> 2000, avg_price |-> 500]
        atCap == [market |-> m2, side |-> "yes", size |-> 3000, avg_price |-> 500]
        small == [market |-> m2, side |-> "no", size |-> 100, avg_price |-> 500]
    IN  {{}, {near, atCap}, {near, atCap, small}}

(* An untouched account, and one that a fee decides about.                *)
MCEarlier == {0, 9595}
=============================================================================
