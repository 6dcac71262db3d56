---------------------------- MODULE MCCondition ----------------------------
(* Texts of six tokens or fewer, as somebody may write them by hand.       *)
EXTENDS Condition

CONSTANTS x, y, v, w

MCTokens ==
    {OpenParen, CloseParen, Not, Word("and"), Word("or"),
     Comparison(Leaf(x, "eq", {v})), Comparison(Leaf(y, "eq", {v}))}

MCTexts == UNION {[1..n -> MCTokens] : n \in 1..6}
=============================================================================
