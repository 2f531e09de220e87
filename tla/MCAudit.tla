------------------------------- MODULE MCAudit -------------------------------
EXTENDS StockAudit, TLC
MCPoss(n, b) == [id |-> n, cells |-> b]
MCOrder == <<{1}, {1, 2}, {1, 3}, {1, 2, 3}>>
\* Four possibilities in three lists, three in one in every order, and fewer.
MCAudStocks ==
  {(0 :> <<MCPoss(1, MCOrder[b[1]]), MCPoss(2, MCOrder[b[2]])>> @@ 1 :> <<>>
    @@ 2 :> <<MCPoss(3, MCOrder[b[3]])>> @@ 3 :> <<MCPoss(4, MCOrder[b[4]])>>) :
     b \in {c \in [1 .. 4 -> 1 .. 4] : \A i \in 1 .. 3 : c[i] <= c[i + 1]}}
  \cup {(0 :> <<>> @@ 1 :> <<MCPoss(1, MCOrder[b[1]]), MCPoss(2, MCOrder[b[2]]), MCPoss(3, MCOrder[b[3]])>>
         @@ 2 :> <<>> @@ 3 :> <<>>) :
     b \in [1 .. 3 -> 1 .. 4]}
  \cup {[f \in AudFile |-> IF f < n THEN <<MCPoss(f + 1, {1})>> ELSE <<>>] : n \in 0 .. 2}
=============================================================================
