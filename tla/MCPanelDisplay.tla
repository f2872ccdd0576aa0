--------------------------- MODULE MCPanelDisplay ---------------------------
(* PanelDisplay with two parameters of three and two levels and a position  *)
(* of the switches that selects nothing.                                    *)
EXTENDS PanelDisplay

MCTop == [p \in {0, 1} |-> IF p = 0 THEN 2 ELSE 1]
MCSelects == {0, 1, 6}
=============================================================================
