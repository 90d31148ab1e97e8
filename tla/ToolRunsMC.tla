------------------------------ MODULE ToolRunsMC ------------------------------
\* Values for the constants of ToolRuns: two calls that make copies of different numbers and orders.
EXTENDS ToolRuns
CONSTANTS first, second, strong, weak, m1, m2
TwoTops == <<strong, weak>>
BothOrders == [c \in Calls |-> IF c = first THEN <<m1, m2>> ELSE <<m2>>]
=============================================================================
