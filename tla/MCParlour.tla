----------------------------- MODULE MCParlour -----------------------------
EXTENDS Parlour

\* One or two ice creams; the toppings compete for a small stock, and one ice cream has
\* more toppings than there are kinds.
MCMenus == {<<[make |-> 2, tops |-> <<2, 1>>]>>,
            <<[make |-> 1, tops |-> <<1, 1, 1>>]>>,
            <<[make |-> 1, tops |-> <<1>>], [make |-> 1, tops |-> <<1, 1>>]>>}
MCWindows == {<<[start |-> 0, end |-> 3], [start |-> 1, end |-> 5]>>,
              <<[start |-> 1, end |-> 5], [start |-> 0, end |-> 3]>>}
MCStocks == {<<2, Unlimited>>, <<3, 1>>}
=============================================================================
