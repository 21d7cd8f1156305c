SPECIFICATION Spec
CONSTANTS
  N = 2
  C = 2
  T = 2
  Seats = {1, 2}
  Windows <- MCWindows
  Stocks <- MCStocks
  Arrivals = {0, 1}
  Menus <- MCMenus
  Horizon = 6
INVARIANTS SeatsExact StockExact NobodyForgotten IdleAtEnd
