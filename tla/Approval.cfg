\* Two asks of one tool call (a retry), two Editors, three mismatching answers before a
\* card expires.  (One call publishes one card: PendingMax and Keep are not reached.)
SPECIFICATION FairSpec
CONSTANTS
  c1 = c1
  c2 = c2
  e1 = e1
  e2 = e2
  k1 = k1
  Cards = {c1, c2}
  Calls = {k1}
  Desktops = {app, other}
  App = app
  Editors = {e1, e2}
  Owner = owner
  Nobody = nobody
  PendingMax = 1
  ReopenMax = 3
  Keep = 1
INVARIANTS TypeOK ToldTruly OncePerCall
PROPERTIES ImplementsPermit FirstValidWins CardsSettle
CHECK_DEADLOCK FALSE
