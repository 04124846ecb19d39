------------------------------ MODULE MCSession ------------------------------
EXTENDS AutoTraderSession

Setup(source, onCorrupt, onStale, emptyFresh, spot, minValue, maxDrawdown) ==
    [source |-> source, persist |-> source = "kraken", onCorrupt |-> onCorrupt,
     onStale |-> onStale, emptyFresh |-> emptyFresh, safety |-> minValue + maxDrawdown > 0, spot |-> spot,
     minValue |-> minValue, maxDrawdown |-> maxDrawdown]

\* Both sources; every policy of the store; both trading models.
MCSetups ==
    { Setup("mock", "warn_reset", "warn_reset", TRUE, TRUE, 2, 40),
      Setup("kraken", "warn_reset", "warn_reset", TRUE, FALSE, 0, 40),
      Setup("kraken", "fail", "halt", FALSE, FALSE, 0, 0) }

MCHalting == { Setup("kraken", "fail", "halt", FALSE, FALSE, 0, 0) }
MCValues == {1, 2, 3}
=============================================================================
