---------------------------- MODULE MCRuleCases ----------------------------
(* Inputs at and around every limit of the rules. *)
EXTENDS RuleCases

MCFundings == {-41, -40, -21, -20, 0, 20, 21, 40, 41}
MCInterests == {100, 101, 110, 111, 120, 121}
MCFewFundings == {0, 20, -21}
MCFewInterests == {100, 110, 111}

\* One price of 100 with ranges of 10 and 20; 100 and 160 make a stop-loss
\* that the 30% limit moves.
MCPrices == {90, 100, 110, 160}
MCFewPrices == {90, 100, 110}
MCAtrs == {1, 4, 7}
MCVols == {<<100, 106, 112>>, <<100, 106, 100>>}

\* Around the stop-losses and at 2.5 ranges from the grid.
MCEstimates == {0, 40000, 65000, 84000, 90000, 110000, 126000, 135000, 160000, 210000}
MCFewEstimates == {65000, 90000, 135000}

\* Around the default limits and those of the overrides; 1000 is far in RED.
MCMetricSets ==
    [liq : {0, 50, 100, 150}, pnl : {-151, -50, -30}, fill : {600, 851}, vol : {60, 1000},
     funding : {-301, -150, 301}, adx : {250, 351}]
MCWorsenings == {-1000, -151, -150, -80, 49, 74, 99, 100, 121, 151, 301, 350, 901, 1000}

\* The limits are 5, 7.5 and 10 percent of the price.
MCOrderPrices == {0, 900, 901, 925, 950, 951, 1049, 1050, 1075, 1100, 1101}
MCLastPrices == {1000}

===========================================================================
