------------------------- MODULE MCCrawlerArticles -------------------------
EXTENDS CrawlerArticles
CONSTANTS u1, u2
\* The third page lists an article again; the last links back to the first.
MCLinks == <<<<>>, <<u1>>, <<u1>>, <<u2>>>>
MCNextPage == <<2, 3, 4, 1>>
MCSeeds == <<3>>
MCConfigs == {[mode |-> "dom", force |-> TRUE, depth |-> 0],
              [mode |-> "dom", force |-> FALSE, depth |-> 2],
              [mode |-> "pure", force |-> FALSE, depth |-> 0],
              [mode |-> "mixed", force |-> FALSE, depth |-> 0]}
============================================================================
