-------------------------- MODULE MCWeightStreaming --------------------------
EXTENDS WeightStreaming

\* No cache, and a span after which a block is left to acquire.
MCCacheSpans == {<<0, 0>>, <<1, 2>>}

\* Equal blocks, the last one larger, and blocks whose plans differ by a single byte.
MCBlockSizes == {<<2, 2, 2, 2, 2>>, <<1, 1, 1, 3>>, <<1, 2, 1, 1, 1>>}
=============================================================================
