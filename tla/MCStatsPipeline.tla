--------------------------- MODULE MCStatsPipeline ---------------------------
EXTENDS StatsPipeline
=============================================================================
