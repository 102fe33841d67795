----------------------------- MODULE MCPageVfs ------------------------------
EXTENDS PageVfsRefinement
=============================================================================
