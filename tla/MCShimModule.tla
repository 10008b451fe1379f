---------------------------- MODULE MCShimModule ----------------------------
EXTENDS ShimModule
=============================================================================
