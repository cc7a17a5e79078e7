---------------------------- MODULE MCMorseSketch ----------------------------
EXTENDS MorseSketch
==============================================================================
