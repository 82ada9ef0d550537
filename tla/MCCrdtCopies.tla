----------------------------- MODULE MCCrdtCopies -----------------------------
EXTENDS CrdtCopies

MCUids == Holders \X (1..MaxUpdates)
MCNodes == 0..3
===============================================================================
