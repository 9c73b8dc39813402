---------------------------- MODULE MCEndpoint ----------------------------
\* A small deployment: an edited file keeps its length, a part of one does not.
EXTENDS Endpoint
MCLength == [none |-> 0, whole |-> 2, edited |-> 2, part |-> 1]
===========================================================================
