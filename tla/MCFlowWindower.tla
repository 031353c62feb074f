--------------------------- MODULE MCFlowWindower ---------------------------
\* FlowWindower on a small instance: two keys, windows of two time units, an output queue of one flow.
EXTENDS FlowWindower
=============================================================================
