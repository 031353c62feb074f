-------------------------- MODULE MCStreamConsumer --------------------------
\* StreamConsumer on a small instance: batches of two, one entry that does not parse, two faults.
EXTENDS StreamConsumer
=============================================================================
