---------------------------- MODULE MCPublishPath ----------------------------
\* PublishPath on a small instance: three windows through queues of one flow.
EXTENDS PublishPath
=============================================================================
