----------------------------- MODULE MCLiveFeed -----------------------------
\* LiveFeed with two tabs of one user; Queries over all small tables.
EXTENDS LiveFeed, Queries

MCOwner == [t \in Tab |-> CHOOSE u \in User : TRUE]

SmallTables ==
  UNION {{r \in [1..n -> 1..4] : \A i \in 2..n : r[i] <= r[i - 1]} : n \in 1..6}

SmallLinks ==
  {[src |-> "ip1", dst |-> "d1", bytes |-> 1], [src |-> "ip2", dst |-> "d1", bytes |-> 2],
   [src |-> "unknown", dst |-> "d2", bytes |-> 1], [src |-> "g1", dst |-> "d1", bytes |-> 1],
   [src |-> "u1", dst |-> "d2", bytes |-> 2]}

SmallFilters ==
  [src_cidr : {{}, {"ip1"}}, dst_app : {"", "d1"}, group : {{}, {"g1"}}, user : {"", "u1"},
   exclude : {{}, {"unknown"}}]
    \cup [src_cidr : {Invalid}, dst_app : {"", "d1"}, group : {{}}, user : {""}, exclude : {{}}]

SmallHistory == [bucket : 1..2, src : {"ip1"}, dst : {"d1", "d2"}, proto : 1..2, bytes : {1}]

=============================================================================
