-------------------------- MODULE MCGroupMembership --------------------------
\* GroupMembership on a small instance, in which a notification can come while
\* a reload runs, and Aggregation over all buckets of up to three rows, and over
\* all pairs of buckets of up to two.
EXTENDS GroupMembership, Aggregation

\* Rows of two users or none, in groups 1 to 3 of sizes 1, 2 and 1 (3 is
\* excluded); each row has its own number of bytes.
BucketRows(n, upns, dsts) ==
  {[i \in 1..n |-> [upn |-> r[i].upn, groups |-> r[i].groups, dst |-> r[i].dst,
                     ip |-> i, bytes |-> 2 ^ i]]
     : r \in [1..n -> [upn : upns, groups : SUBSET {1, 2} \cup {{2, 3}}, dst : dsts]]}

Upns == User \cup {Unknown}
Dsts == {"d1", "d2"}

(***************************************************************************)
(* The links of a bucket add up to its rows per destination, in every      *)
(* group_by mode, whatever the cache holds.  In group mode all known users *)
(* of a destination are shown as one group that each was in by the rows    *)
(* the decision was made from, also when a reload gave rows of one user    *)
(* different groups within the bucket, or each user is shown.  Until the   *)
(* cache is cleared that decision may be an earlier bucket's, by which a   *)
(* user who has left the group since is still shown in it.                 *)
(***************************************************************************)
StrandsAddUp ==
  Init => \A limit \in 0..1 :
    LET Filled(had, bucket) == Decided(had, bucket, <<1, 2, 1>>, {3}, limit)
    IN  /\ \A n \in 1..3 : \A bucket \in BucketRows(n, Upns, Dsts) :
           \A mode \in {"group", "user", "src_ip"} :
             LET links == Aggregate(Filled(NoDecision, bucket), bucket, mode)
             IN  Conserved(bucket, links) /\ (mode = "group" => Grouped(<<>>, bucket, links, {3}))
        /\ \A m, n \in 1..2 : \A earlier \in BucketRows(m, User, {"d1"}) :
           \A bucket \in BucketRows(n, Upns, Dsts) :
             LET links == Aggregate(Filled(Filled(NoDecision, earlier), bucket), bucket, "group")
             IN  Conserved(bucket, links) /\ Grouped(earlier, bucket, links, {3})
=============================================================================
