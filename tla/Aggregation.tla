----------------------------- MODULE Aggregation -----------------------------
(***************************************************************************)
(* The Sankey links of one bucket: lcd and GroupAggregator.aggregate       *)
(* (correlator/pipeline/group_aggregator.py) as _build_group_delta of the  *)
(* publisher calls them.                                                   *)
(*                                                                         *)
(* A row is [upn, groups, ip, dst, bytes]; flows is summed as bytes is.    *)
(* Group ids are numbers, so that the tie-break by id has an order.  A     *)
(* cache maps the sets of users it has a decision for to a group, or to    *)
(* NoGroup (GroupMembership models when it is cleared).                    *)
(***************************************************************************)
EXTENDS Integers, Sequences, FiniteSets, FiniteSetsExt

CONSTANTS Unknown, NoGroup   \* the user "unknown"; lcd's None

\* The users' groups in a bucket: what the last row of each user says.
GroupsOf(rows, u) ==
  rows[Max({i \in DOMAIN rows : rows[i].upn = u})].groups

LcdOfAny(users, ug, size, excluded, floor) ==
  LET candidates == UNION {ug[u] : u \in users} \ excluded
      chosen == CHOOSE g \in candidates : \A h \in candidates :
                  size[g] < size[h] \/ (size[g] = size[h] /\ g <= h)
  IN  IF candidates = {} \/ (Cardinality(users) = 1 /\ size[chosen] > floor)
        THEN NoGroup ELSE chosen

\* lcd: the smallest group all users share, unless it is too large for one.
Lcd(users, ug, size, excluded, floor) ==
  LET candidates == {g \in UNION {ug[u] : u \in users} : \A u \in users : g \in ug[u]} \ excluded
      chosen == CHOOSE g \in candidates : \A h \in candidates :
                  size[g] < size[h] \/ (size[g] = size[h] /\ g <= h)
  IN  IF candidates = {} \/ (Cardinality(users) = 1 /\ size[chosen] > floor)
        THEN NoGroup ELSE chosen

KnownOf(rows, dst) == {rows[i].upn : i \in {k \in DOMAIN rows : rows[k].dst = dst}} \ {Unknown}

NoDecision == [k \in {} |-> NoGroup]

\* _cache after the bucket: the decisions it had, and one for every other set
\* of known users that shares a destination.
Decided(cache, rows, size, excluded, floor) ==
  LET keys == {KnownOf(rows, rows[i].dst) : i \in DOMAIN rows} \ {{}}
      Miss(k) == Lcd(k, [u \in k |-> GroupsOf(rows, u)], size, excluded, floor)
  IN  [k \in DOMAIN cache \cup keys |-> IF k \in DOMAIN cache THEN cache[k] ELSE Miss(k)]

\* label_for: the left-hand label of a known user's rows for dst.
LabelFor(cache, rows, dst, u, mode) ==
  LET chosen == cache[KnownOf(rows, dst)]
      own == {i \in DOMAIN rows : rows[i].upn = u /\ rows[i].dst = dst}
  IN  IF mode = "src_ip" THEN <<"ip", rows[Max(own)].ip>>
      ELSE IF mode = "group" /\ chosen # NoGroup THEN <<"group", chosen>>
      ELSE <<"user", u>>

\* The label under which aggregate accumulates row i.
SrcOf(cache, rows, i, mode) ==
  IF rows[i].upn = Unknown THEN <<"unknown", Unknown>>
  ELSE LabelFor(cache, rows, rows[i].dst, rows[i].upn, mode)

\* _accum over all rows, then _finalize: one link per (label, destination).
Aggregate(cache, rows, mode) ==
  LET src == [i \in DOMAIN rows |-> SrcOf(cache, rows, i, mode)]
      Of(l) == {i \in DOMAIN rows : src[i] = l[1] /\ rows[i].dst = l[2]}
  IN  {[src |-> l[1], dst |-> l[2],
        bytes |-> MapThenSumSet(LAMBDA i : rows[i].bytes, Of(l)),
        users |-> Cardinality({rows[i].upn : i \in Of(l)})]
         : l \in {<<src[i], rows[i].dst>> : i \in DOMAIN rows}}

-----------------------------------------------------------------------------
RowsBytes(rows, P(_)) == MapThenSumSet(LAMBDA i : rows[i].bytes, {i \in DOMAIN rows : P(rows[i])})

LinksBytes(links, P(_)) == MapThenSumSet(LAMBDA l : l.bytes, {l \in links : P(l)})

\* Nothing is lost, counted twice or moved between destinations, and what
\* no user is known for stays a strand of its own.
Conserved(rows, links) ==
  \A dst \in {rows[i].dst : i \in DOMAIN rows} :
    /\ LinksBytes(links, LAMBDA l : l.dst = dst) = RowsBytes(rows, LAMBDA r : r.dst = dst)
    /\ LinksBytes(links, LAMBDA l : l.dst = dst /\ l.src[1] = "unknown")
         = RowsBytes(rows, LAMBDA r : r.dst = dst /\ r.upn = Unknown)

\* A group strand speaks for every known user of its destination, each of
\* whom was in the group by the bucket that decided it: the earlier one if
\* these users had a decision there, and then it is the one shown there too.
\* Without a group every user has a strand.
Grouped(earlier, rows, links, excluded) ==
  \A dst \in {rows[i].dst : i \in DOMAIN rows} :
    LET known == KnownOf(rows, dst)
        strands == {l \in links : l.dst = dst /\ l.src[1] # "unknown"}
        basis == IF \E i \in DOMAIN earlier : KnownOf(earlier, earlier[i].dst) = known
                   THEN earlier ELSE rows
    IN  \/ \A u \in known : \E l \in strands : l.src = <<"user", u>> /\ l.users = 1
        \/ \E l \in strands :
             /\ strands = {l} /\ l.users = Cardinality(known)
             /\ l.src[1] = "group" /\ l.src[2] \notin excluded
             /\ \A u \in known : l.src[2] \in GroupsOf(basis, u)
=============================================================================
