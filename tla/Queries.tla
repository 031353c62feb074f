------------------------------- MODULE Queries -------------------------------
(***************************************************************************)
(* What the API's read paths return: the pages of GET /api/flows/raw and   *)
(* of GET /api/groups/{id} (with the modal that collects them), the links  *)
(* GET /api/flows/sankey selects and those the live feed selects for a     *)
(* client's filter (api/routers/flows.py, api/services/groups_service.py,  *)
(* api/ws_fanout.py).                                                      *)
(*                                                                         *)
(* The ordering key of a row, (time, src_ip, dst_ip, dst_port), is a       *)
(* number, and so is a user_upn.  A cursor stands for the key inside it:   *)
(* the token encode_cursor makes of it, and the 400 for a token that       *)
(* decode_cursor cannot read, are left out.  NoCursor is larger (for rows) *)
(* or smaller (for members) than every key.                                *)
(***************************************************************************)
EXTENDS Integers, Sequences, SequencesExt, FiniteSets, FiniteSetsExt

CONSTANTS NoCursor, Invalid   \* no next page; a src_cidr that does not parse

-----------------------------------------------------------------------------
(* Raw flows.  rows: the keys of the table's rows, in descending order;    *)
(* rows that differ in their protocol only have the same key.              *)


\* LIMIT limit + 1; the extra row is taken off and becomes the cursor.
RawPage(rows, below, limit) ==
  LET found == SelectSeq(rows, LAMBDA k : k < below)
      page == SubSeq(found, 1, Min({limit, Len(found)}))
  IN  [items |-> page, next |-> IF Len(found) > limit THEN found[limit + 1] ELSE NoCursor]

\* A client that follows next_cursor to the end: items and cursors met.
RawWalk(rows, limit) ==
  LET top == Max(Range(rows)) + 1
      from[b \in 0..top] ==
        LET p == RawPage(rows, b, limit)
        IN  IF p.next = NoCursor THEN [items |-> p.items, anchors |-> {}]
            ELSE [items |-> p.items \o from[p.next].items,
                  anchors |-> from[p.next].anchors \cup {p.next}]
  IN  from[top]

-----------------------------------------------------------------------------
(* Members of a group.  tables[n]: the group's members at the n-th request. *)

\* WHERE user_upn > after ORDER BY user_upn LIMIT page_size; a page that is
\* full has a cursor.  An empty group is a 404, which ends the walk.
MembersPage(table, after, size) ==
  LET found == SetToSortSeq({u \in table : u > after}, <)
      page == SubSeq(found, 1, Min({size, Len(found)}))
  IN  [members |-> page, next |-> IF Len(page) = size THEN page[size] ELSE NoCursor]

\* The modal: the first page, then loadMore while there is a cursor and room.
MembersShown(tables, size, max) ==
  LET shown[n \in DOMAIN tables] ==
        IF n = 1 THEN MembersPage(tables[1], 0, size)
        ELSE LET have == shown[n - 1]
                 more == MembersPage(tables[n], have.next, size)
                 all == have.members \o more.members
             IN  IF have.next = NoCursor \/ Len(have.members) >= max \/ tables[n] = {} THEN have
                 ELSE [members |-> SubSeq(all, 1, Min({max, Len(all)})), next |-> more.next]
  IN  shown[Len(tables)]

-----------------------------------------------------------------------------
(* Links.  A link is [src, dst, bytes]; src is an address, a group, a user  *)
(* or "unknown".  A filter is [src_cidr, dst_app, group, user, exclude]:    *)
(* src_cidr is a set of addresses ({} for none given) or Invalid, group and *)
(* exclude are sets of labels.  proto and deny_only select nothing.         *)

\* ClientState.matches: a label is in no network.
Matches(f, link) ==
  /\ f.src_cidr # {} => f.src_cidr # Invalid /\ link.src \in f.src_cidr
  /\ f.dst_app # "" => link.dst = f.dst_app

\* _filter_links; an invalid src_cidr is answered with 400, here no links.
FilterLinks(links, f) ==
  LET inNet == IF f.src_cidr = {} THEN links
               ELSE IF f.src_cidr = Invalid THEN {}
               ELSE {l \in links : l.src \in f.src_cidr}
      toApp == IF f.dst_app = "" THEN inNet ELSE {l \in inNet : l.dst = f.dst_app}
  IN  {l \in toApp : /\ f.group # {} => l.src \in f.group \cup {"unknown"}
                     /\ f.user # "" => l.src \in {f.user, "unknown"}
                     /\ l.src \notin f.exclude}

\* mode=historical: the sums of flows_1m over [from, to) as links without
\* nodes.  A row is [bucket, src, dst, proto, bytes]; links of one source and
\* destination stay apart by proto, which sets them apart here as well.
Historical(rows, from, to) ==
  LET chosen == {r \in rows : r.bucket >= from /\ r.bucket < to}
      Sum(k) == MapThenSumSet(LAMBDA r : r.bytes, {r \in chosen : <<r.src, r.dst, r.proto>> = k})
  IN  [links |-> {[src |-> k[1], dst |-> k[2], proto |-> k[3], bytes |-> Sum(k)]
                    : k \in {<<r.src, r.dst, r.proto>> : r \in chosen}},
       left |-> {}, right |-> {}]

\* _truncate: the heaviest links.
Truncate(links, limit) ==
  LET ranked == SetToSortSeq(links, LAMBDA a, b : a.bytes > b.bytes)
  IN  [links |-> Range(SubSeq(ranked, 1, Min({limit, Len(ranked)}))),
       truncated |-> Cardinality(links) > limit]

\* The rest of sankey(): filter, truncate, keep the nodes that are referred to.
Sankey(base, f, limit) ==
  LET t == Truncate(FilterLinks(base.links, f), limit)
  IN  [links |-> t.links, truncated |-> t.truncated,
       left |-> {n \in base.left : \E l \in t.links : l.src = n},
       right |-> {n \in base.right : \E l \in t.links : l.dst = n}]

-----------------------------------------------------------------------------
\* Walking the raw pages shows rows in order, none more often than the table
\* has it, and all of them but those with the key of a cursor: raw() takes
\* the cursor's row off its page and asks for smaller keys next.
RawPagesAddUp(rows, limit) ==
  LET w == RawWalk(rows, limit)
      Count(s, k) == Cardinality({i \in DOMAIN s : s[i] = k})
  IN  /\ \A i, j \in DOMAIN w.items : i < j => w.items[i] >= w.items[j]
      /\ \A k \in Range(rows) : /\ Count(w.items, k) <= Count(rows, k)
                               /\ k \notin w.anchors => Count(w.items, k) = Count(rows, k)

\* Whatever joins and leaves between the pages, nobody is listed twice, and
\* who is a member throughout is listed when the walk ends below the maximum.
MembersAddUp(tables, size, max) ==
  LET s == MembersShown(tables, size, max)
      always == {u \in tables[1] : \A n \in DOMAIN tables : u \in tables[n]}
  IN  /\ \A i, j \in DOMAIN s.members : i < j => s.members[i] < s.members[j]
      /\ Len(s.members) <= max
      /\ s.next = NoCursor /\ Len(s.members) < max => always \subseteq Range(s.members)

\* The feed leaves out no link of the REST answer to the same filter, and
\* shows no other unless it names labels, which the feed does not look at;
\* no link is dropped for a lighter one, and every link kept has its nodes.
SelectionsAgree(links, f, limit) ==
  LET base == [links |-> links, left |-> {l.src : l \in links}, right |-> {l.dst : l \in links}]
      answer == Sankey(base, f, limit)
      selected == FilterLinks(links, f)
      feed == {l \in links : Matches(f, l)}
  IN  /\ selected \subseteq feed
      /\ f.group = {} /\ f.user = "" /\ f.exclude = {} => selected = feed
      /\ \A k \in answer.links, d \in selected \ answer.links : k.bytes >= d.bytes
      /\ answer.truncated = (answer.links # selected)
      /\ answer.left = {l.src : l \in answer.links} /\ answer.right = {l.dst : l \in answer.links}

\* A historical answer over adjoining ranges adds up to that over the whole.
HistoryAddsUp(rows, from, mid, to) ==
  LET Bytes(h) == MapThenSumSet(LAMBDA l : l.bytes, h.links)
  IN  Bytes(Historical(rows, from, to))
        = Bytes(Historical(rows, from, mid)) + Bytes(Historical(rows, mid, to))
=============================================================================
