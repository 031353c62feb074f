---------------------------- MODULE MCDnsResolver ----------------------------
\* DnsResolver with one address, two host names, two SaaS rows that match one of
\* them and what an update makes of one row.
EXTENDS DnsResolver

short == [id |-> 1, pattern |-> {"m", "n"}, len |-> 1, priority |-> 1]
updated == [id |-> 1, pattern |-> {"n"}, len |-> 2, priority |-> 1]
long == [id |-> 2, pattern |-> {"m"}, len |-> 2, priority |-> 1]

MCSaasRow == {short, updated, long}

MCSeeded == {{short}, {updated, long}, {short, long}}

MCFlow ==
  {[ip |-> "a", port |-> 2, proto |-> 6, fqdn |-> "", manual |-> TRUE],
   [ip |-> "a", port |-> 1, proto |-> 17, fqdn |-> "", manual |-> FALSE],
   [ip |-> "a", port |-> 2, proto |-> 17, fqdn |-> "m", manual |-> FALSE]}

MCPortDefault == {<<1, 17>>}
=============================================================================
