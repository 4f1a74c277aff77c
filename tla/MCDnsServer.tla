---------------------------- MODULE MCDnsServer ----------------------------
(* A configuration with a zone file that is read twice in different versions, *)
(* a zone two levels below another, and queries for each kind of name.      *)
EXTENDS DnsServer

Org == <<"org">>
Demo == <<"org", "demo">>
Lab == <<"org", "demo", "cs", "lab">>

Line(name, class, type, data) == [name |-> name, class |-> class, type |-> type, data |-> data]

MCLabels == {"org", "demo", "cs", "lab", "www", "dns", "mail", "ip"}

MCZones ==
  << [name |-> Demo, lines |-> {Line(<<"www">>, "IN", "A", <<"ip">>)}],
     [name |-> Lab,
      lines |-> {Line(<<>>, "IN", "SOA", <<"org", "demo", "dns">>),
                 Line(<<>>, "IN", "MX", <<"org", "demo", "mail">>),
                 Line(<<"www">>, "HS", "TXT", <<"ip">>)}],
     [name |-> Demo,
      lines |-> {Line(<<>>, "IN", "SOA", <<"org", "demo", "dns">>),
                 Line(<<>>, "IN", "NS", <<"org", "demo", "dns">>),
                 Line(<<"dns">>, "IN", "A", <<"ip">>),
                 Line(<<"mail">>, "IN", "A", <<"ip">>),
                 Line(<<"mail">>, "IN", "AAAA", <<"ip">>),
                 Line(<<"www">>, "IN", "CNAME", <<"org", "demo", "cs", "lab">>)}] >>

Query(i, nip, name, type, class) ==
  [id |-> i, nip |-> nip, name |-> name, type |-> type, class |-> class]

\* Foreign: 1 and 2, and 3, which lies between two zones.
MCQueries ==
  { Query(1, <<>>, Org, "NS", "IN"),
    Query(2, <<>>, <<"org", "lab">>, "A", "IN"),
    Query(3, <<>>, <<"org", "demo", "cs", "www">>, "A", "IN"),
    Query(4, <<>>, Demo, "NS", "IN"),
    Query(5, <<>>, <<"org", "demo", "www">>, "CNAME", "IN"),
    Query(6, <<>>, Lab, "MX", "IN"),
    Query(7, <<>>, Lab \o <<"www">>, "TXT", "HS"),
    Query(8, <<"ip">>, Demo \o <<"mail">>, "AAAA", "IN") }

\* Those that are foreign, or found in a zone.
MCPlainQueries == {q \in MCQueries : q.id # 3}
============================================================================
