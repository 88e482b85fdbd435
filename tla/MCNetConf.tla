----------------------------- MODULE MCNetConf ------------------------------
EXTENDS NetConf, TLC
MCGrant == [p |-> "ip1", q |-> "ip2"]
MCLease == [p |-> 8, q |-> 0]
MCDns   == [p |-> <<"g", "f">>, q |-> <<>>]
MCNames == {<<"x">>, <<"x", "z">>}
MCTtl   == (<<"x">> :> 2) @@ (<<"x", "z">> :> 3)
MCScripts == {<<"dhcp", "dhcp">>, <<"dhcp", "lookup">>, <<"dns", "dhcp">>, <<"dns", "lookup", "flush">>,
              <<"dns", "lookup", "lookup", "lookup">>, <<"ping", "udp", "ping">>, <<"udp", "dhcp">>}
=============================================================================
