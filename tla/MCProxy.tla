------------------------------- MODULE MCProxy -------------------------------
(* Values for the constants of Proxy: a name and its address, one list file *)
(* and rules of each kind.                                                  *)
EXTENDS Proxy

CONSTANTS name, address, list, c1

MCAddress == [h \in {name, address} |-> address]

Of(match, action) == [match |-> match, action |-> action, enabled |-> TRUE]
Hosts(hosts) == [kind |-> "hosts", hosts |-> hosts]
Listed(kind) == [kind |-> kind, path |-> list]

(* A list that sends direct before one that blocks; a list that blocks      *)
(* before a disabled rule and one that sends direct.                        *)
MCRuleList ==
  { << Of(Listed("domain_list"), "direct"), Of(Listed("ip_list"), "block") >>,
    << Of(Listed("geoip"), "block"), [Of(Hosts({name}), "block") EXCEPT !.enabled = FALSE],
       Of(Listed("domain_list"), "block"), Of(Hosts({name, address}), "direct") >> }

(* A connection that may come either way, beside those of SOCKS5 clients.   *)
MCListener == [c \in Conn |-> IF c = c1 THEN {"http", "socks5"} ELSE {"socks5"}]

MCContent == {{}, {name, address}}
=============================================================================
