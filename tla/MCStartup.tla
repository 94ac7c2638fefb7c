----------------------------- MODULE MCStartup -----------------------------
(* Two configurations of one client, before and after an edit.            *)
EXTENDS Startup

E(uri, proto, addr, net, sec) ==
  [uri |-> uri, proto |-> proto, addr |-> addr, net |-> net, sec |-> sec,
   fake |-> FALSE, complete |-> TRUE, priority |-> 0, source |-> None]

VA == E("vless-a", "vless", "a", "common", "tls")      \* spoofed, sing-box
VA2 == E("vless-a2", "vless", "a", "common", "tls")    \* the same server again
XB == E("xhttp-b", "vless", "b", "xray", "reality")    \* xray
WC == E("wgconf", "wireguard", "c", "common", "none")  \* two .conf files
WD == E("wgconf", "amneziawg", "d", "common", "none")  \* of one name
MP == E("tg", "mtproxy", "b", "common", "none")
VB == [E("bundle", "vmess", "b", "common", "tls") EXCEPT !.complete = FALSE]
Tor == [E("tor", "sidecar", "tor", "common", "none") EXCEPT !.priority = 5]
Awg == [E("awg", "sidecar", "awg", "common", "none") EXCEPT !.priority = 5,
                                                           !.source = "s2"]

From(source, lines) == [source |-> source, lines |-> lines]
All == {"sni-spoof", "singbox", "xray"}
C1 == [batches |-> << From("default", << <<VA>>, <<VA2>> >>), From("s2", << <<VA, VA2, XB>> >>) >>,
       sidecars |-> <<Tor>>, amneziawg |-> FALSE, dialers |-> All,
       fakeSNI |-> TRUE, probeOnStart |-> TRUE]
C2 == [batches |-> << From("s2", << <<Bad>>, <<MP, VB>>, <<VA2>> >>), From("s2", << <<WD>> >>),
                    From("s2", << <<WC>> >>) >>,
       sidecars |-> <<Awg>>, amneziawg |-> TRUE, dialers |-> {"singbox", "xray"},
       fakeSNI |-> TRUE, probeOnStart |-> FALSE]
MCConfig == {C1, C2}

(* One configuration that never changes.                                  *)
MCConfig1 == {[C1 EXCEPT !.dialers = {"singbox"}]}
=============================================================================
