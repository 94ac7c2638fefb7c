------------------------------- MODULE Dialers -------------------------------
(***************************************************************************)
(* The generators of packages singbox, xray and snispoof: which endpoints  *)
(* each one takes, the local port it hands to each, and the server behind  *)
(* that port.  Of a parsed endpoint we keep what they branch on: protocol, *)
(* transport, security, whether its Config brought a fake_sni, and whether *)
(* its address and keys can be used.                                       *)
(***************************************************************************)
EXTENDS Integers, Sequences, FiniteSets

Protocol == {"vless", "vmess", "trojan", "anytls", "ss", "hysteria2", "tuic",
             "wireguard", "amneziawg", "mtproxy", "sidecar"}
Transport == {"common", "xray", "other"}   \* what sing-box speaks; xhttp,
                                           \* splithttp, raw; anything else
Security == {"none", "tls", "reality"}

-----------------------------------------------------------------------------
(* What the parsers return.  The vmess of a URI names its TLS in a key of  *)
(* its own and has no security; that of a bundle has all the parameters of *)
(* its record, whatever they are, and host and port may be missing.  That  *)
(* none of them is named spoof_via or socks5_addr is taken for granted.    *)
Untouched(e) == ~ e.fake /\ e.priority = 0
Bare(e) == e.net = "common" /\ e.sec = "none" /\ Untouched(e)
StreamShape(e) == /\ e.proto \in {"vless", "vmess", "trojan"}
                  /\ e.proto = "vmess" => e.sec = "none"
                  /\ Untouched(e)
PlainShape(e) == e.proto \in {"anytls", "ss", "hysteria2"} /\ Bare(e)
TunnelShape(e) == e.proto \in {"wireguard", "tuic"} /\ Bare(e)
MTProxyShape(e) == e.proto = "mtproxy" /\ Bare(e)
BundleShape(e) == e.proto = "vmess" /\ e.priority = 0

(* A .conf file: a missing endpoint or key is an error, never an entry.    *)
ConfShape(e) == e.proto \in {"wireguard", "amneziawg"} /\ Bare(e) /\ e.complete

(* A sidecar brings its own SOCKS5 port, and its Config is free-form.      *)
SidecarShape(e) == /\ e.proto = "sidecar"
                   /\ e.net = "common" /\ e.sec = "none"
                   /\ e.priority \in Nat \ {0}

-----------------------------------------------------------------------------
(* endpointEligibleForSNISpoof: main gives these the default fake_sni.     *)
Eligible(e) == e.proto \in {"vless", "vmess", "trojan"} /\ e.sec = "tls"
SpoofTakes(e, default) == e.fake \/ (default /\ Eligible(e))

(* transportFromConfig: FALSE for what sing-box cannot speak.              *)
SingboxSpeaks(e) == e.net = "common"
StreamOutbound(e) == e.proto \in {"vless", "trojan"} /\ SingboxSpeaks(e)
VmessOutbound(e) == e.proto = "vmess" /\ SingboxSpeaks(e)
PlainOutbound(e) == e.proto \in {"anytls", "ss", "hysteria2", "tuic"}
WireguardBlock(e) == e.proto = "wireguard"

SingboxTakes(e) ==
  /\ StreamOutbound(e) \/ VmessOutbound(e) \/ PlainOutbound(e) \/ WireguardBlock(e)
  /\ e.complete

(* xray.HandlesEndpoint, and the mutant that leaves the transport out.     *)
HandlesAnyTransport(e) == e.proto # "sidecar"
HandlesEndpoint(e) ==
  /\ e.proto # "sidecar"
  /\ e.proto = "mtproxy" \/ e.net = "xray"

XrayOutbound(e) == e.proto \in {"vless", "mtproxy"}
XrayTakes(e) ==
  /\ HandlesEndpoint(e)
  /\ XrayOutbound(e)
  /\ e.complete

(* applySpoof: the server an outbound connects to is the port of sni-spoof *)
(* that the endpoint was given, if any, and its own address otherwise.     *)
Spoofed(e) == e.via > 0 /\ e.sec # "reality" /\ e.proto # "wireguard"
Server(e) == IF Spoofed(e) THEN <<"sni-spoof", e.via>> ELSE <<e.addr, 0>>

-----------------------------------------------------------------------------
(* The port counter of each Generate, from 1 here, over the indexes of the *)
(* endpoints it takes; and the mutant that starts one too low.             *)
PortFromZero(taken, i) == Cardinality(taken \cap 1..(i - 1))
Port(taken, i) == Cardinality(taken \cap 1..i)

(* What each Generate returns: the file, as a set of routes, one for the   *)
(* port of each endpoint it takes, and the endpoints with that port        *)
(* written into their Config.  The slice it returns is a copy, but its     *)
(* Config maps are those of the caller.                                    *)
SpoofTaken(eps, default) == {i \in DOMAIN eps : SpoofTakes(eps[i], default)}
SingboxTaken(eps) == {i \in DOMAIN eps : SingboxTakes(eps[i])}
XrayTaken(eps) == {i \in DOMAIN eps : XrayTakes(eps[i])}

RouteTo(taken, i, e, server) == [port |-> Port(taken, i), uri |-> e.uri, server |-> server]
SpoofRoutes(eps, default) ==
  {RouteTo(SpoofTaken(eps, default), i, eps[i], <<eps[i].addr, 0>>) :
     i \in SpoofTaken(eps, default)}
(* Mutant: the counter has moved on when the port is written.             *)
SpoofPinnedLate(eps, default) ==
  LET taken == SpoofTaken(eps, default)
  IN  [i \in DOMAIN eps |->
         IF i \in taken THEN [eps[i] EXCEPT !.via = Port(taken, i) + 1] ELSE eps[i]]
SpoofPinned(eps, default) ==
  LET taken == SpoofTaken(eps, default)
  IN  [i \in DOMAIN eps |->
         IF i \in taken THEN [eps[i] EXCEPT !.via = Port(taken, i)] ELSE eps[i]]

Routes(eps, taken) == {RouteTo(taken, i, eps[i], Server(eps[i])) : i \in taken}
Pinned(eps, name, taken) ==
  [i \in DOMAIN eps |->
     IF i \in taken THEN [eps[i] EXCEPT !.socks = <<name, Port(taken, i)>>] ELSE eps[i]]

SingboxRoutes(eps) == Routes(eps, SingboxTaken(eps))
SingboxPinned(eps) == Pinned(eps, "singbox", SingboxTaken(eps))
XrayRoutes(eps) == Routes(eps, XrayTaken(eps))
XrayPinned(eps) == Pinned(eps, "xray", XrayTaken(eps))
=============================================================================
