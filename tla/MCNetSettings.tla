--------------------------- MODULE MCNetSettings ----------------------------
(***************************************************************************)
(* Instance of NetSettings for TLC: DHCP, a static configuration, one that *)
(* lacks its address and one of another interface.                          *)
(***************************************************************************)
EXTENDS NetSettings

Cfg(m, i, n) == [mode |-> m, iface |-> i, net |-> n]

MCIfaces  == {"eth0", "wlan0"}
MCDefault == Cfg("dhcp", "eth0", "none")
MCChoices == {MCDefault, Cfg("static", "eth0", "lab"), Cfg("static", "eth0", "none"),
              Cfg("static", "wlan0", "lab")}
=============================================================================
