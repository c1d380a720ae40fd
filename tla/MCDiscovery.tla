---------------------------- MODULE MCDiscovery ----------------------------
(* An instance of Discovery for TLC: bob is seen by mDNS and BLE; carol by *)
(* WSD, by BLE with and without her nickname, and by the Hello of a libp2p *)
(* connection, which closes. Each channel has a goroutine.                 *)
EXTENDS Discovery, TLC

CONSTANTS bobId, bobAddr, bobC, carolId, carolAddr, carolC

report(id, nick, addrs, addr, source) ==
  [id |-> id, nick |-> nick, addrs |-> addrs, addr |-> addr, source |-> source]

bobMdns == report(bobId, "bob", bobAddr, None, "mdns")
bobBle == report(bobC, "bob", None, bobC, "ble")
carolWsd == report(None, "carol", carolAddr, None, "wsd")
carolBle == report(carolC, "carol", None, carolC, "ble")
carolBleUnnamed == report(carolC, "carolC", None, carolC, "ble")
carolHello == report(carolId, "carol", carolAddr, None, "dht")

MCReports == {bobMdns, bobBle, carolWsd, carolBle, carolBleUnnamed, carolHello}

MCCallers == {"mdns", "wsd", "ble", "carolStream", "swarm"}
MCReporter == [p \in MCReports |-> IF p = carolHello THEN "carolStream" ELSE p.source]
===========================================================================
