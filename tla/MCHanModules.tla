------------------------------ MODULE MCHanModules ------------------------------
(* Small products for TLC, after tests/data/product.json: a service module  *)
(* that shares its moduleRefIndex with the BLE module, and a WiFi module.   *)
EXTENDS HanModules

P(mt, mi, devs) == [mt |-> mt, mi |-> mi, devs |-> devs]
Id(mt, mi) == [mt |-> mt, mi |-> mi]

BleProduct  == <<P("sm", 1, {}), P("hi", 1, {6, 7})>>
WifiProduct == <<P("hi", 2, {3, 4})>>

NoModules    == {}
BleOnly      == {"ble"}
CoreOnly     == {"core"}
BleAndCore   == {"ble", "core"}
WifiAndStray == {"wifi", "stray"}

\* stray: started with an index the profile lacks; core: opens the registry
\* without an identity
IdentOf == [ble |-> Id("hi", 1), wifi |-> Id("hi", 2), stray |-> Id("hi", 9),
            core |-> Id("", 0)]
BleIdent     == [m \in BleOnly |-> IdentOf[m]]
BleCoreIdent == [m \in BleAndCore |-> IdentOf[m]]
WifiIdent    == [m \in WifiAndStray |-> IdentOf[m]]
NoLights     == {}
BothLights   == {3, 4}
=================================================================================
