------------------------- MODULE MCSettingsInstance -------------------------
(***************************************************************************)
(* SettingsInstance for TLC: a sidebar of two entries, the first of which  *)
(* (as "wlan" in SideBar.qml) may be missing: a request for it is then one *)
(* for a name that is not listed.                                          *)
(***************************************************************************)
EXTENDS SettingsInstance

MCNames     == {"wlan", "proxy"}
MCListed    == <<"wlan", "proxy">>
MCRemovable == {"wlan"}
=============================================================================
