----------------------------- MODULE MCAccounts ------------------------------
(* Accounts by themselves, for TLC.                                          *)
EXTENDS Accounts

MCBrowserOf == [t \in Tabs |-> "browser"]
==============================================================================
