------------------------------- MODULE MCHost -------------------------------
(***************************************************************************)
(* Small instances of Front for TLC.                                       *)
(***************************************************************************)
EXTENDS Front

CONSTANTS d1, d2, dir1

MCDomain == <<"A", ".", "a">>

Set(domain) == [domain |-> domain, stateDir |-> dir1, dnsPort |-> 19353]
OneSetting == {Set(d1)}
TwoDomains == {Set(d1), Set(d2)}
=============================================================================
