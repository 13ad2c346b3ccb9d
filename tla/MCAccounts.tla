----------------------------- MODULE MCAccounts -----------------------------
(***************************************************************************)
(* Model checking of Accounts.                                             *)
(***************************************************************************)
EXTENDS Accounts, TLC

CONSTANTS alice, bob, browser, laptop, office

MCUsers == {alice, bob}
MCClients == {browser, laptop}
MCAddresses == {office}

\* Users are interchangeable, and so are clients.
Symmetry == Permutations(MCUsers) \cup Permutations(MCClients)
=============================================================================
