----------------------------- MODULE MCAccount -----------------------------
(* Instance of Account for TLC.                                            *)
EXTENDS Account, TLC

CONSTANTS alice, bob, laptop, phone, desktop, request1, request2, account1, account2

Browsers == [b \in Browser |-> IF b = desktop THEN bob ELSE alice]

(* alice's browsers are alike, and so are the accounts at Discord and the  *)
(* slots for requests.                                                     *)
Alike == Permutations({laptop, phone}) \cup Permutations(DiscordUser) \cup Permutations(Request)
=============================================================================
