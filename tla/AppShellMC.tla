---------------------------- MODULE AppShellMC ----------------------------
(* Values for AppShell's constants: two tabs, two users, two organizations  *)
(* of which the second user belongs to the second only.                     *)
EXTENDS AppShell, TLC

CONSTANTS o1, o2, u1, u2

MCOrgOrder == <<o1, o2>>
MCMember == [u \in {u1, u2} |-> IF u = u1 THEN {o1, o2} ELSE {o2}]
MCValue == [i \in {"theme", "org"} |->
               IF i = "theme" THEN {"light", "system", "dark"} ELSE {o1, o2}]
MCTabs == Permutations(Tabs)
=============================================================================
