---------------------------- MODULE MCHeroDrain ----------------------------
(* Instances of HeroDrain for TLC.  Nodes are numbers; domain "big" is what *)
(* a hero drains, domain "spare" takes the victims in.                      *)
EXTENDS HeroDrain

CONSTANTS h1, h2

MCDomainOf == [n \in Node |-> IF n <= 2 THEN "big" ELSE "spare"]
MCOneDomain == [n \in Node |-> "big"]
MCOwnDomain == [n \in Node |-> IF n = 1 THEN "big" ELSE "spare"]
MCDomain == {"big", "spare"}
MCPriority == [h \in Hero |-> 1]
MCQueuedAt == [h \in Hero |-> 0]
MCName == [h \in Hero |-> IF h = h1 THEN 1 ELSE 2]
MCOwnQueues == [h \in Hero |-> h]
MCNeedAll == [h \in Hero |-> 2]
MCNeedOne == [h \in Hero |-> 1]
============================================================================
