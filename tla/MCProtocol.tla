----------------------------- MODULE MCProtocol -----------------------------
(* Instances of Protocol for TLC; which models open a session is computed  *)
(* with module Budget from a configuration.                                *)
EXTENDS Protocol, Budget, TLC

SomeConfig ==
  [thresholds |-> <<45, 60, 72, 82, 90>>, target |-> 60, alpha |-> 25,
   window |-> 200, output |-> 40, safety |-> 10]

(* A small model that fits, one whose reserves fill its window, and one    *)
(* whose reserves overflow.                                                *)
Fits     == [window |-> 100, output |-> 20]
Full     == [window |-> 50, output |-> 40]
Overflow == [window |-> MaxWord, output |-> MaxWord]

FromConfig   == FirstModel(SomeConfig)
ClientModels == {FromConfig, Full}
StoredModels == {Fits, Overflow, FromConfig}

Opening(models) == {m \in models : Opens(SomeConfig, m)}
OpenClientModels == Opening(ClientModels)
OpenStoredModels == Opening(StoredModels)

SymmetricSessions == Permutations(Sessions)

=============================================================================
