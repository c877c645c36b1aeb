--------------------------- MODULE MCRunnerScope ---------------------------
(* A contract that depends on a library, which depends on itself, and in   *)
(* nondeterministic mode on a custom runner; a contract to call, and the   *)
(* custom runner, which maps a file of the contract it runs for.           *)
EXTENDS RunnerScope

MCIds == {"main", "other", "lib", "x"}
MCKind == [main |-> "chain", other |-> "chain", lib |-> "disk", x |-> "custom"]
MCSize == [main |-> 1, other |-> 1, lib |-> 1, x |-> 1]
MCActions ==
    [main |-> Seqn(<<When(FALSE, Depends("x")), Depends("lib"), StartWasm>>),
     other |-> Seqn(<<Depends("lib"), StartWasm>>),
     lib |-> Depends("lib"),
     x |-> Seqn(<<With("contract", MapFile), StartWasm>>)]
MCInitActions ==
    LET inside(acts) == UNION {ToSet(a.acts) : a \in acts}
        all == {MCActions[id] : id \in MCIds}
    IN  all \cup inside(all) \cup inside(inside(all))
MCMemory == [det \in BOOLEAN |-> IF det THEN 6 ELSE 4]
=============================================================================
