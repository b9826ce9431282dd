----------------------------- MODULE MCCapTable -----------------------------
(* A table of two slots that may buy one page of one more. *)
EXTENDS CapTable

MCGrants ==
    {[kind |-> "Untyped", rights |-> {"READ", "DERIVE", "REVOKE"}, object |-> 0, extent |-> 3],
     [kind |-> "Endpoint", rights |-> {"DERIVE", "REVOKE"}, object |-> 0, extent |-> 0],
     [kind |-> "AddressSpace", rights |-> {"WRITE"}, object |-> 0, extent |-> 0]}

MCAsks == {{"READ"}, {"READ", "DERIVE", "REVOKE"}}
=============================================================================
