----------------------------- MODULE MCProtocol -----------------------------
(* Protocol.tla on a small instance.                                       *)
EXTENDS Protocol, ClientProgram

One(opt) == [opt |-> opt, names |-> 1, num |-> 1]

\* Help alone, every option that calls the library after it, and before every other.
CommandLines ==
  {<<One("h")>>} \cup {<<One("h"), One(op)>> : op \in {"w", "W", "r", "c", "R", "t"}}
  \cup {<<One(a), One(b)>> : a \in {"d", "w", "W", "r"}, b \in {"w", "W", "r", "c", "R"}}

\* client.c never calls these two.
OfTheLibrary == {<<"closeFile", "closeConnection">>, <<"appendToFile", "closeConnection">>}

ProgramsOfLines == OfTheLibrary \cup UNION {CallsOf(ParseArgs(args)) : args \in CommandLines}

=============================================================================
