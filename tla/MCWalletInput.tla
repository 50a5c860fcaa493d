--------------------------- MODULE MCWalletInput ----------------------------
(* WalletInput with three-bit integers in the place of 64-bit ones.         *)
EXTENDS WalletInput

MCIntegerIds == -4..7
\* Floats tell only even integers apart.
MCRounded(n) == n - (n % 2)

Id(type, val, size) == [type |-> type, val |-> val, size |-> size]

\* The largest integer, two that are no integers to serde_json and have one
\* float between them, the same digits as a string, and a long string.
MCIds == {NoId, Id("integer", 7, 1), Id("integer", 8, 1), Id("integer", 9, 1),
          Id("string", 7, 2), Id("string", 1, 3), Id("other", 0, 0)}

Text(size, hex) == [text |-> TRUE, size |-> size, hex |-> hex]
NotText == [text |-> FALSE, size |-> 1, hex |-> FALSE]
Params(shape, items) == [shape |-> shape, items |-> items]
NoParams == Params("other", <<>>)

Request(id, method, params) ==
    [object |-> TRUE, id |-> id, method |-> method, params |-> params]

MCRequests ==
    {Request(id, "other", NoParams) : id \in MCIds}
    \cup {Request(id, "broadcast", Params("array", <<Text(2, TRUE)>>)) : id \in MCIds}
    \cup {Request(Id("integer", 7, 1), "broadcast", params) : params \in
            {NoParams, Params("string", <<Text(2, TRUE)>>), Params("array", <<Text(1, TRUE)>>),
             Params("array", <<Text(2, FALSE)>>), Params("array", <<Text(0, TRUE)>>),
             Params("array", <<Text(4, TRUE)>>), Params("array", <<NotText>>),
             Params("array", <<Text(1, TRUE), Text(1, TRUE)>>)}}
    \cup {[Request(NoId, "other", NoParams) EXCEPT !.object = FALSE]}

=============================================================================
