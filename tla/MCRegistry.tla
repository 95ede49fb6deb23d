---------------------------- MODULE MCRegistry ----------------------------
(* Two publishers compete for a primitive's name and a domain function's.  *)
EXTENDS Registry

Walk == <<"walk">>
Create == <<"orders", "create">>

MCNames == {Walk, Create}
MCPublishers == {"p1", "p2"}
MCReaders == {"r"}
MCSchemas == {"s1", "s2"}

Ask(p, name, namespace, primitive) ==
    [publisher |-> p, name |-> name, namespace |-> namespace, primitive |-> primitive]

\* Valid requests of both publishers, and one request for each rule of validate.
MCRequests ==
    {Ask(p, Walk, <<>>, TRUE) : p \in MCPublishers}
    \cup {Ask(p, Create, <<"orders">>, FALSE) : p \in MCPublishers}
    \cup {Ask(NoId, Walk, <<>>, TRUE), Ask("p1", <<>>, <<"orders">>, FALSE),
          Ask("p1", Walk, <<"orders">>, TRUE), Ask("p1", Create, <<>>, TRUE),
          Ask("p1", Create, <<>>, FALSE), Ask("p1", Create, <<"stock">>, FALSE),
          Ask("p1", Walk, <<"walk">>, FALSE)}
===========================================================================
