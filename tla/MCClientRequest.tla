--------------------------- MODULE MCClientRequest ---------------------------
(* With MaxRecv = 2 and MaxSend = 3 a new buffer has 25 bytes, 5 of them     *)
(* zeroed, and grows at 12: headers and bodies on both sides of each.        *)
EXTENDS ClientRequest

HeaderSet == {4, 5, 6, 11, 12, 30}
BodySet == {0, 3, 12, 27}
URLSet == {<<"a">> \o u : u \in BoundedSeq({"a", ":", "/", "?"}, 4)}
            \cup {<<>>, <<"/">>, <<":", "a", "/">>,
                  <<"a", ":", "a", "a", "a", "/">>, <<"a", "/", ":", "a", "a", "a">>}
=============================================================================
