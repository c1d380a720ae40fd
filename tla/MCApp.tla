------------------------------- MODULE MCApp -------------------------------
(* An instance of App for TLC: ann, seen without her name or without her   *)
(* ID, another ann, and bob; a directory with a file, one above and one    *)
(* below it.                                                               *)
EXTENDS App, TLC

CONSTANTS p1, p2, p3, a1

info(id, nick, addrs) == [id |-> id, nick |-> nick, addrs |-> addrs, source |-> "lan"]
MCSightings == {info(p1, None, a1), info(None, "ann", a1), info(p2, "ann", None),
                info(p3, "bob", None)}
MCName == (p1 :> "ann") @@ (p2 :> "ann") @@ (p3 :> "bob")
MCOwner == (a1 :> p1)
entry(name, to) == [name |-> name, to |-> to]
MCEntries == ("/" :> <<entry("h", "/h")>>)
             @@ ("/h" :> <<entry("..", "/"), entry("sub", "/h/sub"), entry("x", None)>>)
             @@ ("/h/sub" :> <<entry("..", "/h")>>)
MCMatching == [q \in {"", "x"} |-> {"x"}]
=============================================================================
