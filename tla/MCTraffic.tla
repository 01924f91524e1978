----------------------------- MODULE MCTraffic ------------------------------
(***************************************************************************)
(* TrafficWire with Base = 2, so that the values take one to four bytes.   *)
(* The service sends the fields of a Stat in either order, with or without *)
(* one field that the agent does not know, and a zero also as no Stat.     *)
(***************************************************************************)
EXTENDS TrafficWire

MCName == <<1, 2>>

\* Fields of a newer service: a number, eight bytes, some bytes, four bytes.
Unknown ==
    {<<>>, appendTag(3, wireVarint) \o appendVarint(Base),
     appendTag(4, wireFixed64) \o <<0, 0, 0, 0, 0, 0, 0, 0>>,
     appendElement(5, <<Base>>), appendTag(6, wireFixed32) \o <<1, 1, 1, 1>>}

\* Every message, with the value it was sent for and the value the agent reads
\* from it.
Exchanges ==
    {LET m == appendElement(1, StatBytes(n, x, nameFirst))
     IN  [sent |-> n, message |-> m, read |-> queryStats(m)] :
        n \in 0..MaxMoved, x \in Unknown, nameFirst \in BOOLEAN}
      \cup {[sent |-> 0, message |-> <<>>, read |-> queryStats(<<>>)]}

MCReplies == [n \in 0..MaxMoved |-> {x.message : x \in {y \in Exchanges : y.sent = n}}]
MCValue == [m \in {x.message : x \in Exchanges} |-> (CHOOSE x \in Exchanges : x.message = m).read]
=============================================================================
