---------------------------- MODULE MCGobServer ----------------------------
(* Small instances of GobServer. *)
EXTENDS GobServer

CONSTANTS c1, c2, id1, id2, text, junk, loud, keyless

M(rid, kind, data) == [rid |-> rid, kind |-> kind, data |-> data]

MCGood   == {text}
MCLoud   == {loud}
MCKeys   == {keyless}
OneConn  == {c1}
TwoConns == {c1, c2}

\* Messages of every kind, with and without an id and data, what handlers panic
\* on, and garbage.
AllWire ==
  {M(id1, "notify", text), M(NoRID, Unknown, NoData), M(id2, "log", junk),
   M(NoRID, "other", NoData), M(NoRID, "log", loud), M(id1, "notify", keyless), Garbage}
OneEach  == {M(id1, "log", text), M(id1, "log", loud), M(id2, "notify", keyless)}

=============================================================================
