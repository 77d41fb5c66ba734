--------------------------- MODULE MCOnlineIngest ---------------------------
(* Model checking OnlineIngest: two files that share a name, a content, a   *)
(* stem or nothing, or of which one is not ingested.                        *)
EXTENDS OnlineIngest, TLC

CONSTANTS f1, f2, x, y

Card(c, b, k, l) ==
    [content |-> f1 :> x @@ f2 :> c, base |-> f1 :> "a" @@ f2 :> b, kind |-> f1 :> k @@ f2 :> l,
     stem |-> f1 :> 1 @@ f2 :> IF l = "sidecar" THEN 1 ELSE 2]

MCCards ==
    {Card(y, "a", "media", "media"), Card(x, "b", "media", "media"), Card(y, "b", "media", "sidecar"),
     Card(y, "b", "filtered", "unreadable")}

Config(q, u, o) == [queue |-> q, unbuffered |-> u, old |-> o]
MCConfigs == {Config(TRUE, FALSE, FALSE), Config(FALSE, FALSE, TRUE), Config(TRUE, TRUE, FALSE)}
=============================================================================
