------------------------------ MODULE MCReality -----------------------------
EXTENDS Reality, TLC

CONSTANTS c1, c2

\* Two handshakes of clients in every mixture, and each kind of stranger beside a client,
\* one with a copy of its hello among them.
Pairs ==
  {c1 :> k @@ c2 :> "Client" : k \in {"Client", "StaleManifest", "Replay", "WrongTag", "Junk"}}
    \union {c1 :> "StaleManifest" @@ c2 :> "StaleCover", c1 :> "Probe" @@ c2 :> "StaleCover"}

MoreToSite == [d \in Directions |-> IF d = "ToSite" THEN 3 ELSE 2]
=============================================================================
