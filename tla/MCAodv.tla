------------------------------- MODULE MCAodv -------------------------------
(* AODV on chains of nodes that hear only their neighbours, on nodes that  *)
(* all hear each other, and on two that are deaf to each other.            *)
EXTENDS AodvRouting, TLC

CONSTANTS a, b, c, d

Chain == (a :> {b}) @@ (b :> {a, c}) @@ (c :> {b})
ToEnd == {<<a, c>>, <<b, c>>}

Chain4 == (a :> {b}) @@ (b :> {a, c}) @@ (c :> {b, d}) @@ (d :> {c})
Crossing == {<<a, d>>, <<c, a>>}

Triangle == (a :> {b, c}) @@ (b :> {a, c}) @@ (c :> {a, b})
BackAndForth == {<<b, c>>, <<c, a>>}

Pair == (a :> {}) @@ (b :> {})
ToDeaf == {<<a, b>>}
=============================================================================
