------------------------------- MODULE MCKeyd -------------------------------
(* Keyd instantiated for TLC: a few mixes of requests and mishaps. *)
EXTENDS Keyd, TLC

CONSTANTS d1, d2, k1, k2, g1, g2, g3

\* Two grants to mint with, of which one outlives the other, and the cache's tools.
MCLifetime == g1 :> 1 @@ g2 :> 2 @@ g3 :> 2
MCTool     == g1 :> "credential" @@ g2 :> "git_credential" @@ g3 :> "token_cache_evict"
MCScope    == g1 :> "soul" @@ g2 :> "app" @@ g3 :> "soul"
MCSigner   == [g \in Grant |-> d1]

Start(pin, key, seed, connects, soul, owner, ticks, deaths, aliens, outside, leaves) ==
  [items  |-> [pin |-> pin, owners |-> NoRecord, presence |-> seed, statement |-> seed,
               soul |-> key, app |-> key, cache |-> FALSE],
   budget |-> [connects |-> connects, soul |-> soul, owner |-> owner, ticks |-> ticks,
               deaths |-> deaths, aliens |-> aliens, outside |-> outside, leaves |-> leaves]]

\* In turn: two owner requests at once; an item keyd loses control of; a key that
\* appears during a prompt; grants that lapse, spent one after the other and two
\* at a time; a full socket; a death; owner and soul at once.
MCStarts == {
  Start(d1,   None,      None,      2, 0, 2, 0, 0, 0, 0, 0),
  Start(d1,   None,      Elsewhere, 1, 0, 2, 0, 0, 1, 0, 0),
  Start(None, None,      None,      1, 0, 1, 0, 0, 0, 1, 1),
  Start(d1,   Elsewhere, None,      1, 3, 0, 2, 0, 0, 0, 0),
  Start(d1,   Elsewhere, None,      2, 3, 0, 1, 0, 0, 0, 0),
  Start(d1,   None,      None,      3, 2, 0, 0, 0, 0, 0, 1),
  Start(d1,   None,      Elsewhere, 2, 0, 2, 0, 1, 0, 0, 0),
  Start(d1,   Elsewhere, Elsewhere, 2, 1, 1, 0, 0, 0, 0, 0)}

\* Of these, grants that lapse while two calls are at work.
LateStarts == {Start(d1, Elsewhere, None, 2, 3, 0, 1, 0, 0, 0, 0)}
=============================================================================
