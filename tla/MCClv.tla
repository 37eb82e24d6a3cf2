------------------------------- MODULE MCClv -------------------------------
(* Instances of Clv: closing markets from deep underround to two heavy       *)
(* favourites, three-way markets, and a lone price.                          *)
EXTENDS Clv

SomePrices == {-2000, -1500, -1000, -220, -150, -110, -100, 100, 105, 130, 180, 200,
               500, 10000, 60000}
SomeMarkets == {<<a, b>> : a, b \in SomePrices}
               \cup {<<-110>>, <<130, 200, 250>>, <<-150, 400, 500>>}
=============================================================================
