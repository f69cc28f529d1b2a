----------------------------- MODULE MCStorefront -----------------------------
(* A small instance of Storefront on its own.  An offering made through the  *)
(* API may have a tag that the form splits in two.                          *)
EXTENDS Storefront, TLC

CONSTANTS o1, s1

MCTagsOfSeed == (s1 :> {"mlx"})
MCWordsOf == ("mlx" :> {"mlx"}) @@ ("m4" :> {"m4"}) @@ ("mlx,m4" :> {"mlx", "m4"})
===============================================================================
