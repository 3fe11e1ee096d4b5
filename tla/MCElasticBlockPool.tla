-------------------------- MODULE MCElasticBlockPool --------------------------
(* ElasticBlockPool with three requests, two of which share their prompt, on *)
(* pages of two blocks.                                                      *)
EXTENDS ElasticBlockPool

CONSTANTS r1, r2, r3, h1, h2, h3
SharedPrompt == r1 :> <<h1, h2>> @@ r2 :> <<h1, h2, NoHash>> @@ r3 :> <<h3, NoHash>>
===============================================================================
