---------------------------- MODULE MCKeyService ----------------------------
(* Two calls of one client over two connections: everything that can happen *)
(* between them, and through the server between an old session and a new.   *)
EXTENDS KeyService, TLC

CONSTANTS a, c1, c2, k1, bad, x1

MCClientOf == (c1 :> a) @@ (c2 :> a)
MCAsks == (c1 :> {<<"register", k1>>, <<"find_cert", x1>>})
          @@ (c2 :> {<<"register", k1>>, <<"register", bad>>, <<"find_key", k1>>})
=============================================================================
