---------------------------- MODULE MC_Middleware ----------------------------
(***************************************************************************)
(* Five kinds of middleware: Logger (day7-panic/gee/logger.go) calls Next  *)
(* once, a plain one never calls it, an auth check fails, one calls Fail   *)
(* after Next, and one calls Next twice.  Groups are made with /v and /v1, *)
(* so one group's prefix is a string prefix of another's.                  *)
(***************************************************************************)
EXTENDS Middleware

CONSTANTS logger, plain, auth, late, twice

MCHandlers == {logger, plain, auth, late, twice}

MCProg ==
    (logger :> <<"next">>) @@ (plain :> <<>>) @@ (auth :> <<"fail">>) @@
    (late :> <<"next", "fail">>) @@ (twice :> <<"next", "next">>)

MCComps == {<<"/", "v">>, <<"/", "v", "1">>}

MCPaths == {<<"/", "x">>, <<"/", "v", "1", "/", "x">>, <<"/", "v", "/", "x">>}

====
