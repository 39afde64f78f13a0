------------------------------- MODULE MC_Router -------------------------------
(* One method, the patterns /, /a/b, /a/:x, /:x/c and /a/*f/b, added in    *)
(* every order, and every path of up to three parts over a, b, c and "".   *)
EXTENDS Router

CONSTANTS get, none

MCStatics == {"a", "b", "c"}

MCPatterns ==
    { <<"", "">>,
      <<"", "a", "b">>,
      <<"", "a", ":x">>,
      <<"", ":x", "c">>,
      <<"", "a", "*f", "b">> }

\* "/" followed by up to three elements; "" elements are "//" or a
\* trailing "/".
MCPaths == { <<"">> \o s : s \in SeqOf(MCStatics \cup {""}, 3) }

=============================================================================
