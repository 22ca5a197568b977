---------------------------- MODULE MCReception ----------------------------
(* Instances of Reception for TLC. *)
EXTENDS Reception, TLC

CONSTANTS root, name, proxy, ext

Names    == {root, name, proxy}
Outside  == {ext}
Submitted == {proxy}

Dir(kind, alias, proxies) ==
    [u \in User |-> [kind |-> kind[u],
                     to |-> [l \in Link |-> IF l = "alias" THEN alias[u] ELSE proxies[u]]]]

Named(r, n, p) == root :> r @@ name :> n @@ proxy :> p

\* Two accounts and a proxy to the outside; a chain of one name too many; a
\* loop and a proxy to a missing name.  The second's alias stays in the first.
ThreeDirs ==
    {Dir(Named("account", "account", "proxy"), Named(None, root, None), Named(None, None, ext)),
     Dir(Named("account", "alias", "proxy"), Named(None, root, None), Named(None, None, name)),
     Dir(Named("none", "alias", "proxy"), Named(None, name, None), Named(None, None, root))}
=============================================================================
