------------------------------- MODULE MCHttpApi -------------------------------
(* Instances of HttpApi for TLC.                                           *)
EXTENDS HttpApi, TLC

CONSTANTS c1, c2, c3, s1, s2, app, h1, h2

\* Two clients share an address, and so do two servers.
MCHost == (c1 :> h1) @@ (c2 :> h1) @@ (c3 :> h2)
          @@ (s1 :> h2) @@ (s2 :> h2) @@ (app :> h1)

Running(tls) ==
    [tls |-> tls, legacy |-> TRUE, dual |-> FALSE, taken |-> {}, fresh |-> {}]
Fresh(tls, dual, taken) ==
    [Running(tls) EXCEPT !.dual = dual, !.taken = taken, !.fresh = {s1}]

Ask(c, s, version, op) ==
    [client |-> c, server |-> s, version |-> version, op |-> op,
     family |-> "v4", expect |-> "nobody"]
Nonce(c, s) == Ask(c, s, "v3", "nonce")

\* Exchanges that overlap, that share an address, that push each other out.
Exchanges ==
    [config : {Running(TRUE), Running(FALSE)},
     plan : {<<Nonce(c1, s1), Nonce(c1, s1), Nonce(c2, s1)>>,
             <<Nonce(c1, s1), Nonce(c1, s2), Nonce(c1, s1)>>,
             <<Nonce(c1, s1), Nonce(c2, s2), Nonce(c2, s1), Nonce(c1, s1)>>}]

\* Servers that start and stop while they are asked, over either family.
Starts ==
    [config : {Fresh(TRUE, FALSE, {}), Fresh(TRUE, FALSE, {"v6"}),
               Fresh(FALSE, FALSE, {"v4"}), Fresh(FALSE, TRUE, {})},
     plan : {<<Ask(c1, s1, "v3", "register"), Nonce(c3, s1),
               [Nonce(c1, s1) EXCEPT !.family = "v6"]>>}]

\* Every call of the clients, to a server of the crate and to the app.
Others ==
    [config : {Running(TRUE), Running(FALSE), [Running(TRUE) EXCEPT !.legacy = FALSE]},
     plan : {<<Ask(c1, s, v, op)>> : s \in {s1, app}, v \in {"v2", "v3"},
                 op \in {"register", "prepare-upload", "upload", "cancel"}}
            \cup {<<Ask(c3, s, "v2", op)>> : s \in {s1, app},
                      op \in {"info", "prepare-download", "download"}}
            \cup {<<Nonce(c1, app)>>}
            \cup {<<[Ask(c1, app, "v2", op) EXCEPT !.expect = s1]>> :
                      op \in {"prepare-upload", "upload"}}]

MCSetups == Exchanges \cup Starts \cup Others
=============================================================================
