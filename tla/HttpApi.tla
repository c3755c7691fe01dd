-------------------------------- MODULE HttpApi --------------------------------
(***************************************************************************)
(* The HTTP server of the core crate (core/src/http/server) and the two    *)
(* clients (core/src/http/client, app/rust/src/api/http.rs): the server's  *)
(* task with its two listeners, the connections it spawns, the handlers    *)
(* and the nonces both ends keep, and what a client makes of an answer.    *)
(*                                                                         *)
(* A server is one of this crate (Cores) or the app's own, written in      *)
(* Dart, which knows version 2 and is external here.  A handler holds the  *)
(* lock of received_nonce_map until it has put into both maps, and so does *)
(* the client: either is one action.                                       *)
(***************************************************************************)
EXTENDS Crypto, FiniteSets

CONSTANTS
    Clients,    \* LsHttpClientV2 and LsHttpClientV3 instances
    Anonymous,  \* those made by try_new_without_cert
    Servers,
    Cores,      \* the servers of this crate
    Host,       \* the IP address of each of them
    Setups,     \* how the servers are started and what is asked, see Config, Request
    Capacity,   \* of the nonce maps: 200 in the code
    MaxChunks   \* bound: chunks the app adds to an upload

Families == {"v4", "v6"}

\* dual: a listener on :: takes IPv4 connections as well, so that the system
\* refuses the same port on 0.0.0.0; taken: the port is somebody else's; fresh:
\* servers started now, the others run all the time (a bound).
Config == [tls : BOOLEAN, legacy : BOOLEAN, dual : BOOLEAN, taken : SUBSET Families,
           fresh : SUBSET Cores]

\* expect: whose public key the caller expects, of a server it met before.
Request == [client : Clients, server : Servers, version : {"v2", "v3"},
            op : {"nonce", "register", "prepare-upload", "upload", "cancel", "info",
                  "prepare-download", "download"},
            family : Families, expect : Servers \cup {"nobody"}]

ASSUME HttpAssumption ==
    /\ Anonymous \subseteq Clients /\ Cores \subseteq Servers
    /\ Clients \cap Servers = {}    \* a client has maps of its own
    /\ \A u \in Setups : u.config \in Config /\ u.plan \in Seq(Request)
    /\ Capacity \in Nat \ {0} /\ MaxChunks \in Nat

Calls == UNION {DOMAIN u.plan : u \in Setups}

VARIABLES
    config,     \* the one the servers are started with
    request,    \* what each call asks
    task,       \* a server's spawned task: "select", "ended"
    stopping,   \* stop_tx was used or dropped
    listener,   \* of a server: "unbound", "open", "failed", "closed"
    conns,      \* connections a client keeps, and the server's tasks for them
    received,   \* received_nonce_map of a server or a client, latest first
    generated,  \* generated_nonce_map
    phase,      \* of a call: "new", "sent", "answered", "done"
    answer,     \* the response on its way to a call
    result,     \* what the call returned
    body,       \* an upload's stream: [added, taken, adding, closed]
    clean,      \* exchanges in flight that no other one overlapped
    agreed      \* client and server whose last exchange was one of these

serverVars == <<task, stopping, listener>>
nonceVars  == <<received, generated, clean, agreed>>
vars == <<config, request, serverVars, conns, nonceVars, phase, answer, result, body>>

Nobody == [status |-> 0, body |-> "none"]
Answers(status, kind) == [status |-> status, body |-> kind]

Init ==
    /\ \E u \in Setups : config = u.config /\ request = u.plan
    /\ task = [s \in Cores |-> "select"]
    /\ stopping = [s \in Cores |-> FALSE]
    /\ listener = [s \in Cores |-> [f \in Families |->
                       IF s \in config.fresh THEN "unbound" ELSE "open"]]
    /\ conns = {}
    /\ received = [d \in Clients \cup Cores |-> <<>>]
    /\ generated = [d \in Clients \cup Cores |-> <<>>]
    /\ phase = [i \in Calls |-> "new"]
    /\ answer = [i \in Calls |-> Nobody]
    /\ result = [i \in Calls |-> "none"]
    /\ body = [i \in Calls |-> [added |-> 0, taken |-> 0, adding |-> FALSE, closed |-> FALSE]]
    /\ clean = {}
    /\ agreed = {}

-----------------------------------------------------------------------------
(* start_with_port: the task selects over the two listeners and stop_rx,   *)
(* polled in any order.  It has returned before the first of these steps.  *)

\* The other branches of the select! are dropped with their listeners.
EndTask(s) ==
    /\ task' = [task EXCEPT ![s] = "ended"]
    /\ listener' = [listener EXCEPT ![s] = [f \in Families |-> "closed"]]

\* Mutant: a listener on :: that fails ends the select! as well.
EndsWithAny(s, f) == EndTask(s)

\* A listener that fails: IPv6 only sleeps from then on.
Fails(s, f) ==
    \/ f = "v4" /\ EndTask(s)
    \/ f = "v6" /\ listener' = [listener EXCEPT ![s][f] = "failed"] /\ UNCHANGED task

Refused(s, f) ==
    \/ f \in config.taken
    \/ config.dual /\ \E g \in Families \ {f} : listener[s][g] = "open"

Bind(s, f) ==
    /\ task[s] = "select" /\ listener[s][f] = "unbound"
    /\ \/ Refused(s, f) /\ Fails(s, f)
       \/ /\ ~Refused(s, f)
          /\ listener' = [listener EXCEPT ![s][f] = "open"]
          /\ UNCHANGED task
    /\ UNCHANGED <<config, request, stopping, conns, nonceVars, phase, answer, result, body>>

AcceptFails(s, f) ==
    /\ s \in config.fresh
    /\ task[s] = "select" /\ listener[s][f] = "open"
    /\ Fails(s, f)
    /\ UNCHANGED <<config, request, stopping, conns, nonceVars, phase, answer, result, body>>

StopServer(s) ==
    /\ s \in config.fresh /\ ~stopping[s]
    /\ stopping' = [stopping EXCEPT ![s] = TRUE]
    /\ UNCHANGED <<config, request, task, listener, conns, nonceVars, phase, answer, result,
                   body>>

Stopped(s) ==
    /\ task[s] = "select" /\ stopping[s]
    /\ EndTask(s)
    /\ UNCHANGED <<config, request, stopping, conns, nonceVars, phase, answer, result, body>>

-----------------------------------------------------------------------------
(* What the handlers answer.                                               *)

Payload(r) ==
    CASE r.op = "register" -> IF r.version = "v2" THEN "RegisterDtoV2" ELSE "RegisterDto"
      [] r.op = "nonce" -> "NonceRequest"
      [] r.op = "upload" -> "bytes"
      [] r.op = "prepare-upload" -> "PrepareUploadRequestDto"
      [] OTHER -> "nothing"

\* handle_request_inner: every path of version 2 leads to v2::register, which
\* reads a RegisterDto, with a token and a protocol in capitals.
CoreAnswer(r) ==
    CASE r.version = "v2" /\ r.op \in {"register", "prepare-upload", "upload", "cancel"} ->
            IF ~config.legacy THEN Answers(404, "error")
            ELSE IF Payload(r) = "RegisterDto" THEN Answers(200, "RegisterResponseDto")
            ELSE Answers(400, "error")
      [] r.version = "v3" /\ r.op = "nonce" -> Answers(200, "NonceResponse")
      [] r.version = "v3" /\ r.op = "register" -> Answers(200, "RegisterResponseDto")
      [] OTHER -> Answers(404, "nothing")

\* What the client's comments say a receiver answers; early: before it has read
\* the body of the request.
AppAnswers(r, early) ==
    IF r.version = "v3" THEN {Answers(404, "nothing")}
    ELSE
    CASE r.op = "register" -> {Answers(200, "RegisterResponseDto")}
      [] r.op = "prepare-upload" ->
            {Answers(200, "PrepareUploadResponseDto"), Answers(204, "nothing"),
             Answers(403, "error"), Answers(500, "error")}
      [] r.op = "upload" -> IF early THEN {Answers(403, "error")}
                                     ELSE {Answers(200, "nothing"), Answers(500, "error")}
      [] r.op = "cancel" -> {Answers(200, "nothing"), Answers(409, "error")}
      [] r.op = "info" -> {Answers(200, "InfoResponseDtoV2")}
      [] OTHER -> {Answers(200, "PrepareDownloadResponseDtoV2"), Answers(403, "error")}

-----------------------------------------------------------------------------
(* The nonce maps.                                                         *)

\* RequestClientInfo::identifier and to_identifier: the public key with TLS, or
\* else the address.
Identifier(d) == IF config.tls THEN d ELSE Host[d]

\* Mutant: an identifier that has a nonce keeps it.
PutIfAbsent(map, key, nonce) ==
    IF \E i \in DOMAIN map : map[i].key = key THEN map
    ELSE SubSeq(<<[key |-> key, nonce |-> nonce]>> \o map, 1,
                IF Len(map) < Capacity THEN Len(map) + 1 ELSE Capacity)

\* LruCache::put: the entry moves to the front from the place its key has, a new
\* one from the place after the last, which in a full map is the last.
Place(map, key) ==
    LET places == {n \in DOMAIN map : map[n].key = key}
    IN  IF places # {} THEN CHOOSE n \in places : TRUE
        ELSE IF Len(map) < Capacity THEN Len(map) + 1 ELSE Capacity

Put(map, key, nonce) ==
    LET place == Place(map, key)
    IN  [n \in 1..(IF place > Len(map) THEN place ELSE Len(map)) |->
            IF n = 1 THEN [key |-> key, nonce |-> nonce]
            ELSE IF n <= place THEN map[n - 1] ELSE map[n]]

ClientNonce(i) == generate_nonce(<<"client", i>>)
ServerNonce(i) == generate_nonce(<<"server", i>>)

\* The exchanges between the same two parties: with TLS a party is a device, and
\* without it all that have its address.
SameParty(d, e) == IF config.tls THEN d = e ELSE Host[d] = Host[e]
SameParties(i, c, s) ==
    /\ request[i].op = "nonce" /\ request[i].server \in Cores
    /\ SameParty(request[i].client, c) /\ SameParty(request[i].server, s)
InFlight(i) == phase[i] \in {"sent", "answered"}
Overlaps(i) ==
    {j \in DOMAIN request \ {i} : /\ InFlight(j)
                         /\ request[j].op = "nonce"
                         /\ SameParties(i, request[j].client, request[j].server)}

\* Mutant: a nonce generated for an identifier before is not replaced.
StoresTheirs(d, key, mine, theirs) ==
    /\ received' = [received EXCEPT ![d] = Put(@, key, theirs)]
    /\ generated' = [generated EXCEPT ![d] = PutIfAbsent(@, key, mine)]

Stores(d, key, mine, theirs) ==
    /\ received' = [received EXCEPT ![d] = Put(@, key, theirs)]
    /\ generated' = [generated EXCEPT ![d] = Put(@, key, mine)]

-----------------------------------------------------------------------------
(* A call.                                                                 *)

Return(i, value) ==
    /\ phase' = [phase EXCEPT ![i] = "done"]
    /\ result' = [result EXCEPT ![i] = value]

\* A client keeps its connections; a new one needs a listener, and with TLS a
\* client certificate (CustomClientCertVerifier), of which any valid one does.
Reaches(r) ==
    \/ <<r.client, r.server>> \in conns
    \/ r.server \notin Cores
    \/ /\ r.server \in Cores
       /\ \/ listener[r.server][r.family] = "open"
          \/ config.dual /\ listener[r.server]["v6"] = "open"
       /\ config.tls => r.client \notin Anonymous

Call(i) ==
    LET r == request[i]
    IN  /\ i \in DOMAIN request /\ phase[i] = "new"
        /\ \/ /\ Reaches(r)
              /\ phase' = [phase EXCEPT ![i] = "sent"]
              /\ conns' = conns \cup {<<r.client, r.server>>}
              /\ clean' = (clean \ Overlaps(i)) \cup (IF Overlaps(i) = {} THEN {i} ELSE {})
              /\ UNCHANGED result
           \/ /\ ~Reaches(r)
              /\ Return(i, "Reqwest")
              /\ UNCHANGED <<conns, clean>>
        /\ UNCHANGED <<config, request, serverVars, received, generated, agreed, answer, body>>

\* Mutant: the body ends with its sender, whatever the channel still has.
EndsWithSender(i) == body[i].closed
BodyEnds(i) == body[i].closed /\ body[i].taken = body[i].added

\* nonce_exchange, and the handlers that keep nothing; a handler reads the whole
\* body first (collect_to_json), the app may refuse an upload before that.
Serve(i) ==
    LET r == request[i]
        ended == r.op = "upload" => BodyEnds(i)
    IN  /\ phase[i] = "sent"
        /\ phase' = [phase EXCEPT ![i] = "answered"]
        /\ \/ /\ r.server \in Cores /\ (CoreAnswer(r).status = 404 \/ ended)
              /\ answer' = [answer EXCEPT ![i] = CoreAnswer(r)]
              /\ IF r.op = "nonce" /\ r.version = "v3"
                 THEN /\ Stores(r.server, Identifier(r.client), ServerNonce(i), ClientNonce(i))
                      /\ agreed' = {p \in agreed : ~SameParties(i, p[1], p[2])}
                 ELSE UNCHANGED <<received, generated, agreed>>
           \/ /\ r.server \notin Cores
              /\ \E a \in AppAnswers(r, ~ended) : answer' = [answer EXCEPT ![i] = a]
              /\ r.op = "upload" /\ ~ended => answer'[i].status >= 400
              /\ UNCHANGED <<received, generated, agreed>>
        /\ UNCHANGED <<config, request, serverVars, conns, clean, result, body>>

\* The connection breaks, before or after the server has done what was asked.
Break(i) ==
    LET r == request[i]
    IN  /\ phase[i] \in {"sent", "answered"}
        /\ Return(i, "Reqwest")
        /\ conns' = conns \ {<<r.client, r.server>>}
        /\ UNCHANGED <<config, request, serverVars, nonceVars, answer, body>>

\* verify_cert_from_res: of prepare_upload and upload with the key the caller
\* expects; of register and nonce with any, cancel and the others do not call it.
Verified(r) ==
    ~config.tls \/ r.op \notin {"prepare-upload", "upload"} \/ r.expect = "nobody"
    \/ verify_cert(certificate(generate_key(r.server)), generate_key(r.expect))

Expects(r) ==
    CASE r.op = "register" -> "RegisterResponseDto"
      [] r.op = "nonce" -> "NonceResponse"
      [] r.op = "prepare-upload" -> "PrepareUploadResponseDto"
      [] r.op = "info" -> "InfoResponseDtoV2"
      [] r.op = "prepare-download" -> "PrepareDownloadResponseDtoV2"
      [] OTHER -> "any"

\* The status that is no error: version 3 of register does not look at it.
Accepts(r, status) ==
    CASE r.op = "prepare-upload" -> status < 400
      [] r.op = "cancel" \/ (r.op = "register" /\ r.version = "v3") -> TRUE
      [] OTHER -> status = 200

\* The certificate is looked at before the status.
Outcome(r, a) ==
    IF ~Verified(r) THEN "Other"
    ELSE IF ~Accepts(r, a.status) THEN "StatusCode"
    ELSE IF r.op = "prepare-upload" /\ a.status = 204 THEN "Ok"
    ELSE IF Expects(r) \in {"any", a.body} THEN "Ok"
    ELSE "Reqwest"

Receive(i) ==
    LET r == request[i]
        out == Outcome(r, answer[i])
    IN  /\ phase[i] = "answered"
        /\ Return(i, out)
        /\ IF r.op = "nonce" /\ out = "Ok"
           THEN /\ Stores(r.client, Identifier(r.server), ClientNonce(i), ServerNonce(i))
                /\ agreed' = IF i \in clean THEN agreed \cup {<<r.client, r.server>>}
                                          ELSE agreed
           ELSE UNCHANGED <<received, generated, agreed>>
        /\ UNCHANGED <<config, request, serverVars, conns, clean, answer, body>>

-----------------------------------------------------------------------------
(* The stream of an upload: create_stream, Dart2RustStreamSink::add.       *)

Add(i) ==
    /\ request[i].op = "upload" /\ ~body[i].adding /\ ~body[i].closed
    /\ body[i].added < MaxChunks
    /\ body' = [body EXCEPT ![i].adding = TRUE]
    /\ UNCHANGED <<config, request, serverVars, conns, nonceVars, phase, answer, result>>

\* The request and with it the receiver of the channel is gone.
Dropped(i) == phase[i] = "done"

\* The channel has room for one chunk.
Added(i) ==
    /\ body[i].adding
    /\ \/ /\ body[i].added = body[i].taken /\ ~Dropped(i)
          /\ body' = [body EXCEPT ![i].added = @ + 1, ![i].adding = FALSE]
       \/ /\ Dropped(i)
          /\ body' = [body EXCEPT ![i].adding = FALSE]
    /\ UNCHANGED <<config, request, serverVars, conns, nonceVars, phase, answer, result>>

Take(i) ==
    /\ phase[i] = "sent" /\ request[i].op = "upload"
    /\ body[i].taken < body[i].added
    /\ body' = [body EXCEPT ![i].taken = @ + 1]
    /\ UNCHANGED <<config, request, serverVars, conns, nonceVars, phase, answer, result>>

CloseSink(i) ==
    /\ request[i].op = "upload" /\ ~body[i].adding /\ ~body[i].closed
    /\ body' = [body EXCEPT ![i].closed = TRUE]
    /\ UNCHANGED <<config, request, serverVars, conns, nonceVars, phase, answer, result>>

-----------------------------------------------------------------------------

Server(s) == \/ \E f \in Families : Bind(s, f) \/ AcceptFails(s, f)
             \/ StopServer(s) \/ Stopped(s)
Exchange(i) == Call(i) \/ Serve(i) \/ Break(i) \/ Receive(i)
Stream(i) == Add(i) \/ Added(i) \/ Take(i) \/ CloseSink(i)

Next == \/ \E s \in Cores : Server(s)
        \/ \E i \in DOMAIN request : Exchange(i) \/ Stream(i)

Spec == Init /\ [][Next]_vars

\* The tasks run, calls are made and a body is read; whether a server is stopped
\* or answers, and what the app adds to an upload and when, is not up to this code.
FairSpec ==
    /\ Spec
    /\ \A s \in Cores : /\ WF_vars(Stopped(s))
                        /\ \A f \in Families : WF_vars(Bind(s, f))
    /\ \A i \in Calls : /\ WF_vars(Call(i)) /\ WF_vars(Receive(i))
                        /\ WF_vars(Take(i)) /\ WF_vars(Added(i))

-----------------------------------------------------------------------------
(* Correctness.                                                            *)

\* An entry of received_nonce_map and its neighbour in generated_nonce_map are
\* of one exchange, and both maps evict the same device: whatever exchanges
\* overlap, no side ever has half of one and half of another.
MapsInStep ==
    \A d \in Clients \cup Cores :
        /\ Len(received[d]) = Len(generated[d])
        /\ \A n \in DOMAIN received[d] :
              /\ received[d][n].key = generated[d][n].key
              /\ received[d][n].nonce.of[2] = generated[d][n].nonce.of[2]

\* Client and server agree on the nonces after an exchange that no other one of
\* the same two parties overlapped, until the next one is served, whatever other
\* devices do (nonce_exchange, LsHttpClientV3::nonce): an entry is missing only
\* where others have pushed it out.
Agreement ==
    \A p \in agreed :
        \A m \in DOMAIN received[p[1]], n \in DOMAIN received[p[2]] :
            /\ received[p[1]][m].key = Identifier(p[2])
            /\ received[p[2]][n].key = Identifier(p[1])
            => /\ received[p[1]][m].nonce = generated[p[2]][n].nonce
               /\ generated[p[1]][m].nonce = received[p[2]][n].nonce

\* An upload that returned Ok was read to its end by the device the caller meant,
\* with every chunk whose add() returned Ok; prepare_upload asked that device.
OkMeansDone ==
    \A i \in DOMAIN request :
        (result[i] = "Ok" /\ request[i].op \in {"prepare-upload", "upload"}) =>
            /\ answer[i].status \in {200, 204}
            /\ config.tls => request[i].expect \in {"nobody", request[i].server}
            /\ request[i].op = "upload" => body[i].closed /\ body[i].taken = body[i].added

-----------------------------------------------------------------------------
(* Why they hold.                                                          *)

Ids == Clients \cup Servers \cup {Host[d] : d \in Clients \cup Servers}
Nonces == {ClientNonce(i) : i \in Calls} \cup {ServerNonce(i) : i \in Calls}
Entry == [key : Ids, nonce : Nonces]
Statuses == {0, 200, 204, 400, 403, 404, 409, 500}
Kinds == {"none", "nothing", "error", "RegisterResponseDto", "NonceResponse",
          "PrepareUploadResponseDto", "InfoResponseDtoV2", "PrepareDownloadResponseDtoV2"}

\* The type invariant.
TypeOK ==
    /\ config \in Config
    /\ request \in Seq(Request) /\ DOMAIN request \subseteq Calls
    /\ task \in [Cores -> {"select", "ended"}]
    /\ stopping \in [Cores -> BOOLEAN]
    /\ listener \in [Cores -> [Families -> {"unbound", "open", "failed", "closed"}]]
    /\ conns \subseteq Clients \X Servers
    /\ received \in [Clients \cup Cores -> Seq(Entry)]
    /\ generated \in [Clients \cup Cores -> Seq(Entry)]
    /\ phase \in [Calls -> {"new", "sent", "answered", "done"}]
    /\ answer \in [Calls -> [status : Statuses, body : Kinds]]
    /\ result \in [Calls -> {"none", "Ok", "Reqwest", "StatusCode", "Other"}]
    /\ body \in [Calls -> [added : Nat, taken : Nat, adding : BOOLEAN, closed : BOOLEAN]]
    /\ clean \subseteq DOMAIN request
    /\ agreed \subseteq Clients \X Cores

\* A call returns once; what it is to return when the answer is a good one is
\* settled when it is answered; and nothing is added to a closed stream.
CallInv ==
    \A i \in DOMAIN request :
        /\ phase[i] # "done" => result[i] = "none"
        /\ (phase[i] = "answered" /\ request[i].op \in {"prepare-upload", "upload"}) =>
              \/ answer[i].status >= 400
              \/ /\ answer[i].status \in {200, 204}
                 /\ request[i].op = "upload" => BodyEnds(i)
        /\ (phase[i] = "answered" /\ answer[i].body = "NonceResponse") =>
              /\ request[i].op = "nonce" /\ request[i].version = "v3"
              /\ request[i].server \in Cores
        /\ body[i].closed => ~body[i].adding

\* A map has an identifier once.
KeyInv ==
    \A d \in Clients \cup Cores : \A m, n \in DOMAIN received[d] :
        received[d][m].key = received[d][n].key => m = n

\* An exchange that no other one overlapped is the only one of its two parties
\* under way, and once it is served the server has its nonces and no others.
CleanInv ==
    \A i \in clean :
        LET c == request[i].client
            s == request[i].server
        IN  /\ phase[i] # "new"
            /\ InFlight(i) /\ SameParties(i, c, s) =>
                  \A j \in DOMAIN request \ {i} : InFlight(j) => ~SameParties(j, c, s)
            /\ (phase[i] = "answered" /\ answer[i].body = "NonceResponse") =>
                  \A n \in DOMAIN received[s] : received[s][n].key = Identifier(c) =>
                      /\ received[s][n].nonce = ClientNonce(i)
                      /\ generated[s][n].nonce = ServerNonce(i)

\* No answer is under way to a client and a server that agree.
AgreedInv ==
    \A p \in agreed : \A j \in DOMAIN request :
        phase[j] = "answered" /\ request[j].version = "v3" => ~SameParties(j, p[1], p[2])

\* The inductive invariant.
IndInv ==
    /\ TypeOK
    /\ CallInv
    /\ KeyInv
    /\ CleanInv
    /\ AgreedInv
    /\ MapsInStep
    /\ Agreement
    /\ OkMeansDone

-----------------------------------------------------------------------------

\* A server whose port is free for IPv4 listens there, whatever becomes of IPv6,
\* unless it is stopped first.
Ipv4Starts ==
    \A s \in Cores :
        (task[s] = "select" /\ ~config.dual /\ "v4" \notin config.taken)
            ~> (listener[s]["v4"] = "open" \/ stopping[s])
=============================================================================
