---------------------------- MODULE HttpApi_proofs ----------------------------
(***************************************************************************)
(* Proofs about HttpApi: the nonce maps of a client and a server stay in   *)
(* step and agree after an exchange of their own, and an upload that       *)
(* returned Ok is done, for any clients, servers, addresses, calls and any *)
(* capacity of the maps.                                                   *)
(***************************************************************************)
EXTENDS HttpApi, TLAPS

-----------------------------------------------------------------------------
(* The nonce maps.                                                         *)

\* A map of a key at most once.
Once(map) == \A m, n \in DOMAIN map : map[m].key = map[n].key => m = n

\* Two maps with the same keys at the same places.
Parallel(map, other) ==
    /\ Len(map) = Len(other)
    /\ \A n \in DOMAIN map : map[n].key = other[n].key

\* The place an entry is taken from is one of the map's or the next.
LEMMA PlaceRange ==
    ASSUME NEW map \in Seq(Entry), NEW key
    PROVE  /\ Place(map, key) \in 1..(Len(map) + 1)
           /\ \A n \in DOMAIN map : map[n].key = key =>
                 Place(map, key) \in DOMAIN map /\ map[Place(map, key)].key = key
<1> DEFINE places == {n \in DOMAIN map : map[n].key = key}
<1>1. Capacity \in Nat \ {0}
  BY HttpAssumption
<1>2. Len(map) \in Nat /\ DOMAIN map = 1..Len(map)
  OBVIOUS
<1>3. CASE places = {}
  <2>1. Place(map, key) = IF Len(map) < Capacity THEN Len(map) + 1 ELSE Capacity
    BY <1>3 DEF Place
  <2> QED
    BY <2>1, <1>1, <1>2, <1>3
<1>4. CASE places # {}
  <2>1. Place(map, key) = CHOOSE n \in places : TRUE
    BY <1>4 DEF Place
  <2>2. Place(map, key) \in places
    BY <2>1, <1>4
  <2> QED
    BY <2>2, <1>2
<1> QED
  BY <1>3, <1>4

\* Parallel maps take the entry of a key from the same place.
LEMMA PlaceParallel ==
    ASSUME NEW map \in Seq(Entry), NEW other \in Seq(Entry), NEW key, Parallel(map, other)
    PROVE  Place(map, key) = Place(other, key)
<1>1. DOMAIN map = DOMAIN other /\ Len(map) = Len(other)
  BY DEF Parallel
<1> DEFINE places(r) == {n \in DOMAIN r : r[n].key = key}
           place(at, length) == IF at # {} THEN CHOOSE n \in at : TRUE
                                ELSE IF length < Capacity THEN length + 1 ELSE Capacity
<1>2. places(map) = places(other)
  BY <1>1 DEF Parallel
<1>3. /\ Place(map, key) = place(places(map), Len(map))
      /\ Place(other, key) = place(places(other), Len(other))
  BY DEF Place
<1> HIDE DEF places, place
<1> QED
  BY <1>1, <1>2, <1>3

\* What put leaves: the new entry first, and behind it entries of the map, each
\* from the place shift names.
LEMMA PutIs ==
    ASSUME NEW map \in Seq(Entry), NEW key \in Ids, NEW nonce \in Nonces
    PROVE  LET place == Place(map, key)
               new == Put(map, key, nonce)
           IN  /\ new \in Seq(Entry)
               /\ Len(new) = IF place > Len(map) THEN place ELSE Len(map)
               /\ Len(new) >= 1
               /\ new[1] = [key |-> key, nonce |-> nonce]
               /\ \A n \in 2..Len(new) :
                     /\ n <= place => n - 1 \in DOMAIN map /\ new[n] = map[n - 1]
                     /\ n > place => n \in DOMAIN map /\ new[n] = map[n]
<1> DEFINE place == Place(map, key)
           length == IF place > Len(map) THEN place ELSE Len(map)
           entry == [key |-> key, nonce |-> nonce]
           new == [n \in 1..length |-> IF n = 1 THEN entry
                                       ELSE IF n <= place THEN map[n - 1] ELSE map[n]]
<1>1. Put(map, key, nonce) = new
  BY DEF Put
<1>2. place \in 1..(Len(map) + 1) /\ Len(map) \in Nat /\ DOMAIN map = 1..Len(map)
  BY PlaceRange
<1>3. entry \in Entry
  BY DEF Entry
<1> HIDE DEF place, entry
<1>4. length \in Nat /\ length >= 1 /\ length >= Len(map)
  BY <1>2
<1>5. \A n \in 2..length :
         /\ n <= place => n - 1 \in DOMAIN map /\ new[n] = map[n - 1]
         /\ n > place => n \in DOMAIN map /\ new[n] = map[n]
  BY <1>2
<1>6. \A n \in 1..length : new[n] \in Entry
  BY <1>2, <1>3
<1> HIDE DEF length
<1>7. new \in Seq(Entry) /\ Len(new) = length
  BY <1>4, <1>6
<1>8. new[1] = entry
  BY <1>4
<1>9. /\ new \in Seq(Entry) /\ Len(new) = length /\ Len(new) >= 1
      /\ new[1] = entry
      /\ \A n \in 2..Len(new) :
            /\ n <= place => n - 1 \in DOMAIN map /\ new[n] = map[n - 1]
            /\ n > place => n \in DOMAIN map /\ new[n] = map[n]
  <2> HIDE DEF new
  <2> QED
    BY <1>4, <1>5, <1>7, <1>8
<1> HIDE DEF new
<1> QED
  BY <1>1, <1>9, ZenonT(60) DEF place, length, entry

\* Put into both of two parallel maps with unique keys: the new entries are at the
\* front, and every other pair of entries was one, of another key.
LEMMA PutBoth ==
    ASSUME NEW map \in Seq(Entry), NEW other \in Seq(Entry), Parallel(map, other), Once(map),
           NEW key \in Ids, NEW theirs \in Nonces, NEW mine \in Nonces
    PROVE  LET new == Put(map, key, theirs)
               beside == Put(other, key, mine)
           IN  /\ new \in Seq(Entry) /\ beside \in Seq(Entry)
               /\ Parallel(new, beside) /\ Once(new)
               /\ 1 \in DOMAIN new
               /\ new[1] = [key |-> key, nonce |-> theirs]
               /\ beside[1] = [key |-> key, nonce |-> mine]
               /\ \A n \in DOMAIN new \ {1} : \E m \in DOMAIN map :
                     /\ map[m].key # key
                     /\ new[n] = map[m] /\ beside[n] = other[m]
<1> DEFINE place == Place(map, key)
           new == Put(map, key, theirs)
           beside == Put(other, key, mine)
           from(n) == IF n <= place THEN n - 1 ELSE n
<1>1. /\ Len(map) = Len(other) /\ DOMAIN map = DOMAIN other
      /\ Len(map) \in Nat /\ DOMAIN map = 1..Len(map)
  BY DEF Parallel
<1>2. /\ place \in 1..(Len(map) + 1) /\ place = Place(other, key)
      /\ \A n \in DOMAIN map : map[n].key = key => place \in DOMAIN map /\ map[place].key = key
  BY PlaceRange, PlaceParallel
<1>3. /\ new \in Seq(Entry) /\ Len(new) >= 1
      /\ Len(new) = IF place > Len(map) THEN place ELSE Len(map)
      /\ new[1] = [key |-> key, nonce |-> theirs]
      /\ \A n \in 2..Len(new) : /\ n <= place => n - 1 \in DOMAIN map /\ new[n] = map[n - 1]
                                /\ n > place => n \in DOMAIN map /\ new[n] = map[n]
  BY PutIs, ZenonT(60)
<1>4. /\ beside \in Seq(Entry)
      /\ Len(beside) = IF Place(other, key) > Len(other) THEN Place(other, key)
                       ELSE Len(other)
      /\ beside[1] = [key |-> key, nonce |-> mine]
      /\ \A n \in 2..Len(beside) :
            /\ n <= Place(other, key) => n - 1 \in DOMAIN other /\ beside[n] = other[n - 1]
            /\ n > Place(other, key) => n \in DOMAIN other /\ beside[n] = other[n]
  BY PutIs, ZenonT(60)
<1> HIDE DEF place, new, beside
<1>5. Len(new) = Len(beside) /\ DOMAIN new = 1..Len(new) /\ Len(new) \in Nat
  BY <1>1, <1>2, <1>3, <1>4
<1>6. \A n \in 2..Len(new) : /\ from(n) \in DOMAIN map
                             /\ new[n] = map[from(n)] /\ beside[n] = other[from(n)]
  <2> SUFFICES ASSUME NEW n \in 2..Len(new)
               PROVE  /\ from(n) \in DOMAIN map
                      /\ new[n] = map[from(n)] /\ beside[n] = other[from(n)]
    OBVIOUS
  <2>1. n \in 2..Len(beside)
    BY <1>5
  <2>2. CASE n <= place
    <3>1. from(n) = n - 1
      BY <2>2
    <3>2. n - 1 \in DOMAIN map /\ new[n] = map[n - 1]
      BY <2>2, <1>3
    <3>3. beside[n] = other[n - 1]
      BY <2>1, <2>2, <1>2, <1>4
    <3> QED
      BY <3>1, <3>2, <3>3
  <2>3. CASE ~(n <= place)
    <3>1. from(n) = n /\ n > place
      BY <2>3, <1>2, <1>5
    <3>2. n \in DOMAIN map /\ new[n] = map[n]
      BY <3>1, <1>3
    <3>3. beside[n] = other[n]
      BY <2>1, <3>1, <1>2, <1>4
    <3> QED
      BY <3>1, <3>2, <3>3
  <2> QED
    BY <2>2, <2>3
<1>7. \A n \in 2..Len(new) : map[from(n)].key # key
  <2> SUFFICES ASSUME NEW n \in 2..Len(new), map[from(n)].key = key
               PROVE  FALSE
    OBVIOUS
  <2>1. from(n) \in DOMAIN map /\ from(n) # place
    BY <1>6, <1>2, <1>5
  <2>2. place \in DOMAIN map /\ map[place].key = map[from(n)].key
    BY <2>1, <1>2
  <2> QED
    BY <2>1, <2>2 DEF Once
<1>8. \A m, n \in 2..Len(new) : from(m) = from(n) => m = n
  BY <1>2, <1>5
<1> HIDE DEF from
<1>9. new[1].key = key /\ beside[1].key = key
  BY <1>3, <1>4
<1>10. \A n \in 2..Len(new) : new[n].key # key
  BY <1>6, <1>7
<1>11. Once(new)
  <2> SUFFICES ASSUME NEW m \in DOMAIN new, NEW n \in DOMAIN new, new[m].key = new[n].key
               PROVE  m = n
    BY DEF Once
  <2>1. CASE m = 1 \/ n = 1
    BY <2>1, <1>5, <1>9, <1>10
  <2>2. CASE m # 1 /\ n # 1
    <3>1. m \in 2..Len(new) /\ n \in 2..Len(new)
      BY <2>2, <1>5
    <3>2. from(m) = from(n)
      BY <3>1, <1>6 DEF Once
    <3> QED
      BY <3>1, <3>2, <1>8
  <2> QED
    BY <2>1, <2>2
<1>12. Parallel(new, beside)
  <2> SUFFICES ASSUME NEW n \in DOMAIN new
               PROVE  new[n].key = beside[n].key
    BY <1>5 DEF Parallel
  <2>1. CASE n = 1
    BY <2>1, <1>9
  <2>2. CASE n # 1
    <3>1. n \in 2..Len(new)
      BY <2>2, <1>5
    <3> QED
      BY <3>1, <1>6 DEF Parallel
  <2> QED
    BY <2>1, <2>2
<1>13. \A n \in DOMAIN new \ {1} : \E m \in DOMAIN map :
          map[m].key # key /\ new[n] = map[m] /\ beside[n] = other[m]
  <2> SUFFICES ASSUME NEW n \in DOMAIN new \ {1}
               PROVE  \E m \in DOMAIN map :
                         map[m].key # key /\ new[n] = map[m] /\ beside[n] = other[m]
    OBVIOUS
  <2>1. n \in 2..Len(new)
    BY <1>5
  <2> QED
    BY <2>1, <1>6, <1>7
<1>14. 1 \in DOMAIN new
  BY <1>3, <1>5
<1> QED
  BY <1>3, <1>4, <1>11, <1>12, <1>13, <1>14 DEF new, beside

-----------------------------------------------------------------------------
(* Parties and nonces.                                                     *)

LEMMA PartyIs ==
    ASSUME NEW d, NEW e
    PROVE  SameParty(d, e) <=> Identifier(d) = Identifier(e)
BY DEF SameParty, Identifier

LEMMA IdentifierType ==
    ASSUME NEW d \in Clients \cup Servers
    PROVE  Identifier(d) \in Ids
BY DEF Identifier, Ids

LEMMA NonceIs ==
    ASSUME NEW i \in Calls
    PROVE  /\ ClientNonce(i) \in Nonces /\ ClientNonce(i).of[2] = i
           /\ ServerNonce(i) \in Nonces /\ ServerNonce(i).of[2] = i
<1>1. ClientNonce(i) \in Nonces /\ ServerNonce(i) \in Nonces
  BY DEF Nonces
<1>2. ClientNonce(i).of[2] = i /\ ServerNonce(i).of[2] = i
  BY DEF ClientNonce, ServerNonce, generate_nonce
<1> QED
  BY <1>1, <1>2

LEMMA DeviceTypes ==
    TypeOK => \A i \in DOMAIN request :
        /\ i \in Calls
        /\ request[i] \in Request
        /\ request[i].client \in Clients /\ request[i].server \in Servers
        /\ request[i].client # request[i].server
<1> SUFFICES ASSUME TypeOK, NEW i \in DOMAIN request
             PROVE  /\ i \in Calls
                    /\ request[i] \in Request
                    /\ request[i].client \in Clients /\ request[i].server \in Servers
                    /\ request[i].client # request[i].server
  OBVIOUS
<1>1. i \in Calls /\ request \in Seq(Request)
  BY DEF TypeOK
<1>2. request[i] \in Request
  BY <1>1
<1>3. request[i].client \in Clients /\ request[i].server \in Servers
  BY <1>2 DEF Request
<1> QED
  BY <1>1, <1>2, <1>3, HttpAssumption

\* The map part of the invariant, and what the two maps of a device are.
LEMMA MapsOf ==
    (KeyInv /\ MapsInStep) <=>
        \A d \in Clients \cup Cores :
            /\ Parallel(received[d], generated[d]) /\ Once(received[d])
            /\ \A n \in DOMAIN received[d] :
                  received[d][n].nonce.of[2] = generated[d][n].nonce.of[2]
BY DEF KeyInv, MapsInStep, Parallel, Once

LEMMA MapsOfNext ==
    (KeyInv' /\ MapsInStep') <=>
        \A d \in Clients \cup Cores :
            /\ Parallel(received'[d], generated'[d]) /\ Once(received'[d])
            /\ \A n \in DOMAIN received'[d] :
                  received'[d][n].nonce.of[2] = generated'[d][n].nonce.of[2]
BY DEF KeyInv, MapsInStep, Parallel, Once

\* What the maps of a device are once it has stored the nonces of an exchange.
HasStored(d, key, mine, theirs) ==
    /\ received' \in [Clients \cup Cores -> Seq(Entry)]
    /\ generated' \in [Clients \cup Cores -> Seq(Entry)]
    /\ KeyInv' /\ MapsInStep'
    /\ \A e \in (Clients \cup Cores) \ {d} :
          received'[e] = received[e] /\ generated'[e] = generated[e]
    /\ \A n \in DOMAIN received'[d] :
          received'[d][n].key = key =>
             received'[d][n].nonce = theirs /\ generated'[d][n].nonce = mine
    /\ \A n \in DOMAIN received'[d] :
          received'[d][n].key # key =>
             \E m \in DOMAIN received[d] :
                received'[d][n] = received[d][m] /\ generated'[d][n] = generated[d][m]

LEMMA StoresIs ==
    ASSUME TypeOK, KeyInv, MapsInStep,
           NEW d \in Clients \cup Cores, NEW key \in Ids,
           NEW mine \in Nonces, NEW theirs \in Nonces, mine.of[2] = theirs.of[2],
           Stores(d, key, mine, theirs)
    PROVE  HasStored(d, key, mine, theirs)
<1> DEFINE map == received[d]
           other == generated[d]
           new == Put(map, key, theirs)
           beside == Put(other, key, mine)
<1>1. /\ received \in [Clients \cup Cores -> Seq(Entry)]
      /\ generated \in [Clients \cup Cores -> Seq(Entry)]
  BY DEF TypeOK
<1>2. \A e \in Clients \cup Cores :
         /\ Parallel(received[e], generated[e]) /\ Once(received[e])
         /\ \A n \in DOMAIN received[e] :
               received[e][n].nonce.of[2] = generated[e][n].nonce.of[2]
  BY MapsOf
<1>3. map \in Seq(Entry) /\ other \in Seq(Entry)
  BY <1>1
<1>4. Parallel(map, other) /\ Once(map)
  BY <1>2
<1>5. /\ new \in Seq(Entry) /\ beside \in Seq(Entry)
      /\ Parallel(new, beside) /\ Once(new)
      /\ 1 \in DOMAIN new
      /\ new[1] = [key |-> key, nonce |-> theirs]
      /\ beside[1] = [key |-> key, nonce |-> mine]
      /\ \A n \in DOMAIN new \ {1} : \E m \in DOMAIN map :
            map[m].key # key /\ new[n] = map[m] /\ beside[n] = other[m]
  <2> HIDE DEF map, other
  <2> QED
    BY <1>3, <1>4, PutBoth
<1>6. received' = [received EXCEPT ![d] = new] /\ generated' = [generated EXCEPT ![d] = beside]
  BY DEF Stores
<1> HIDE DEF new, beside
<1>7. /\ received'[d] = new /\ generated'[d] = beside
      /\ \A e \in (Clients \cup Cores) \ {d} :
            received'[e] = received[e] /\ generated'[e] = generated[e]
  BY <1>1, <1>6
<1>8. /\ received' \in [Clients \cup Cores -> Seq(Entry)]
      /\ generated' \in [Clients \cup Cores -> Seq(Entry)]
  BY <1>1, <1>5, <1>6
<1>9. \A n \in DOMAIN new :
         \/ new[n].key = key /\ new[n].nonce = theirs /\ beside[n].nonce = mine
         \/ \E m \in DOMAIN map :
               map[m].key # key /\ new[n] = map[m] /\ beside[n] = other[m]
  <2> SUFFICES ASSUME NEW n \in DOMAIN new
               PROVE  \/ /\ new[n].key = key /\ new[n].nonce = theirs
                         /\ beside[n].nonce = mine
                      \/ \E m \in DOMAIN map :
                            map[m].key # key /\ new[n] = map[m] /\ beside[n] = other[m]
    OBVIOUS
  <2>1. CASE n = 1
    <3>1. new[1].key = key /\ new[1].nonce = theirs /\ beside[1].nonce = mine
      BY <1>5
    <3> QED
      BY <2>1, <3>1
  <2>2. CASE n # 1
    BY <2>2, <1>5
  <2> QED
    BY <2>1, <2>2
<1>10. \A n \in DOMAIN new : new[n].nonce.of[2] = beside[n].nonce.of[2]
  <2> SUFFICES ASSUME NEW n \in DOMAIN new
               PROVE  new[n].nonce.of[2] = beside[n].nonce.of[2]
    OBVIOUS
  <2>1. CASE new[n].nonce = theirs /\ beside[n].nonce = mine
    BY <2>1
  <2>2. ASSUME NEW m \in DOMAIN map, new[n] = map[m], beside[n] = other[m]
        PROVE  new[n].nonce.of[2] = beside[n].nonce.of[2]
    BY <2>2, <1>2
  <2> QED
    BY <2>1, <2>2, <1>9
<1>11. \A e \in Clients \cup Cores :
          /\ Parallel(received'[e], generated'[e]) /\ Once(received'[e])
          /\ \A n \in DOMAIN received'[e] :
                received'[e][n].nonce.of[2] = generated'[e][n].nonce.of[2]
  <2> SUFFICES ASSUME NEW e \in Clients \cup Cores
               PROVE  /\ Parallel(received'[e], generated'[e]) /\ Once(received'[e])
                      /\ \A n \in DOMAIN received'[e] :
                            received'[e][n].nonce.of[2] = generated'[e][n].nonce.of[2]
    OBVIOUS
  <2>1. CASE e = d
    BY <2>1, <1>5, <1>7, <1>10
  <2>2. CASE e # d
    BY <2>2, <1>2, <1>7
  <2> QED
    BY <2>1, <2>2
<1>12. KeyInv' /\ MapsInStep'
  BY <1>11, MapsOfNext
<1>13. \A n \in DOMAIN new : new[n].key = key => new[n].nonce = theirs /\ beside[n].nonce = mine
  BY <1>9
<1>14. \A n \in DOMAIN new : new[n].key # key =>
          \E m \in DOMAIN map : new[n] = map[m] /\ beside[n] = other[m]
  BY <1>9
<1> QED
  BY <1>7, <1>8, <1>12, <1>13, <1>14 DEF HasStored

-----------------------------------------------------------------------------
(* Answers.                                                                *)

Replies == [status : Statuses, body : Kinds]

LEMMA CoreAnswerIs ==
    ASSUME NEW r \in Request
    PROVE  /\ CoreAnswer(r) \in Replies
           /\ r.op \in {"prepare-upload", "upload"} => CoreAnswer(r).status >= 400
           /\ CoreAnswer(r).body = "NonceResponse" => r.op = "nonce" /\ r.version = "v3"
<1>1. CASE r.version = "v2" /\ r.op \in {"register", "prepare-upload", "upload", "cancel"}
  <2>1. CoreAnswer(r) = IF ~config.legacy THEN Answers(404, "error")
                        ELSE IF Payload(r) = "RegisterDto" THEN Answers(200, "RegisterResponseDto")
                        ELSE Answers(400, "error")
    BY <1>1 DEF CoreAnswer
  <2>2. Payload(r) # "RegisterDto"
    BY <1>1 DEF Payload
  <2>3. CoreAnswer(r) = Answers(404, "error") \/ CoreAnswer(r) = Answers(400, "error")
    BY <2>1, <2>2
  <2> QED
    BY <2>3, <1>1 DEF Answers, Replies, Statuses, Kinds
<1>2. CASE r.version = "v3" /\ r.op = "nonce"
  <2>1. CoreAnswer(r) = Answers(200, "NonceResponse")
    BY <1>2 DEF CoreAnswer
  <2> QED
    BY <2>1, <1>2 DEF Answers, Replies, Statuses, Kinds
<1>3. CASE r.version = "v3" /\ r.op = "register"
  <2>1. CoreAnswer(r) = Answers(200, "RegisterResponseDto")
    BY <1>3 DEF CoreAnswer
  <2> QED
    BY <2>1, <1>3 DEF Answers, Replies, Statuses, Kinds
<1>4. CASE /\ ~(r.version = "v2" /\ r.op \in {"register", "prepare-upload", "upload", "cancel"})
           /\ ~(r.version = "v3" /\ r.op = "nonce")
           /\ ~(r.version = "v3" /\ r.op = "register")
  <2>1. CoreAnswer(r) = Answers(404, "nothing")
    BY <1>4 DEF CoreAnswer
  <2> QED
    BY <2>1 DEF Answers, Replies, Statuses, Kinds
<1> QED
  BY <1>1, <1>2, <1>3, <1>4

LEMMA AppAnswersAre ==
    ASSUME NEW r \in Request, NEW early \in BOOLEAN, NEW a \in AppAnswers(r, early)
    PROVE  /\ a \in Replies
           /\ a.body # "NonceResponse"
           /\ r.op \in {"prepare-upload", "upload"} =>
                 a.status >= 400 \/ a.status \in {200, 204}
<1>1. CASE r.version = "v3"
  <2>1. a = Answers(404, "nothing")
    BY <1>1 DEF AppAnswers
  <2> QED
    BY <2>1 DEF Answers, Replies, Statuses, Kinds
<1>2. CASE r.version # "v3"
  <2>1. \/ a \in {Answers(200, "RegisterResponseDto"), Answers(200, "nothing"),
                  Answers(200, "PrepareUploadResponseDto"), Answers(204, "nothing"),
                  Answers(403, "error"), Answers(500, "error")}
        \/ /\ r.op \notin {"prepare-upload", "upload"}
           /\ a \in {Answers(200, "nothing"), Answers(409, "error"), Answers(403, "error"),
                     Answers(200, "InfoResponseDtoV2"),
                     Answers(200, "PrepareDownloadResponseDtoV2")}
    BY <1>2 DEF AppAnswers
  <2> QED
    BY <2>1 DEF Answers, Replies, Statuses, Kinds
<1> QED
  BY <1>1, <1>2

\* What a call makes of its answer.
LEMMA OutcomeIs ==
    ASSUME NEW r \in Request, NEW a \in Replies
    PROVE  /\ Outcome(r, a) \in {"Ok", "Reqwest", "StatusCode", "Other"}
           /\ Outcome(r, a) = "Ok" =>
                 /\ Verified(r)
                 /\ r.op = "nonce" => a.body = "NonceResponse"
                 /\ r.op \in {"prepare-upload", "upload"} => ~(a.status >= 400)
<1>1. Outcome(r, a) \in {"Ok", "Reqwest", "StatusCode", "Other"}
  BY DEF Outcome
<1>2. ASSUME Outcome(r, a) = "Ok"
      PROVE  Verified(r) /\ Accepts(r, a.status) /\
             ((r.op = "prepare-upload" /\ a.status = 204) \/ Expects(r) \in {"any", a.body})
  BY <1>2 DEF Outcome
<1>3. r.op = "nonce" => Expects(r) = "NonceResponse"
  BY DEF Expects
<1>4. a.status \in Int
  BY DEF Replies, Statuses
<1>5. r.op \in {"prepare-upload", "upload"} /\ Accepts(r, a.status) => ~(a.status >= 400)
  <2>1. r.op = "prepare-upload" => (Accepts(r, a.status) <=> a.status < 400)
    BY DEF Accepts
  <2>2. r.op = "upload" => (Accepts(r, a.status) <=> a.status = 200)
    BY DEF Accepts
  <2> QED
    BY <2>1, <2>2, <1>4
<1> QED
  BY <1>1, <1>2, <1>3, <1>5

LEMMA VerifiedIs ==
    ASSUME NEW r \in Request, Verified(r), r.op \in {"prepare-upload", "upload"}, config.tls
    PROVE  r.expect \in {"nobody", r.server}
<1>1. r.expect = "nobody"
      \/ verify_cert(certificate(generate_key(r.server)), generate_key(r.expect))
  BY DEF Verified
<1>2. ASSUME verify_cert(certificate(generate_key(r.server)), generate_key(r.expect))
      PROVE  r.expect = r.server
  <2>1. \/ generate_key(r.expect) = NoKey
        \/ generate_key(r.server) = generate_key(r.expect)
    BY <1>2 DEF verify_cert, certificate
  <2>2. generate_key(r.expect).kind = "ed25519" /\ NoKey.kind = "none"
    BY DEF generate_key, NoKey
  <2>3. generate_key(r.server).id = r.server /\ generate_key(r.expect).id = r.expect
    BY DEF generate_key
  <2> QED
    BY <2>1, <2>2, <2>3
<1> QED
  BY <1>1, <1>2

-----------------------------------------------------------------------------
(* The types.                                                              *)

\* A served call has an answer, and a nonce exchange with a server of the crate
\* is stored there; everything else leaves the maps alone.
LEMMA ServeIs ==
    ASSUME TypeOK, NEW i \in DOMAIN request, Serve(i)
    PROVE  LET r == request[i]
           IN  /\ phase[i] = "sent"
               /\ phase' = [phase EXCEPT ![i] = "answered"]
               /\ answer'[i] \in Replies
               /\ answer' = [answer EXCEPT ![i] = answer'[i]]
               /\ r.op \in {"prepare-upload", "upload"} =>
                     \/ answer'[i].status >= 400
                     \/ /\ answer'[i].status \in {200, 204}
                        /\ r.op = "upload" => BodyEnds(i)
               /\ answer'[i].body = "NonceResponse" =>
                     r.op = "nonce" /\ r.version = "v3" /\ r.server \in Cores
               /\ \/ /\ r.op = "nonce" /\ r.version = "v3" /\ r.server \in Cores
                     /\ Stores(r.server, Identifier(r.client), ServerNonce(i), ClientNonce(i))
                     /\ agreed' = {p \in agreed : ~SameParties(i, p[1], p[2])}
                  \/ /\ ~(r.op = "nonce" /\ r.version = "v3" /\ r.server \in Cores)
                     /\ UNCHANGED <<received, generated, agreed>>
<1> DEFINE r == request[i]
           ended == r.op = "upload" => BodyEnds(i)
           kept == r.op = "nonce" /\ r.version = "v3" /\ r.server \in Cores
           stored == \/ /\ kept
                        /\ Stores(r.server, Identifier(r.client), ServerNonce(i), ClientNonce(i))
                        /\ agreed' = {p \in agreed : ~SameParties(i, p[1], p[2])}
                     \/ ~kept /\ UNCHANGED <<received, generated, agreed>>
           good == r.op \in {"prepare-upload", "upload"} =>
                      \/ answer'[i].status >= 400
                      \/ /\ answer'[i].status \in {200, 204}
                         /\ r.op = "upload" => BodyEnds(i)
<1>1. r \in Request /\ i \in Calls
  BY DeviceTypes
<1>2. answer \in [Calls -> Replies] /\ phase \in [Calls -> {"new", "sent", "answered", "done"}]
  BY DEF TypeOK, Replies
<1>3. phase[i] = "sent" /\ phase' = [phase EXCEPT ![i] = "answered"]
  BY DEF Serve
<1>4. CASE r.server \in Cores
  <2>1. answer' = [answer EXCEPT ![i] = CoreAnswer(r)]
    BY <1>4 DEF Serve
  <2>2. IF r.op = "nonce" /\ r.version = "v3"
        THEN /\ Stores(r.server, Identifier(r.client), ServerNonce(i), ClientNonce(i))
             /\ agreed' = {p \in agreed : ~SameParties(i, p[1], p[2])}
        ELSE UNCHANGED <<received, generated, agreed>>
    BY <1>4 DEF Serve
  <2>3. answer'[i] = CoreAnswer(r)
    BY <2>1, <1>1, <1>2
  <2>4. /\ CoreAnswer(r) \in Replies
        /\ r.op \in {"prepare-upload", "upload"} => CoreAnswer(r).status >= 400
        /\ CoreAnswer(r).body = "NonceResponse" => r.op = "nonce" /\ r.version = "v3"
    BY <1>1, CoreAnswerIs
  <2>5. answer' = [answer EXCEPT ![i] = answer'[i]]
    BY <2>1, <2>3
  <2>6. answer'[i].body = "NonceResponse" => kept
    BY <2>3, <2>4, <1>4
  <2>7. stored
    BY <2>2, <1>4
  <2>8. good
    BY <2>3, <2>4
  <2> QED
    BY <2>3, <2>4, <2>5, <2>6, <2>7, <2>8, <1>3
<1>5. CASE r.server \notin Cores
  <2>1. PICK a \in AppAnswers(r, ~ended) : answer' = [answer EXCEPT ![i] = a]
    BY <1>5 DEF Serve
  <2>2. r.op = "upload" /\ ~ended => answer'[i].status >= 400
    BY <1>5 DEF Serve
  <2>3. UNCHANGED <<received, generated, agreed>>
    BY <1>5 DEF Serve
  <2>4. answer'[i] = a
    BY <2>1, <1>1, <1>2
  <2>5. (~ended) \in BOOLEAN
    OBVIOUS
  <2>6. /\ a \in Replies
        /\ a.body # "NonceResponse"
        /\ r.op \in {"prepare-upload", "upload"} => a.status >= 400 \/ a.status \in {200, 204}
    <3> HIDE DEF r, ended
    <3> QED
      BY <1>1, <2>1, <2>5, AppAnswersAre
  <2>7. answer' = [answer EXCEPT ![i] = answer'[i]]
    BY <2>1, <2>4
  <2>8. answer'[i].body = "NonceResponse" => kept
    BY <2>4, <2>6
  <2>9. stored
    BY <2>3, <1>5
  <2>10. good
    BY <2>2, <2>4, <2>6
  <2> QED
    BY <2>4, <2>6, <2>7, <2>8, <2>9, <2>10, <1>3
<1> QED
  BY <1>4, <1>5

\* A call that has its answer returns; a good answer to a nonce exchange came from
\* a server of the crate, and is stored.
LEMMA ReceiveIs ==
    ASSUME TypeOK, CallInv, NEW i \in DOMAIN request, Receive(i)
    PROVE  LET r == request[i]
           IN  /\ phase[i] = "answered"
               /\ phase' = [phase EXCEPT ![i] = "done"]
               /\ result' = [result EXCEPT ![i] = Outcome(r, answer[i])]
               /\ \/ /\ r.op = "nonce" /\ r.version = "v3" /\ r.server \in Cores
                     /\ answer[i].body = "NonceResponse"
                     /\ Stores(r.client, Identifier(r.server), ClientNonce(i), ServerNonce(i))
                     /\ agreed' = IF i \in clean THEN agreed \cup {<<r.client, r.server>>}
                                                 ELSE agreed
                  \/ UNCHANGED <<received, generated, agreed>>
<1> DEFINE r == request[i]
           out == Outcome(r, answer[i])
<1>1. r \in Request /\ i \in Calls /\ answer[i] \in Replies
  BY DeviceTypes DEF TypeOK, Replies
<1>2. /\ phase[i] = "answered"
      /\ phase' = [phase EXCEPT ![i] = "done"]
      /\ result' = [result EXCEPT ![i] = out]
  BY DEF Receive, Return
<1>3. IF r.op = "nonce" /\ out = "Ok"
      THEN /\ Stores(r.client, Identifier(r.server), ClientNonce(i), ServerNonce(i))
           /\ agreed' = IF i \in clean THEN agreed \cup {<<r.client, r.server>>} ELSE agreed
      ELSE UNCHANGED <<received, generated, agreed>>
  BY DEF Receive
<1>4. r.op = "nonce" /\ out = "Ok" => answer[i].body = "NonceResponse"
  BY <1>1, OutcomeIs
<1>5. answer[i].body = "NonceResponse" =>
         r.op = "nonce" /\ r.version = "v3" /\ r.server \in Cores
  BY <1>2 DEF CallInv
<1> QED
  BY <1>2, <1>3, <1>4, <1>5

LEMMA TypeInit == Init => TypeOK
<1> SUFFICES ASSUME Init
             PROVE  TypeOK
  OBVIOUS
<1>1. PICK u \in Setups : config = u.config /\ request = u.plan
  BY DEF Init
<1>2. config \in Config /\ request \in Seq(Request)
  BY <1>1, HttpAssumption
<1>3. DOMAIN request \subseteq Calls
  BY <1>1 DEF Calls
<1>4. /\ task \in [Cores -> {"select", "ended"}]
      /\ stopping \in [Cores -> BOOLEAN]
      /\ listener \in [Cores -> [Families -> {"unbound", "open", "failed", "closed"}]]
  BY DEF Init
<1>5. /\ conns \subseteq Clients \X Servers
      /\ received \in [Clients \cup Cores -> Seq(Entry)]
      /\ generated \in [Clients \cup Cores -> Seq(Entry)]
      /\ clean \subseteq DOMAIN request
      /\ agreed \subseteq Clients \X Cores
  BY DEF Init
<1>6. /\ phase \in [Calls -> {"new", "sent", "answered", "done"}]
      /\ answer \in [Calls -> [status : Statuses, body : Kinds]]
      /\ result \in [Calls -> {"none", "Ok", "Reqwest", "StatusCode", "Other"}]
  BY DEF Init, Nobody, Statuses, Kinds
<1>7. body \in [Calls -> [added : Nat, taken : Nat, adding : BOOLEAN, closed : BOOLEAN]]
  BY DEF Init
<1> QED
  BY <1>2, <1>3, <1>4, <1>5, <1>6, <1>7 DEF TypeOK

\* Everything but the server's task, its listeners and the streams.
Exchanged == <<config, request, conns, nonceVars, phase, answer, result>>

LEMMA ServerType ==
    ASSUME TypeOK, NEW s \in Cores, Server(s)
    PROVE  TypeOK' /\ UNCHANGED <<Exchanged, body>>
<1>1. UNCHANGED <<Exchanged, body>>
  BY DEF Server, Bind, AcceptFails, StopServer, Stopped, Exchanged
<1>2. ASSUME EndTask(s)
      PROVE  /\ task' \in [Cores -> {"select", "ended"}]
             /\ listener' \in [Cores -> [Families -> {"unbound", "open", "failed", "closed"}]]
  BY <1>2 DEF EndTask, TypeOK
<1>3. ASSUME NEW f \in Families, NEW v \in {"open", "failed"}, UNCHANGED task,
             listener' = [listener EXCEPT ![s][f] = v]
      PROVE  /\ task' \in [Cores -> {"select", "ended"}]
             /\ listener' \in [Cores -> [Families -> {"unbound", "open", "failed", "closed"}]]
  BY <1>3 DEF TypeOK
<1>4. ASSUME UNCHANGED <<task, listener>>
      PROVE  /\ task' \in [Cores -> {"select", "ended"}]
             /\ listener' \in [Cores -> [Families -> {"unbound", "open", "failed", "closed"}]]
  BY <1>4 DEF TypeOK
<1>5. ASSUME NEW f \in Families, Fails(s, f)
      PROVE  /\ task' \in [Cores -> {"select", "ended"}]
             /\ listener' \in [Cores -> [Families -> {"unbound", "open", "failed", "closed"}]]
  BY <1>2, <1>3, <1>5 DEF Fails
<1>6. /\ task' \in [Cores -> {"select", "ended"}]
      /\ listener' \in [Cores -> [Families -> {"unbound", "open", "failed", "closed"}]]
  <2>1. ASSUME NEW f \in Families, Bind(s, f)
        PROVE  Fails(s, f) \/ (listener' = [listener EXCEPT ![s][f] = "open"] /\ UNCHANGED task)
    BY <2>1 DEF Bind
  <2>2. ASSUME NEW f \in Families, AcceptFails(s, f)
        PROVE  Fails(s, f)
    BY <2>2 DEF AcceptFails
  <2>3. StopServer(s) => UNCHANGED <<task, listener>>
    BY DEF StopServer
  <2>4. Stopped(s) => EndTask(s)
    BY DEF Stopped
  <2> QED
    BY <1>2, <1>3, <1>4, <1>5, <2>1, <2>2, <2>3, <2>4 DEF Server
<1>7. stopping' \in [Cores -> BOOLEAN]
  BY DEF TypeOK, Server, Bind, AcceptFails, StopServer, Stopped
<1> QED
  BY <1>1, <1>6, <1>7 DEF TypeOK, Exchanged, nonceVars

\* A stream's own step: what becomes of its body.
LEMMA StreamIs ==
    ASSUME TypeOK, NEW i \in DOMAIN request, Stream(i)
    PROVE  /\ UNCHANGED <<Exchanged, serverVars>>
           /\ body' \in [Calls -> [added : Nat, taken : Nat, adding : BOOLEAN,
                                   closed : BOOLEAN]]
           /\ \A j \in Calls \ {i} : body'[j] = body[j]
           /\ (body[i].closed => ~body[i].adding) => (body'[i].closed => ~body'[i].adding)
           /\ BodyEnds(i) /\ ~body[i].adding => body'[i] = body[i]
<1>1. i \in Calls /\ body \in [Calls -> [added : Nat, taken : Nat, adding : BOOLEAN,
                                         closed : BOOLEAN]]
  BY DEF TypeOK
<1>2. UNCHANGED <<Exchanged, serverVars>>
  BY DEF Stream, Add, Added, Take, CloseSink, Exchanged
<1>3. CASE Add(i)
  <2>1. ~body[i].adding /\ ~body[i].closed /\ body' = [body EXCEPT ![i].adding = TRUE]
    BY <1>3 DEF Add
  <2> QED
    BY <2>1, <1>1, <1>2 DEF BodyEnds
<1>4. CASE Added(i)
  <2>1. /\ body[i].adding
        /\ \/ body' = [body EXCEPT ![i].added = @ + 1, ![i].adding = FALSE]
           \/ body' = [body EXCEPT ![i].adding = FALSE]
    BY <1>4 DEF Added
  <2> DEFINE b == body[i]
             more == [added |-> b.added + 1, taken |-> b.taken, adding |-> FALSE,
                      closed |-> b.closed]
             same == [added |-> b.added, taken |-> b.taken, adding |-> FALSE,
                      closed |-> b.closed]
  <2>2. body' = [body EXCEPT ![i] = more] \/ body' = [body EXCEPT ![i] = same]
    BY <2>1, <1>1
  <2>3. /\ more \in [added : Nat, taken : Nat, adding : BOOLEAN, closed : BOOLEAN]
        /\ same \in [added : Nat, taken : Nat, adding : BOOLEAN, closed : BOOLEAN]
        /\ ~more.adding /\ ~same.adding
    BY <1>1
  <2> HIDE DEF more, same
  <2>4. /\ body' \in [Calls -> [added : Nat, taken : Nat, adding : BOOLEAN,
                               closed : BOOLEAN]]
        /\ \A j \in Calls \ {i} : body'[j] = body[j]
        /\ ~body'[i].adding
    BY <2>2, <2>3, <1>1
  <2> QED
    BY <2>1, <2>4, <1>2
<1>5. CASE Take(i)
  <2>1. body[i].taken < body[i].added /\ body' = [body EXCEPT ![i].taken = @ + 1]
    BY <1>5 DEF Take
  <2> QED
    BY <2>1, <1>1, <1>2 DEF BodyEnds
<1>6. CASE CloseSink(i)
  <2>1. ~body[i].adding /\ ~body[i].closed /\ body' = [body EXCEPT ![i].closed = TRUE]
    BY <1>6 DEF CloseSink
  <2> QED
    BY <2>1, <1>1, <1>2 DEF BodyEnds
<1> QED
  BY <1>3, <1>4, <1>5, <1>6 DEF Stream

-----------------------------------------------------------------------------
(* The steps.                                                              *)

LEMMA InvInit == Init => IndInv
<1> SUFFICES ASSUME Init
             PROVE  IndInv
  OBVIOUS
<1>1. TypeOK
  BY TypeInit
<1>2. /\ \A i \in Calls : /\ phase[i] = "new" /\ result[i] = "none"
                          /\ ~body[i].closed
      /\ clean = {} /\ agreed = {}
      /\ \A d \in Clients \cup Cores : received[d] = <<>> /\ generated[d] = <<>>
  BY DEF Init
<1>3. CallInv
  BY <1>1, <1>2 DEF CallInv, TypeOK
<1>4. KeyInv /\ MapsInStep
  BY <1>2 DEF KeyInv, MapsInStep
<1>5. CleanInv /\ AgreedInv /\ Agreement
  BY <1>2 DEF CleanInv, AgreedInv, Agreement
<1>6. OkMeansDone
  BY <1>1, <1>2 DEF OkMeansDone, TypeOK
<1> QED
  BY <1>1, <1>3, <1>4, <1>5, <1>6 DEF IndInv

\* A step that is none of a call's: of a server's task, of a stream, or none.
LEMMA OtherStep ==
    ASSUME IndInv, TypeOK', UNCHANGED Exchanged,
           \A j \in DOMAIN request :
              /\ body'[j].closed => ~body'[j].adding
              /\ BodyEnds(j) /\ ~body[j].adding => body'[j] = body[j]
    PROVE  IndInv'
<1> USE DEF IndInv, Exchanged, nonceVars
<1>1. CallInv'
  BY DEF CallInv, BodyEnds
<1>2. KeyInv' /\ MapsInStep'
  BY DEF KeyInv, MapsInStep
<1>3. CleanInv'
  BY DEF CleanInv, InFlight, SameParties, SameParty, Identifier
<1>4. AgreedInv' /\ Agreement'
  BY DEF AgreedInv, Agreement, SameParties, SameParty, Identifier
<1>5. OkMeansDone'
  BY DEF OkMeansDone, CallInv, BodyEnds
<1> QED
  BY <1>1, <1>2, <1>3, <1>4, <1>5

LEMMA ServerStep ==
    ASSUME IndInv, NEW s \in Cores, Server(s)
    PROVE  IndInv'
<1>1. TypeOK' /\ UNCHANGED <<Exchanged, body>>
  BY ServerType DEF IndInv
<1> QED
  BY <1>1, OtherStep DEF IndInv, CallInv

LEMMA StreamStep ==
    ASSUME IndInv, NEW i \in DOMAIN request, Stream(i)
    PROVE  IndInv'
<1>1. /\ UNCHANGED <<Exchanged, serverVars>>
      /\ body' \in [Calls -> [added : Nat, taken : Nat, adding : BOOLEAN, closed : BOOLEAN]]
      /\ \A j \in Calls \ {i} : body'[j] = body[j]
      /\ (body[i].closed => ~body[i].adding) => (body'[i].closed => ~body'[i].adding)
      /\ BodyEnds(i) /\ ~body[i].adding => body'[i] = body[i]
  BY StreamIs DEF IndInv
<1>2. TypeOK'
  BY <1>1 DEF IndInv, TypeOK, Exchanged, nonceVars, serverVars
<1>3. \A j \in DOMAIN request :
         /\ body'[j].closed => ~body'[j].adding
         /\ BodyEnds(j) /\ ~body[j].adding => body'[j] = body[j]
  BY <1>1 DEF IndInv, CallInv, TypeOK
<1> QED
  BY <1>1, <1>2, <1>3, OtherStep

\* What two calls are to each other does not change.
LEMMA PartiesNext ==
    ASSUME UNCHANGED <<config, request>>
    PROVE  /\ \A j, c, s : SameParties(j, c, s)' <=> SameParties(j, c, s)
           /\ \A d : Identifier(d)' = Identifier(d)
BY DEF SameParties, SameParty, Identifier

\* A call of a nonce exchange is between its own two parties.
LEMMA PartiesOf ==
    /\ \A i : SameParties(i, request[i].client, request[i].server) <=>
                 request[i].op = "nonce" /\ request[i].server \in Cores
    /\ \A i, c, s : SameParties(i, c, s) <=>
                 /\ request[i].op = "nonce" /\ request[i].server \in Cores
                 /\ Identifier(request[i].client) = Identifier(c)
                 /\ Identifier(request[i].server) = Identifier(s)
BY PartyIs DEF SameParties, SameParty

LEMMA BreakStep ==
    ASSUME IndInv, NEW i \in DOMAIN request, Break(i)
    PROVE  IndInv'
<1>1. /\ phase' = [phase EXCEPT ![i] = "done"]
      /\ result' = [result EXCEPT ![i] = "Reqwest"]
      /\ conns' \subseteq conns
      /\ UNCHANGED <<config, request, serverVars, nonceVars, answer, body>>
  BY DEF Break, Return
<1>2. i \in Calls
  BY DeviceTypes DEF IndInv
<1>3. TypeOK'
  BY <1>1, <1>2 DEF IndInv, TypeOK, serverVars, nonceVars
<1>4. /\ phase'[i] = "done" /\ result'[i] = "Reqwest"
      /\ \A j \in DOMAIN request \ {i} : phase'[j] = phase[j] /\ result'[j] = result[j]
  BY <1>1, <1>2 DEF IndInv, TypeOK
<1>5. \A j \in DOMAIN request : InFlight(j)' => InFlight(j) /\ phase'[j] = phase[j]
  BY <1>4 DEF InFlight
<1> USE DEF nonceVars
<1>6. CallInv'
  BY <1>1, <1>4 DEF IndInv, CallInv, BodyEnds
<1>7. KeyInv' /\ MapsInStep'
  BY <1>1 DEF IndInv, KeyInv, MapsInStep
<1>8. CleanInv'
  <2>1. clean \subseteq DOMAIN request
    BY DEF IndInv, TypeOK
  <2> QED
    BY <1>1, <1>4, <1>5, <2>1, PartiesNext DEF IndInv, CleanInv, ClientNonce, ServerNonce
<1>9. AgreedInv'
  BY <1>1, <1>4, PartiesNext DEF IndInv, AgreedInv
<1>10. Agreement'
  BY <1>1, PartiesNext DEF IndInv, Agreement
<1>11. OkMeansDone'
  BY <1>1, <1>4 DEF IndInv, OkMeansDone
<1> QED
  BY <1>3, <1>6, <1>7, <1>8, <1>9, <1>10, <1>11 DEF IndInv

\* A call that reaches its server is under way, and clean if nothing overlaps it.
LEMMA CallStep ==
    ASSUME IndInv, NEW i \in DOMAIN request, Call(i)
    PROVE  IndInv'
<1> DEFINE r == request[i]
           reached == /\ phase' = [phase EXCEPT ![i] = "sent"]
                      /\ conns' = conns \cup {<<r.client, r.server>>}
                      /\ clean' = (clean \ Overlaps(i))
                                  \cup (IF Overlaps(i) = {} THEN {i} ELSE {})
                      /\ UNCHANGED result
           failed == /\ phase' = [phase EXCEPT ![i] = "done"]
                     /\ result' = [result EXCEPT ![i] = "Reqwest"]
                     /\ UNCHANGED <<conns, clean>>
<1>1. /\ phase[i] = "new"
      /\ reached \/ failed
      /\ UNCHANGED <<config, request, serverVars, received, generated, agreed, answer, body>>
  BY DEF Call, Return
<1>2. i \in Calls /\ r.client \in Clients /\ r.server \in Servers
  BY DeviceTypes DEF IndInv
<1>3. i \notin clean
  BY <1>1 DEF IndInv, CleanInv
<1>4. TypeOK'
  <2>1. conns' \subseteq Clients \X Servers
    BY <1>1, <1>2 DEF IndInv, TypeOK
  <2>2. clean' \subseteq DOMAIN request'
    BY <1>1 DEF IndInv, TypeOK
  <2>3. /\ phase' \in [Calls -> {"new", "sent", "answered", "done"}]
        /\ result' \in [Calls -> {"none", "Ok", "Reqwest", "StatusCode", "Other"}]
    BY <1>1, <1>2 DEF IndInv, TypeOK
  <2> QED
    BY <1>1, <2>1, <2>2, <2>3 DEF IndInv, TypeOK, serverVars
<1>5. /\ phase'[i] \in {"sent", "done"} /\ result'[i] # "Ok"
      /\ phase'[i] = "sent" => result'[i] = "none"
      /\ \A j \in DOMAIN request \ {i} : phase'[j] = phase[j] /\ result'[j] = result[j]
  BY <1>1, <1>2 DEF IndInv, TypeOK, CallInv
<1>6. CallInv'
  BY <1>1, <1>5 DEF IndInv, CallInv, BodyEnds
<1>7. KeyInv' /\ MapsInStep'
  BY <1>1 DEF IndInv, KeyInv, MapsInStep
<1>8. CleanInv'
  <2>1. clean \subseteq DOMAIN request
    BY DEF IndInv, TypeOK
  <2>2. CASE failed
    <3>1. \A j \in DOMAIN request : InFlight(j)' => InFlight(j) /\ j # i
      BY <2>2, <1>2, <1>5 DEF InFlight, IndInv, TypeOK
    <3>2. \A j \in clean : phase'[j] = phase[j]
      BY <1>3, <1>5, <2>1
    <3>3. clean' = clean
      BY <2>2
    <3> HIDE DEF reached, failed
    <3> QED
      BY <1>1, <2>1, <3>1, <3>2, <3>3, PartiesNext
      DEF IndInv, CleanInv, ClientNonce, ServerNonce
  <2>3. CASE reached
    <3>1. \A j \in DOMAIN request \ {i} : InFlight(j)' => InFlight(j)
      BY <1>5 DEF InFlight
    <3>2. \A k \in clean' : k = i \/ k \in clean \ Overlaps(i)
      BY <2>3
    <3>3. i \in clean' => Overlaps(i) = {}
      BY <2>3, <1>3
    <3>4. \A k, j \in DOMAIN request :
             /\ SameParties(j, request[k].client, request[k].server)
             /\ SameParties(k, request[k].client, request[k].server)
             => SameParties(k, request[j].client, request[j].server)
      BY PartiesOf
    <3>5. \A j \in DOMAIN request \ {i} :
             /\ InFlight(j)
             /\ request[j].op = "nonce"
             /\ SameParties(i, request[j].client, request[j].server)
             => j \in Overlaps(i)
      BY DEF Overlaps
    <3> SUFFICES ASSUME NEW k \in clean'
                 PROVE  /\ phase'[k] # "new"
                        /\ InFlight(k)' /\ SameParties(k, request[k].client, request[k].server) =>
                              \A j \in DOMAIN request \ {k} : InFlight(j)' =>
                                 ~SameParties(j, request[k].client, request[k].server)
                        /\ (phase'[k] = "answered" /\ answer[k].body = "NonceResponse") =>
                              \A n \in DOMAIN received[request[k].server] :
                                 received[request[k].server][n].key = Identifier(request[k].client) =>
                                    /\ received[request[k].server][n].nonce = ClientNonce(k)
                                    /\ generated[request[k].server][n].nonce = ServerNonce(k)
      BY <1>1, PartiesNext DEF CleanInv, ClientNonce, ServerNonce
    <3> HIDE DEF reached, failed
    <3>6. k \in DOMAIN request
      BY <2>1, <3>2
    <3>7. CASE k = i
      <4>1. phase'[i] = "sent"
        BY <2>3, <1>2 DEF reached, IndInv, TypeOK
      <4>2. \A j \in DOMAIN request \ {i} :
               InFlight(j) /\ SameParties(i, r.client, r.server) =>
                   ~SameParties(j, r.client, r.server)
        <5> SUFFICES ASSUME NEW j \in DOMAIN request \ {i}, InFlight(j),
                            SameParties(i, r.client, r.server),
                            SameParties(j, r.client, r.server)
                     PROVE  FALSE
          OBVIOUS
        <5>1. SameParties(i, request[j].client, request[j].server)
          BY <3>4
        <5>2. request[j].op = "nonce"
          BY PartiesOf
        <5> QED
          BY <5>1, <5>2, <3>3, <3>5, <3>7
      <4> QED
        BY <4>1, <4>2, <3>1, <3>7
    <3>8. CASE k # i
      <4>1. k \in clean /\ k \notin Overlaps(i) /\ phase'[k] = phase[k]
        BY <3>2, <3>6, <3>8, <1>5
      <4>2. InFlight(k) /\ SameParties(k, request[k].client, request[k].server) =>
               ~SameParties(i, request[k].client, request[k].server)
        <5> SUFFICES ASSUME InFlight(k),
                            SameParties(k, request[k].client, request[k].server),
                            SameParties(i, request[k].client, request[k].server)
                     PROVE  FALSE
          OBVIOUS
        <5>1. request[k].op = "nonce"
          BY PartiesOf
        <5> QED
          BY <5>1, <4>1, <3>5, <3>6, <3>8
      <4>3. InFlight(k)' => InFlight(k)
        BY <3>1, <3>6, <3>8
      <4> QED
        BY <4>1, <4>2, <4>3, <3>1, <3>6 DEF IndInv, CleanInv
    <3> QED
      BY <3>7, <3>8
  <2> QED
    BY <1>1, <2>2, <2>3
<1>9. AgreedInv'
  BY <1>1, <1>5, PartiesNext DEF IndInv, AgreedInv
<1>10. Agreement'
  BY <1>1, PartiesNext DEF IndInv, Agreement
<1>11. OkMeansDone'
  BY <1>1, <1>5 DEF IndInv, OkMeansDone
<1> QED
  BY <1>4, <1>6, <1>7, <1>8, <1>9, <1>10, <1>11 DEF IndInv

\* A server's handler has answered.
LEMMA ServeStep ==
    ASSUME IndInv, NEW i \in DOMAIN request, Serve(i)
    PROVE  IndInv'
<1> DEFINE r == request[i]
           kept == r.op = "nonce" /\ r.version = "v3" /\ r.server \in Cores
           stored == /\ kept
                     /\ Stores(r.server, Identifier(r.client), ServerNonce(i), ClientNonce(i))
                     /\ agreed' = {p \in agreed : ~SameParties(i, p[1], p[2])}
           same == ~kept /\ UNCHANGED <<received, generated, agreed>>
           good == r.op \in {"prepare-upload", "upload"} =>
                      \/ answer'[i].status >= 400
                      \/ /\ answer'[i].status \in {200, 204}
                         /\ r.op = "upload" => BodyEnds(i)
<1>1. /\ phase[i] = "sent" /\ phase' = [phase EXCEPT ![i] = "answered"]
      /\ answer'[i] \in Replies /\ answer' = [answer EXCEPT ![i] = answer'[i]]
      /\ good
      /\ answer'[i].body = "NonceResponse" => kept
      /\ stored \/ same
  BY ServeIs DEF IndInv
<1>2. UNCHANGED <<config, request, serverVars, conns, clean, result, body>>
  BY DEF Serve
<1>3. i \in Calls /\ r.client \in Clients /\ r.server \in Servers
  BY DeviceTypes DEF IndInv
<1>4. /\ phase'[i] = "answered"
      /\ \A j \in DOMAIN request \ {i} : phase'[j] = phase[j] /\ answer'[j] = answer[j]
      /\ \A j \in DOMAIN request : InFlight(j)' <=> InFlight(j)
  BY <1>1, <1>3 DEF IndInv, TypeOK, InFlight
<1>5. stored =>
         /\ received' \in [Clients \cup Cores -> Seq(Entry)]
         /\ generated' \in [Clients \cup Cores -> Seq(Entry)]
         /\ KeyInv' /\ MapsInStep'
         /\ \A f \in (Clients \cup Cores) \ {r.server} :
               received'[f] = received[f] /\ generated'[f] = generated[f]
         /\ \A n \in DOMAIN received'[r.server] :
               received'[r.server][n].key = Identifier(r.client) =>
                  /\ received'[r.server][n].nonce = ClientNonce(i)
                  /\ generated'[r.server][n].nonce = ServerNonce(i)
         /\ \A n \in DOMAIN received'[r.server] :
               received'[r.server][n].key # Identifier(r.client) =>
                  \E m \in DOMAIN received[r.server] :
                     /\ received'[r.server][n] = received[r.server][m]
                     /\ generated'[r.server][n] = generated[r.server][m]
  <2> SUFFICES ASSUME stored
               PROVE  HasStored(r.server, Identifier(r.client), ServerNonce(i), ClientNonce(i))
    BY DEF HasStored
  <2>1. r.server \in Clients \cup Cores /\ Identifier(r.client) \in Ids
    BY <1>3, IdentifierType
  <2>2. Stores(r.server, Identifier(r.client), ServerNonce(i), ClientNonce(i))
    OBVIOUS
  <2>3. /\ ServerNonce(i) \in Nonces /\ ClientNonce(i) \in Nonces
        /\ ServerNonce(i).of[2] = ClientNonce(i).of[2]
    BY <1>3, NonceIs
  <2>4. TypeOK /\ KeyInv /\ MapsInStep
    BY DEF IndInv
  <2> HIDE DEF r
  <2> QED
    BY <2>1, <2>2, <2>3, <2>4, StoresIs
<1>6. TypeOK'
  <2>1. /\ received' \in [Clients \cup Cores -> Seq(Entry)]
        /\ generated' \in [Clients \cup Cores -> Seq(Entry)]
        /\ agreed' \subseteq Clients \X Cores
    BY <1>1, <1>5 DEF IndInv, TypeOK
  <2>2. phase' \in [Calls -> {"new", "sent", "answered", "done"}]
    BY <1>1, <1>3 DEF IndInv, TypeOK
  <2>3. answer' \in [Calls -> [status : Statuses, body : Kinds]]
    <3>1. answer \in [Calls -> Replies]
      BY DEF IndInv, TypeOK, Replies
    <3>2. ASSUME NEW a \in Replies, answer' = [answer EXCEPT ![i] = a]
          PROVE  answer' \in [Calls -> Replies]
      BY <3>1, <3>2
    <3>3. answer' \in [Calls -> Replies]
      BY <1>1, <3>2
    <3> QED
      BY <3>3 DEF Replies
  <2> QED
    BY <1>2, <2>1, <2>2, <2>3 DEF IndInv, TypeOK, serverVars
<1>7. CallInv'
  <2> SUFFICES ASSUME NEW j \in DOMAIN request
               PROVE  /\ phase'[j] # "done" => result[j] = "none"
                      /\ (phase'[j] = "answered"
                             /\ request[j].op \in {"prepare-upload", "upload"}) =>
                            \/ answer'[j].status >= 400
                            \/ /\ answer'[j].status \in {200, 204}
                               /\ request[j].op = "upload" => BodyEnds(j)
                      /\ (phase'[j] = "answered" /\ answer'[j].body = "NonceResponse") =>
                            /\ request[j].op = "nonce" /\ request[j].version = "v3"
                            /\ request[j].server \in Cores
                      /\ body[j].closed => ~body[j].adding
    BY <1>2 DEF CallInv, BodyEnds
  <2>1. CASE j = i
    BY <2>1, <1>1, <1>4 DEF IndInv, CallInv
  <2>2. CASE j # i
    BY <2>2, <1>4 DEF IndInv, CallInv
  <2> QED
    BY <2>1, <2>2
<1>8. KeyInv' /\ MapsInStep'
  BY <1>1, <1>5 DEF IndInv, KeyInv, MapsInStep
<1> HIDE DEF stored, same, good
<1>9. CleanInv'
  <2>1. clean \subseteq DOMAIN request
    BY DEF IndInv, TypeOK
  <2> SUFFICES ASSUME NEW k \in clean
               PROVE  /\ phase'[k] # "new"
                      /\ InFlight(k)' /\ SameParties(k, request[k].client, request[k].server) =>
                            \A j \in DOMAIN request \ {k} : InFlight(j)' =>
                               ~SameParties(j, request[k].client, request[k].server)
                      /\ (phase'[k] = "answered" /\ answer'[k].body = "NonceResponse") =>
                            \A n \in DOMAIN received'[request[k].server] :
                               received'[request[k].server][n].key
                                     = Identifier(request[k].client) =>
                                  /\ received'[request[k].server][n].nonce = ClientNonce(k)
                                  /\ generated'[request[k].server][n].nonce = ServerNonce(k)
    BY <1>2, PartiesNext DEF CleanInv, ClientNonce, ServerNonce
  <2> DEFINE c == request[k].client
             s == request[k].server
  <2>2. k \in DOMAIN request
    BY <2>1
  <2>3. /\ phase[k] # "new"
        /\ InFlight(k) /\ SameParties(k, c, s) =>
              \A j \in DOMAIN request \ {k} : InFlight(j) => ~SameParties(j, c, s)
        /\ (phase[k] = "answered" /\ answer[k].body = "NonceResponse") =>
              \A n \in DOMAIN received[s] : received[s][n].key = Identifier(c) =>
                  /\ received[s][n].nonce = ClientNonce(k)
                  /\ generated[s][n].nonce = ServerNonce(k)
    BY DEF IndInv, CleanInv
  <2>4. phase'[k] # "new"
    BY <2>2, <2>3, <1>4
  <2>5. InFlight(k)' /\ SameParties(k, c, s) =>
            \A j \in DOMAIN request \ {k} : InFlight(j)' => ~SameParties(j, c, s)
    BY <2>2, <2>3, <1>4
  <2>6. ASSUME phase'[k] = "answered", answer'[k].body = "NonceResponse",
               NEW n \in DOMAIN received'[s], received'[s][n].key = Identifier(c)
        PROVE  /\ received'[s][n].nonce = ClientNonce(k)
               /\ generated'[s][n].nonce = ServerNonce(k)
    <3>1. CASE k = i
      <4>1. stored
        BY <3>1, <2>6, <1>1 DEF same
      <4> QED
        BY <3>1, <4>1, <2>6, <1>5
    <3>2. CASE k # i
      <4>1. phase[k] = "answered" /\ answer[k].body = "NonceResponse"
        BY <3>2, <2>2, <2>6, <1>4
      <4>2. request[k].op = "nonce" /\ s \in Cores
        BY <4>1, <2>2 DEF IndInv, CallInv
      <4>3. SameParties(k, c, s) /\ InFlight(k)
        BY <4>1, <4>2, PartiesOf DEF InFlight
      <4>4. ~SameParties(i, c, s)
        BY <4>3, <2>3, <3>2, <1>1 DEF InFlight
      <4>5. CASE same
        BY <4>1, <4>5, <2>3, <2>6 DEF same
      <4>6. CASE stored /\ s # r.server
        <5>1. s \in (Clients \cup Cores) \ {r.server}
          BY <4>2, <4>6
        <5>2. received'[s] = received[s] /\ generated'[s] = generated[s]
          BY <5>1, <4>6, <1>5
        <5> QED
          BY <5>2, <4>1, <2>3, <2>6
      <4>7. CASE stored /\ s = r.server
        <5>1. Identifier(r.client) # Identifier(c)
          BY <4>4, <4>7, PartiesOf DEF stored
        <5>2. PICK m \in DOMAIN received[s] : /\ received'[s][n] = received[s][m]
                                              /\ generated'[s][n] = generated[s][m]
          BY <4>7, <5>1, <2>6, <1>5
        <5> QED
          BY <5>2, <4>1, <2>3, <2>6
      <4> QED
        BY <4>5, <4>6, <4>7, <1>1
    <3> QED
      BY <3>1, <3>2
  <2> QED
    BY <2>4, <2>5, <2>6
<1>10. AgreedInv'
  <2> SUFFICES ASSUME NEW p \in agreed', NEW j \in DOMAIN request,
                      phase'[j] = "answered", request[j].version = "v3",
                      SameParties(j, p[1], p[2])
               PROVE  FALSE
    BY <1>2, PartiesNext DEF AgreedInv
  <2>1. p \in agreed
    BY <1>1 DEF stored, same
  <2>2. CASE j # i
    BY <2>1, <2>2, <1>4 DEF IndInv, AgreedInv
  <2>3. CASE j = i
    <3>1. kept
      BY <2>3, PartiesOf
    <3> QED
      BY <2>3, <3>1, <1>1 DEF stored, same
  <2> QED
    BY <2>2, <2>3
<1>11. Agreement'
  <2> SUFFICES ASSUME NEW p \in agreed',
                      NEW m \in DOMAIN received'[p[1]], NEW n \in DOMAIN received'[p[2]],
                      received'[p[1]][m].key = Identifier(p[2]),
                      received'[p[2]][n].key = Identifier(p[1])
               PROVE  /\ received'[p[1]][m].nonce = generated'[p[2]][n].nonce
                      /\ generated'[p[1]][m].nonce = received'[p[2]][n].nonce
    BY <1>2, PartiesNext DEF Agreement
  <2>1. p \in agreed /\ p[1] \in Clients /\ p[2] \in Cores
    BY <1>1 DEF stored, same, IndInv, TypeOK
  <2>2. CASE same
    BY <2>1, <2>2 DEF same, IndInv, Agreement
  <2>3. CASE stored
    <3>1. p[1] # r.server /\ p[1] \in (Clients \cup Cores) \ {r.server}
      BY <2>1, <1>3, HttpAssumption
    <3>2. received'[p[1]] = received[p[1]] /\ generated'[p[1]] = generated[p[1]]
      BY <3>1, <2>3, <1>5
    <3>3. CASE p[2] # r.server
      <4>1. received'[p[2]] = received[p[2]] /\ generated'[p[2]] = generated[p[2]]
        BY <3>3, <2>1, <2>3, <1>5
      <4> QED
        BY <4>1, <3>2, <2>1 DEF IndInv, Agreement
    <3>4. CASE p[2] = r.server
      <4>1. Identifier(r.client) # Identifier(p[1])
        BY <2>3, <3>4, PartiesOf DEF stored
      <4>2. PICK o \in DOMAIN received[p[2]] : /\ received'[p[2]][n] = received[p[2]][o]
                                               /\ generated'[p[2]][n] = generated[p[2]][o]
        BY <4>1, <3>4, <2>3, <1>5
      <4> QED
        BY <4>2, <3>2, <2>1 DEF IndInv, Agreement
    <3> QED
      BY <3>3, <3>4
  <2> QED
    BY <2>2, <2>3, <1>1
<1>12. OkMeansDone'
  <2>1. result[i] = "none"
    BY <1>1 DEF IndInv, CallInv
  <2> QED
    BY <2>1, <1>2, <1>4 DEF IndInv, OkMeansDone
<1> QED
  BY <1>6, <1>7, <1>8, <1>9, <1>10, <1>11, <1>12 DEF IndInv

\* A call has returned.
LEMMA ReceiveStep ==
    ASSUME IndInv, NEW i \in DOMAIN request, Receive(i)
    PROVE  IndInv'
<1> DEFINE r == request[i]
           c == r.client
           stored == /\ r.op = "nonce" /\ r.version = "v3" /\ r.server \in Cores
                     /\ answer[i].body = "NonceResponse"
                     /\ Stores(c, Identifier(r.server), ClientNonce(i), ServerNonce(i))
                     /\ agreed' = IF i \in clean THEN agreed \cup {<<c, r.server>>} ELSE agreed
           same == UNCHANGED <<received, generated, agreed>>
<1>1. /\ phase[i] = "answered" /\ phase' = [phase EXCEPT ![i] = "done"]
      /\ result' = [result EXCEPT ![i] = Outcome(r, answer[i])]
      /\ stored \/ same
  BY ReceiveIs DEF IndInv
<1>2. UNCHANGED <<config, request, serverVars, conns, clean, answer, body>>
  BY DEF Receive
<1>3. i \in Calls /\ r \in Request /\ c \in Clients /\ r.server \in Servers
  BY DeviceTypes DEF IndInv
<1>4. answer[i] \in Replies
  BY <1>3 DEF IndInv, TypeOK, Replies
<1>5. /\ Outcome(r, answer[i]) \in {"Ok", "Reqwest", "StatusCode", "Other"}
      /\ Outcome(r, answer[i]) = "Ok" =>
            /\ Verified(r)
            /\ r.op = "nonce" => answer[i].body = "NonceResponse"
            /\ r.op \in {"prepare-upload", "upload"} => ~(answer[i].status >= 400)
  BY <1>3, <1>4, OutcomeIs
<1>6. /\ phase'[i] = "done" /\ result'[i] = Outcome(r, answer[i])
      /\ \A j \in DOMAIN request \ {i} : phase'[j] = phase[j] /\ result'[j] = result[j]
      /\ \A j \in DOMAIN request : InFlight(j)' => InFlight(j) /\ j # i
  BY <1>1, <1>3 DEF IndInv, TypeOK, InFlight
<1>7. stored =>
         /\ received' \in [Clients \cup Cores -> Seq(Entry)]
         /\ generated' \in [Clients \cup Cores -> Seq(Entry)]
         /\ KeyInv' /\ MapsInStep'
         /\ \A f \in (Clients \cup Cores) \ {c} :
               received'[f] = received[f] /\ generated'[f] = generated[f]
         /\ \A m \in DOMAIN received'[c] :
               received'[c][m].key = Identifier(r.server) =>
                  /\ received'[c][m].nonce = ServerNonce(i)
                  /\ generated'[c][m].nonce = ClientNonce(i)
         /\ \A m \in DOMAIN received'[c] :
               received'[c][m].key # Identifier(r.server) =>
                  \E o \in DOMAIN received[c] :
                     received'[c][m] = received[c][o] /\ generated'[c][m] = generated[c][o]
  <2> SUFFICES ASSUME stored
               PROVE  HasStored(c, Identifier(r.server), ClientNonce(i), ServerNonce(i))
    BY DEF HasStored
  <2>1. c \in Clients \cup Cores /\ Identifier(r.server) \in Ids
    BY <1>3, IdentifierType
  <2>2. Stores(c, Identifier(r.server), ClientNonce(i), ServerNonce(i))
    OBVIOUS
  <2>3. /\ ServerNonce(i) \in Nonces /\ ClientNonce(i) \in Nonces
        /\ ClientNonce(i).of[2] = ServerNonce(i).of[2]
    BY <1>3, NonceIs
  <2>4. TypeOK /\ KeyInv /\ MapsInStep
    BY DEF IndInv
  <2> HIDE DEF r, c
  <2> QED
    BY <2>1, <2>2, <2>3, <2>4, StoresIs
<1>8. TypeOK'
  <2>1. /\ received' \in [Clients \cup Cores -> Seq(Entry)]
        /\ generated' \in [Clients \cup Cores -> Seq(Entry)]
    BY <1>1, <1>7 DEF IndInv, TypeOK
  <2>2. agreed' \subseteq Clients \X Cores
    BY <1>1, <1>3 DEF IndInv, TypeOK
  <2>3. /\ phase' \in [Calls -> {"new", "sent", "answered", "done"}]
        /\ result' \in [Calls -> {"none", "Ok", "Reqwest", "StatusCode", "Other"}]
    BY <1>1, <1>3, <1>5 DEF IndInv, TypeOK
  <2> QED
    BY <1>2, <2>1, <2>2, <2>3 DEF IndInv, TypeOK, serverVars
<1>9. CallInv'
  BY <1>2, <1>6 DEF IndInv, CallInv, BodyEnds
<1>10. KeyInv' /\ MapsInStep'
  BY <1>1, <1>7 DEF IndInv, KeyInv, MapsInStep
<1>11. \A s \in Cores : received'[s] = received[s] /\ generated'[s] = generated[s]
  BY <1>1, <1>3, <1>7, HttpAssumption
<1>12. OkMeansDone'
  <2> SUFFICES ASSUME NEW j \in DOMAIN request, result'[j] = "Ok",
                      request[j].op \in {"prepare-upload", "upload"}
               PROVE  /\ answer[j].status \in {200, 204}
                      /\ config.tls => request[j].expect \in {"nobody", request[j].server}
                      /\ request[j].op = "upload" =>
                            body[j].closed /\ body[j].taken = body[j].added
    BY <1>2 DEF OkMeansDone
  <2>1. CASE j # i
    BY <2>1, <1>6 DEF IndInv, OkMeansDone
  <2>2. CASE j = i
    <3>1. Verified(r) /\ ~(answer[i].status >= 400)
      BY <2>2, <1>5, <1>6
    <3>2. /\ answer[i].status \in {200, 204}
          /\ r.op = "upload" => BodyEnds(i)
      BY <2>2, <3>1, <1>1 DEF IndInv, CallInv
    <3>3. config.tls => r.expect \in {"nobody", r.server}
      BY <2>2, <3>1, <1>3, VerifiedIs
    <3> QED
      BY <2>2, <3>2, <3>3 DEF BodyEnds
  <2> QED
    BY <2>1, <2>2
<1> HIDE DEF stored, same
<1>13. CleanInv'
  <2>1. clean \subseteq DOMAIN request
    BY DEF IndInv, TypeOK
  <2> SUFFICES ASSUME NEW k \in clean
               PROVE  /\ phase'[k] # "new"
                      /\ InFlight(k)' /\ SameParties(k, request[k].client, request[k].server) =>
                            \A j \in DOMAIN request \ {k} : InFlight(j)' =>
                               ~SameParties(j, request[k].client, request[k].server)
                      /\ (phase'[k] = "answered" /\ answer[k].body = "NonceResponse") =>
                            \A n \in DOMAIN received'[request[k].server] :
                               received'[request[k].server][n].key
                                     = Identifier(request[k].client) =>
                                  /\ received'[request[k].server][n].nonce = ClientNonce(k)
                                  /\ generated'[request[k].server][n].nonce = ServerNonce(k)
    BY <1>2, PartiesNext DEF CleanInv, ClientNonce, ServerNonce
  <2>2. k \in DOMAIN request
    BY <2>1
  <2>3. phase'[k] # "new"
    BY <2>2, <1>6 DEF IndInv, CleanInv
  <2>4. InFlight(k)' /\ SameParties(k, request[k].client, request[k].server) =>
           \A j \in DOMAIN request \ {k} : InFlight(j)' =>
              ~SameParties(j, request[k].client, request[k].server)
    BY <2>2, <1>6 DEF IndInv, CleanInv
  <2>5. ASSUME phase'[k] = "answered", answer[k].body = "NonceResponse"
        PROVE  \A n \in DOMAIN received'[request[k].server] :
                  received'[request[k].server][n].key = Identifier(request[k].client) =>
                     /\ received'[request[k].server][n].nonce = ClientNonce(k)
                     /\ generated'[request[k].server][n].nonce = ServerNonce(k)
    <3>1. phase[k] = "answered"
      BY <2>2, <2>5, <1>6
    <3>2. request[k].server \in Cores
      BY <2>2, <2>5, <3>1 DEF IndInv, CallInv
    <3>3. /\ received'[request[k].server] = received[request[k].server]
          /\ generated'[request[k].server] = generated[request[k].server]
      BY <3>2, <1>11
    <3> QED
      BY <2>5, <3>1, <3>3 DEF IndInv, CleanInv
  <2> QED
    BY <2>3, <2>4, <2>5
<1>14. \A p \in agreed' : p \in agreed \/ (stored /\ i \in clean /\ p = <<c, r.server>>)
  BY <1>1 DEF stored, same
<1>15. stored => SameParties(i, c, r.server) /\ InFlight(i)
  BY <1>1, PartiesOf DEF stored, InFlight
<1>16. AgreedInv'
  <2> SUFFICES ASSUME NEW p \in agreed', NEW j \in DOMAIN request,
                      phase'[j] = "answered", request[j].version = "v3",
                      SameParties(j, p[1], p[2])
               PROVE  FALSE
    BY <1>2, PartiesNext DEF AgreedInv
  <2>1. phase[j] = "answered" /\ j # i
    BY <1>6
  <2>2. CASE p \in agreed
    BY <2>1, <2>2 DEF IndInv, AgreedInv
  <2>3. CASE stored /\ i \in clean /\ p = <<c, r.server>>
    <3>1. SameParties(j, c, r.server)
      BY <2>3
    <3>2. InFlight(j)
      BY <2>1 DEF InFlight
    <3> QED
      BY <3>1, <3>2, <2>1, <2>3, <1>15 DEF IndInv, CleanInv
  <2> QED
    BY <2>2, <2>3, <1>14
<1>17. Agreement'
  <2> SUFFICES ASSUME NEW p \in agreed',
                      NEW m \in DOMAIN received'[p[1]], NEW n \in DOMAIN received'[p[2]],
                      received'[p[1]][m].key = Identifier(p[2]),
                      received'[p[2]][n].key = Identifier(p[1])
               PROVE  /\ received'[p[1]][m].nonce = generated'[p[2]][n].nonce
                      /\ generated'[p[1]][m].nonce = received'[p[2]][n].nonce
    BY <1>2, PartiesNext DEF Agreement
  <2>1. CASE p \in agreed
    <3>1. p[1] \in Clients /\ p[2] \in Cores
      BY <2>1 DEF IndInv, TypeOK
    <3>2. received'[p[2]] = received[p[2]] /\ generated'[p[2]] = generated[p[2]]
      BY <3>1, <1>11
    <3>3. CASE same
      BY <2>1, <3>3 DEF same, IndInv, Agreement
    <3>4. CASE stored /\ p[1] # c
      <4>1. received'[p[1]] = received[p[1]] /\ generated'[p[1]] = generated[p[1]]
        BY <3>1, <3>4, <1>7
      <4> QED
        BY <4>1, <3>2, <2>1 DEF IndInv, Agreement
    <3>5. CASE stored /\ p[1] = c
      <4>1. ~SameParties(i, p[1], p[2])
        BY <2>1, <3>5, <1>1 DEF stored, IndInv, AgreedInv
      <4>2. Identifier(r.server) # Identifier(p[2])
        BY <4>1, <3>5, PartiesOf DEF stored
      <4>3. PICK o \in DOMAIN received[p[1]] : /\ received'[p[1]][m] = received[p[1]][o]
                                               /\ generated'[p[1]][m] = generated[p[1]][o]
        BY <4>2, <3>5, <1>7
      <4> QED
        BY <4>3, <3>2, <2>1 DEF IndInv, Agreement
    <3> QED
      BY <3>3, <3>4, <3>5, <1>1
  <2>2. CASE stored /\ i \in clean /\ p = <<c, r.server>>
    <3>1. p[1] = c /\ p[2] = r.server /\ r.server \in Cores
      BY <2>2 DEF stored
    <3>2. /\ received'[p[1]][m].nonce = ServerNonce(i)
          /\ generated'[p[1]][m].nonce = ClientNonce(i)
      BY <3>1, <2>2, <1>7
    <3>3. /\ received'[p[2]] = received[p[2]] /\ generated'[p[2]] = generated[p[2]]
      BY <3>1, <1>11
    <3>4. phase[i] = "answered" /\ answer[i].body = "NonceResponse"
      BY <2>2, <1>1 DEF stored
    <3>5. /\ received[r.server][n].nonce = ClientNonce(i)
          /\ generated[r.server][n].nonce = ServerNonce(i)
      BY <2>2, <3>1, <3>3, <3>4 DEF IndInv, CleanInv
    <3> QED
      BY <3>1, <3>2, <3>3, <3>5
  <2> QED
    BY <2>1, <2>2, <1>14
<1> QED
  BY <1>8, <1>9, <1>10, <1>12, <1>13, <1>16, <1>17 DEF IndInv

-----------------------------------------------------------------------------
(* The theorems.                                                           *)

\* Whatever the server's task, the calls and the streams of uploads do, in any
\* order, the inductive invariant of HttpApi holds.
THEOREM Inductive == Spec => []IndInv
<1>1. Init => IndInv
  BY InvInit
<1>2. IndInv /\ [Next]_vars => IndInv'
  <2> SUFFICES ASSUME IndInv, [Next]_vars
               PROVE  IndInv'
    OBVIOUS
  <2>1. ASSUME NEW s \in Cores, Server(s)
        PROVE  IndInv'
    BY <2>1, ServerStep
  <2>2. ASSUME NEW i \in DOMAIN request, Call(i)
        PROVE  IndInv'
    BY <2>2, CallStep
  <2>3. ASSUME NEW i \in DOMAIN request, Serve(i)
        PROVE  IndInv'
    BY <2>3, ServeStep
  <2>4. ASSUME NEW i \in DOMAIN request, Break(i)
        PROVE  IndInv'
    BY <2>4, BreakStep
  <2>5. ASSUME NEW i \in DOMAIN request, Receive(i)
        PROVE  IndInv'
    BY <2>5, ReceiveStep
  <2>6. ASSUME NEW i \in DOMAIN request, Stream(i)
        PROVE  IndInv'
    BY <2>6, StreamStep
  <2>7. CASE UNCHANGED vars
    <3>1. UNCHANGED <<Exchanged, body>>
      BY <2>7 DEF vars, Exchanged
    <3>2. TypeOK'
      BY <2>7 DEF IndInv, TypeOK, vars, serverVars, nonceVars
    <3> QED
      BY <3>1, <3>2, OtherStep DEF IndInv, CallInv
  <2> QED
    BY <2>1, <2>2, <2>3, <2>4, <2>5, <2>6, <2>7 DEF Next, Exchange
<1> QED
  BY <1>1, <1>2, PTL DEF Spec

\* The two nonce maps of a client or a server hold the same devices at the same
\* places with the nonces of one exchange, whatever exchanges overlap and whatever
\* the maps evict (nonce_exchange, LsHttpClientV3::nonce).
THEOREM InStep == Spec => []MapsInStep
<1>1. IndInv => MapsInStep
  BY DEF IndInv
<1> QED
  BY <1>1, Inductive, PTL

\* After an exchange that no other of the same two parties overlapped, the nonces
\* the client and the server have for each other are the same, until the next
\* exchange of the two is served.
THEOREM Agree == Spec => []Agreement
<1>1. IndInv => Agreement
  BY DEF IndInv
<1> QED
  BY <1>1, Inductive, PTL

\* An upload that returned Ok was read to its end by the device the caller meant.
THEOREM Done == Spec => []OkMeansDone
<1>1. IndInv => OkMeansDone
  BY DEF IndInv
<1> QED
  BY <1>1, Inductive, PTL
=============================================================================
