--------------------------- MODULE PacketsProofs ---------------------------
(***************************************************************************)
(* Theorems about Packets.                                                 *)
(***************************************************************************)
EXTENDS Packets, VarIntProofs, BitFieldProofs

-----------------------------------------------------------------------------
(* What the constructor from data keeps of a packet is what it was sent with. *)
Faithful(m) ==
  LET kept == Decode(m.class, "CLIENT_BOUND", m.body)
  IN  \A f \in DOMAIN kept : kept[f] = m.fields[f]

(* Decode goes by the place of a field's name. *)
LEMMA DecodeField ==
  ASSUME NEW class, NEW side, NEW body, Len(Kept(class, side)) \in Nat,
         \A i, j \in 1 .. Len(Kept(class, side)) :
           Kept(class, side)[i] = Kept(class, side)[j] => i = j
  PROVE  /\ \A f \in DOMAIN Decode(class, side, body) :
              \E i \in 1 .. Len(Kept(class, side)) : f = Kept(class, side)[i]
         /\ \A i \in 1 .. Len(Kept(class, side)) :
              /\ Kept(class, side)[i] \in DOMAIN Decode(class, side, body)
              /\ Decode(class, side, body)[Kept(class, side)[i]] =
                   IF i > Len(body) THEN 0
                   ELSE IF Kept(class, side)[i] = "keepAliveId" THEN Read(body[i]).value
                   ELSE IF Kept(class, side)[i] = "username" /\ ~NameFits(body) THEN 0
                   ELSE body[i]
<1> DEFINE names == Kept(class, side)
           place(f) == CHOOSE i \in 1 .. Len(names) : names[i] = f
           value(f) == IF place(f) > Len(body) THEN 0
             ELSE IF f = "keepAliveId" THEN Read(body[place(f)]).value
             ELSE IF f = "username" /\ ~NameFits(body) THEN 0
             ELSE body[place(f)]
<1>1. \A i \in 1 .. Len(names) : place(names[i]) = i
  OBVIOUS
<1> HIDE DEF place
<1>2. Decode(class, side, body) =
        [f \in {names[i] : i \in 1 .. Len(names)} |-> value(f)]
  BY DEF Decode, place
<1>3. \A i \in 1 .. Len(names) : value(names[i]) =
              IF i > Len(body) THEN 0
              ELSE IF names[i] = "keepAliveId" THEN Read(body[i]).value
              ELSE IF names[i] = "username" /\ ~NameFits(body) THEN 0
              ELSE body[i]
  BY <1>1
<1> HIDE DEF value
<1> QED
  BY <1>2, <1>3

(* A packet whose constructor reads the fields that it writes, in their order. *)
LEMMA SameNames ==
  ASSUME NEW class, NEW fields,
         Len(Kept(class, "CLIENT_BOUND")) \in Nat,
         Written(class, "SERVER_BOUND") = Kept(class, "CLIENT_BOUND"),
         \A i, j \in 1 .. Len(Kept(class, "CLIENT_BOUND")) :
           Kept(class, "CLIENT_BOUND")[i] = Kept(class, "CLIENT_BOUND")[j] => i = j,
         \A i \in 1 .. Len(Kept(class, "CLIENT_BOUND")) :
           Kept(class, "CLIENT_BOUND")[i] = "keepAliveId" =>
             Read(Write(fields["keepAliveId"])).value = fields["keepAliveId"],
         \A i \in 1 .. Len(Kept(class, "CLIENT_BOUND")) :
           Kept(class, "CLIENT_BOUND")[i] = "username" =>
             NameFits(Body(fields, Kept(class, "CLIENT_BOUND")))
  PROVE  Faithful(Packet(class, fields))
<1> DEFINE names == Kept(class, "CLIENT_BOUND")
           n == Len(names)
           body == Body(fields, names)
           kept == Decode(class, "CLIENT_BOUND", body)
<1>1. Len(body) = n /\ \A i \in 1 .. n : body[i] = Encode(names[i], fields[names[i]])
  BY DEF Body
<1>2. /\ Packet(class, fields).class = class
      /\ Packet(class, fields).fields = fields
      /\ Packet(class, fields).body = body
  BY DEF Packet, getSide
<1>3. \A i \in 1 .. n : names[i] # "keepAliveId" => body[i] = fields[names[i]]
  BY <1>1 DEF Encode
<1>4. \A i \in 1 .. n : names[i] = "keepAliveId" => Read(body[i]).value = fields[names[i]]
  BY <1>1 DEF Encode
<1>5. \A i \in 1 .. n : names[i] = "username" => NameFits(body)
  OBVIOUS
<1> HIDE DEF body
<1>6. /\ \A f \in DOMAIN kept : \E i \in 1 .. n : f = names[i]
      /\ \A i \in 1 .. n : kept[names[i]] =
              IF i > Len(body) THEN 0
              ELSE IF names[i] = "keepAliveId" THEN Read(body[i]).value
              ELSE IF names[i] = "username" /\ ~NameFits(body) THEN 0
              ELSE body[i]
  BY DecodeField
<1> HIDE DEF kept
<1>7. \A i \in 1 .. n : kept[names[i]] = fields[names[i]]
  BY <1>1, <1>3, <1>4, <1>5, <1>6
<1>8. Faithful(Packet(class, fields)) <=> \A f \in DOMAIN kept : kept[f] = fields[f]
  BY <1>2 DEF Faithful, kept
<1> QED
  BY <1>6, <1>7, <1>8

LEMMA PingFaithful == ASSUME NEW fields PROVE Faithful(Packet("Ping", fields))
<1> DEFINE names == <<"unixEpoch">>
<1>1. Kept("Ping", "CLIENT_BOUND") = names /\ Written("Ping", "SERVER_BOUND") = names
  BY DEF Kept, Written
<1>2. /\ Len(names) = 1 /\ \A i \in 1 .. 1 : names[i] = "unixEpoch"
      /\ \A i, j \in 1 .. 1 : names[i] = names[j] => i = j
  OBVIOUS
<1>3. \A i \in 1 .. 1 : names[i] \notin {"keepAliveId", "username"}
  OBVIOUS
<1> HIDE DEF names
<1> QED
  BY <1>1, <1>2, <1>3, SameNames

LEMMA KeepAliveFaithful ==
  ASSUME NEW v \in Number
  PROVE  Faithful(Packet("KeepAlive", [keepAliveId |-> v]))
<1> DEFINE fields == [keepAliveId |-> v]
           names == <<"keepAliveId">>
<1>1. Kept("KeepAlive", "CLIENT_BOUND") = names /\ Written("KeepAlive", "SERVER_BOUND") = names
  BY DEF Kept, Written
<1>2. <<>> \in Seq(Byte) /\ Write(v) \in Seq(Byte)
  BY WriteIs
<1>3. Write(v) \o <<>> = Write(v)
  BY <1>2
<1>4. Read(Write(v)) = [size |-> Len(Write(v)), value |-> v]
  BY <1>2, <1>3, ReadsBack
<1>5. Read(Write(fields["keepAliveId"])).value = fields["keepAliveId"]
  BY <1>4
<1>6. /\ Len(names) = 1 /\ \A i \in 1 .. 1 : names[i] = "keepAliveId"
      /\ \A i, j \in 1 .. 1 : names[i] = names[j] => i = j
  OBVIOUS
<1> HIDE DEF names, fields
<1>7. Faithful(Packet("KeepAlive", fields))
  BY <1>1, <1>5, <1>6, SameNames
<1> QED
  BY <1>7 DEF fields

LEMMA SuccessFaithful ==
  ASSUME NEW n \in 0 .. UuidLength - 1
  PROVE  Faithful(Packet("LoginSuccess", [uuid |-> UuidLength, username |-> n]))
<1> DEFINE fields == [uuid |-> UuidLength, username |-> n]
           names == <<"uuid", "username">>
<1>1. Kept("LoginSuccess", "CLIENT_BOUND") = names /\ Written("LoginSuccess", "SERVER_BOUND") = names
  BY DEF Kept, Written
<1>2. Body(fields, names)[1] = UuidLength /\ Body(fields, names)[2] = n
  BY DEF Body, Encode
<1>3. NameFits(Body(fields, names))
  BY <1>2 DEF NameFits, UuidLength
<1>4. /\ Len(names) = 2 /\ \A i, j \in 1 .. 2 : names[i] = names[j] => i = j
      /\ \A i \in 1 .. 2 : names[i] # "keepAliveId"
  OBVIOUS
<1> HIDE DEF names, fields
<1>5. Faithful(Packet("LoginSuccess", fields))
  BY <1>1, <1>3, <1>4, SameNames
<1> QED
  BY <1>5 DEF fields

LEMMA RequestFaithful ==
  Faithful(Packet("Encryption", [serverId |-> 0, publickKey |-> 162, clearVerifyToken |-> 4]))
<1>1. Kept("Encryption", "CLIENT_BOUND") = <<"serverId">> /\ Written("Encryption", "SERVER_BOUND") = <<>>
  BY DEF Kept, Written
<1> DEFINE m == Packet("Encryption", [serverId |-> 0, publickKey |-> 162, clearVerifyToken |-> 4])
<1>2. m.body = Body(m.fields, <<>>) /\ m.class = "Encryption" /\ m.fields.serverId = 0
  BY <1>1 DEF Packet, getSide
<1>3. Len(m.body) = 0
  BY <1>2 DEF Body
<1> HIDE DEF m
<1>4. LET kept == Decode("Encryption", "CLIENT_BOUND", m.body)
      IN  DOMAIN kept = {"serverId"} /\ kept["serverId"] = 0
  BY <1>1, <1>3 DEF Decode
<1> QED
  BY <1>2, <1>4 DEF Faithful, m

LEMMA JoinFaithful ==
  ASSUME NEW fields PROVE Faithful(Packet("JoinGame", fields))
<1> DEFINE names == <<"playerEntityId", "gamemode", "dimensionId", "difficulty",
           "maxPlayersOnPlayerList", "levelType", "reducedDebugInfo">>
<1>1. Kept("JoinGame", "CLIENT_BOUND") = names /\ Written("JoinGame", "SERVER_BOUND") = names
  BY DEF Kept, Written
<1>2. Len(names) = 7 /\ \A i, j \in 1 .. 7 : names[i] = names[j] => i = j
  OBVIOUS
<1>3. \A i \in 1 .. 7 : names[i] \notin {"keepAliveId", "username"}
  OBVIOUS
<1> HIDE DEF names
<1> QED
  BY <1>1, <1>2, <1>3, SameNames

LEMMA OthersFaithful ==
  ASSUME NEW fields,
         NEW class \in {"ServerStatus", "SpawnPosition", "PositionAndLook", "PlayerAbilities"}
  PROVE  Faithful(Packet(class, fields))
  BY DEF Faithful, Packet, Kept, Decode

(* What the gateway takes from the two packets that it acts on. *)
LEMMA HandshakeReads ==
  ASSUME NEW body, Len(body) = 4
  PROVE  Decode("Handshake", "SERVER_BOUND", body).requestedNextState = body[4]
<1>1. Kept("Handshake", "SERVER_BOUND") =
        <<"protocolVersion", "serverAddress", "serverPort", "requestedNextState">>
  BY DEF Kept
<1>2. /\ Len(Kept("Handshake", "SERVER_BOUND")) = 4
      /\ Kept("Handshake", "SERVER_BOUND")[4] = "requestedNextState"
      /\ \A i, j \in 1 .. 4 : Kept("Handshake", "SERVER_BOUND")[i] =
                              Kept("Handshake", "SERVER_BOUND")[j] => i = j
  BY <1>1
<1> QED
  BY <1>2, DecodeField

LEMMA LoginStartReads ==
  ASSUME NEW body, Len(body) \in Nat
  PROVE  Decode("LoginStart", "SERVER_BOUND", body).playerName =
           IF 1 > Len(body) THEN 0 ELSE body[1]
<1>1. Kept("LoginStart", "SERVER_BOUND") = <<"playerName">>
  BY DEF Kept
<1>2. /\ Len(Kept("LoginStart", "SERVER_BOUND")) = 1
      /\ Kept("LoginStart", "SERVER_BOUND")[1] = "playerName"
      /\ \A i, j \in 1 .. 1 : Kept("LoginStart", "SERVER_BOUND")[i] =
                              Kept("LoginStart", "SERVER_BOUND")[j] => i = j
  BY <1>1
<1> QED
  BY <1>2, DecodeField

-----------------------------------------------------------------------------
(* The streams. *)

IsSeq(s) == \E S : s \in Seq(S)

LEMMA AppendIs ==
  ASSUME NEW s, IsSeq(s), NEW e
  PROVE  /\ IsSeq(Append(s, e)) /\ Len(s) \in Nat /\ Append(s, e) # <<>>
         /\ Len(Append(s, e)) = Len(s) + 1 /\ Append(s, e)[Len(s) + 1] = e
         /\ \A i \in 1 .. Len(s) : Append(s, e)[i] = s[i]
<1>1. PICK S : s \in Seq(S)
  BY DEF IsSeq
<1>2. s \in Seq(S \cup {e}) /\ e \in S \cup {e}
  BY <1>1
<1>3. Append(s, e) \in Seq(S \cup {e})
  BY <1>2
<1>4. IsSeq(Append(s, e))
  BY <1>3 DEF IsSeq
<1>5. Len(s) \in Nat /\ Len(Append(s, e)) = Len(s) + 1
  BY <1>2
<1>6. Append(s, e)[Len(s) + 1] = e /\ \A i \in 1 .. Len(s) : Append(s, e)[i] = s[i]
  BY <1>2
<1> QED
  BY <1>4, <1>5, <1>6

LEMMA TailIs ==
  ASSUME NEW s, IsSeq(s), s # <<>>
  PROVE  /\ IsSeq(Tail(s)) /\ Len(s) \in Nat \ {0} /\ Len(Tail(s)) = Len(s) - 1
         /\ Head(s) = s[1]
         /\ \A i \in 1 .. Len(Tail(s)) : Tail(s)[i] = s[i + 1]
<1>1. PICK S : s \in Seq(S)
  BY DEF IsSeq
<1>2. Tail(s) \in Seq(S)
  BY <1>1
<1> QED
  BY <1>1, <1>2 DEF IsSeq

-----------------------------------------------------------------------------
(* What a lookup may yield. *)

LEMMA FoundByGateway ==
  ASSUME NEW st, NEW id
  PROVE  /\ "Handshake" \in Find("SERVER_BOUND", st, id) => st = "HANDSHAKE"
         /\ "LoginStart" \in Find("SERVER_BOUND", st, id) => st = "LOGIN" /\ id = 0
         /\ \A class \in Find("SERVER_BOUND", "HANDSHAKE", id) : class = "Handshake"
         /\ Find("SERVER_BOUND", "HANDSHAKE", 0) # {}
<1>1. "Handshake" \in Find("SERVER_BOUND", st, id) => st = "HANDSHAKE"
  BY DEF Find, Registered, Registry, Entry
<1>2. "LoginStart" \in Find("SERVER_BOUND", st, id) => st = "LOGIN" /\ id = 0
  BY DEF Find, Registered, Registry, Entry
<1>3. \A class \in Find("SERVER_BOUND", "HANDSHAKE", id) : class = "Handshake"
  BY DEF Find, Registered, Registry, Entry
<1>4. "Handshake" \in Registered("SERVER_BOUND", "HANDSHAKE", 0)
  <2>1. Entry("SERVER_BOUND", "HANDSHAKE", 0, "Handshake") \in Registry
    BY DEF Registry
  <2> QED
    BY <2>1 DEF Registered, Entry
<1> QED
  BY <1>1, <1>2, <1>3, <1>4 DEF Find

LEMMA FoundByPeer ==
  ASSUME NEW st, NEW id
  PROVE  /\ "LoginSuccess" \in Find("CLIENT_BOUND", st, id) => id = 2
         /\ "KeepAlive" \in Find("CLIENT_BOUND", st, id) => st = "PLAY"
         /\ Find("CLIENT_BOUND", "HANDSHAKE", id) = {}
  BY DEF Find, Registered, Registry, Entry

-----------------------------------------------------------------------------
(* The inductive invariant. What reads back depends on the name that the gateway
   took from the packet it read as a LoginStart: whichever packets of id 0 are
   under way, the one that the gateway reads in LOGIN has to be one. *)

Joins == {"LoginSuccess", "JoinGame", "SpawnPosition", "PositionAndLook", "PlayerAbilities"}

Types ==
  /\ state \in States /\ peerState \in States
  /\ loopback \in BOOLEAN /\ watching \in BOOLEAN
  /\ username \in {0} \cup Names /\ sent \in 0 .. MaxSent

Streams == IsSeq(toPeer) /\ IsSeq(toGateway) /\ todo \in Seq(Joins)

\* The peer greets once, and the gateway leaves HANDSHAKE with that packet.
Greeting ==
  /\ wants = <<"Handshake">> =>
       toGateway = <<>> /\ peerState = "HANDSHAKE" /\ state = "HANDSHAKE"
  /\ state = "HANDSHAKE" /\ wants # <<"Handshake">> =>
       toGateway # <<>> /\ toGateway[1].class = "Handshake"

Opening(m) == m.id = 0 /\ Len(m.body) = 4 /\ m.body[4] \in {"STATUS", "LOGIN"}

Coming ==
  \A i \in 1 .. Len(toGateway) :
    /\ toGateway[i].class = "Handshake" =>
         i = 1 /\ state = "HANDSHAKE" /\ Opening(toGateway[i])
    /\ toGateway[i].id = 0 =>
         toGateway[i].class \in {"Handshake", "LoginStart", "ServerStatus", "KeepAlive"}
    /\ toGateway[i].class = "LoginStart" =>
         Len(toGateway[i].body) = 1 /\ toGateway[i].body[1] \in Names
    /\ toGateway[i].class = "ServerStatus" => Len(toGateway[i].body) = 0
    /\ toGateway[i].class = "KeepAlive" => peerState = "PLAY"

Phases ==
  /\ peerState = "PLAY" => state = "PLAY"
  /\ todo # <<>> => state \in {"LOGIN", "PLAY"}

LoginTold == \A i \in 1 .. Len(toPeer) : toPeer[i].id = 2 => state = "PLAY"

Inv == Types /\ Streams /\ Greeting /\ Coming /\ Phases /\ LoginTold /\ SentReadsBack

LEMMA InitInv == Init => Inv
<1> SUFFICES ASSUME Init PROVE Inv
  OBVIOUS
<1>1. <<>> \in Seq(Joins) /\ IsSeq(<<>>)
  BY <<>> \in Seq(Joins) DEF IsSeq
<1>2. Types
  <2>1. loopback \in BOOLEAN /\ watching \in BOOLEAN
    BY Zenon DEF Init
  <2>2. sent \in 0 .. MaxSent
    BY OthersAssumption DEF Init
  <2>3. state \in States /\ peerState \in States /\ username \in {0} \cup Names
    BY DEF Init, States
  <2> QED
    BY <2>1, <2>2, <2>3, Zenon DEF Types
<1>3. Streams
  BY <1>1 DEF Init, Streams
<1>4. Greeting /\ Phases
  BY DEF Init, Greeting, Phases
<1>5. Len(toGateway) = 0 /\ Len(toPeer) = 0
  BY DEF Init
<1>6. Coming /\ LoginTold /\ SentReadsBack
  BY <1>5 DEF Coming, LoginTold, SentReadsBack
<1> QED
  BY <1>2, <1>3, <1>4, <1>6 DEF Inv

(* A packet that the gateway sends. *)
LEMMA SendKeeps ==
  ASSUME Inv, NEW m, toPeer' = Append(toPeer, m), Faithful(m),
         m.id = 2 => state' = "PLAY", state = "PLAY" => state' = "PLAY"
  PROVE  IsSeq(toPeer') /\ LoginTold' /\ SentReadsBack'
<1>1. /\ IsSeq(toPeer') /\ Len(toPeer) \in Nat
      /\ Len(toPeer') = Len(toPeer) + 1 /\ toPeer'[Len(toPeer) + 1] = m
      /\ \A i \in 1 .. Len(toPeer) : toPeer'[i] = toPeer[i]
  BY AppendIs DEF Inv, Streams
<1>2. \A i \in 1 .. Len(toPeer') : i = Len(toPeer) + 1 \/ i \in 1 .. Len(toPeer)
  BY <1>1
<1>3. LoginTold'
  BY <1>1, <1>2 DEF Inv, LoginTold
<1>4. \A i \in 1 .. Len(toPeer) : Faithful(toPeer[i])
  BY DEF Inv, SentReadsBack, Faithful
<1>5. \A i \in 1 .. Len(toPeer') : Faithful(toPeer'[i])
  BY <1>1, <1>2, <1>4
<1>6. SentReadsBack'
  BY <1>5 DEF SentReadsBack, Faithful
<1> QED
  BY <1>1, <1>3, <1>6

(* The head of the gateway's stream is taken, in or out of HANDSHAKE. *)
LEMMA TakeKeeps ==
  ASSUME Inv, toGateway # <<>>, toGateway' = Tail(toGateway),
         state' # "HANDSHAKE", UNCHANGED <<peerState, wants>>
  PROVE  IsSeq(toGateway') /\ Greeting' /\ Coming'
<1>1. /\ IsSeq(toGateway') /\ Len(toGateway) \in Nat \ {0}
      /\ Len(toGateway') = Len(toGateway) - 1
      /\ \A i \in 1 .. Len(toGateway') : toGateway'[i] = toGateway[i + 1]
  BY TailIs DEF Inv, Streams
<1>2. Greeting'
  BY DEF Inv, Greeting
<1>3. \A i \in 1 .. Len(toGateway') : i + 1 \in 1 .. Len(toGateway) /\ i + 1 # 1
  BY <1>1
<1>4. Coming'
  BY <1>1, <1>3 DEF Inv, Coming
<1> QED
  BY <1>1, <1>2, <1>4

(* The peer sends a packet after its greeting. *)
LEMMA SayKeeps ==
  ASSUME Inv, wants # <<"Handshake">>, wants' # <<"Handshake">>,
         NEW m, toGateway' = Append(toGateway, m), state' = state,
         peerState = "PLAY" => peerState' = "PLAY",
         m.class # "Handshake", m.id = 0 => m.class \in {"LoginStart", "ServerStatus", "KeepAlive"},
         m.class = "LoginStart" => Len(m.body) = 1 /\ m.body[1] \in Names,
         m.class = "ServerStatus" => Len(m.body) = 0,
         m.class = "KeepAlive" => peerState' = "PLAY"
  PROVE  IsSeq(toGateway') /\ Greeting' /\ Coming'
<1>1. /\ IsSeq(toGateway') /\ Len(toGateway) \in Nat /\ toGateway' # <<>>
      /\ Len(toGateway') = Len(toGateway) + 1 /\ toGateway'[Len(toGateway) + 1] = m
      /\ \A i \in 1 .. Len(toGateway) : toGateway'[i] = toGateway[i]
  BY AppendIs DEF Inv, Streams
<1>2. toGateway # <<>> => toGateway'[1] = toGateway[1]
  BY <1>1, TailIs DEF Inv, Streams
<1>3. Greeting'
  BY <1>1, <1>2 DEF Inv, Greeting
<1>4. \A i \in 1 .. Len(toGateway') : i = Len(toGateway) + 1 \/ i \in 1 .. Len(toGateway)
  BY <1>1
<1>5. Coming'
  BY <1>1, <1>4 DEF Inv, Coming
<1> QED
  BY <1>1, <1>3, <1>5

-----------------------------------------------------------------------------
(* Steps that leave a stream alone, and the head of the gateway's. *)

LEMMA ToPeerKept ==
  ASSUME Inv, toPeer' = toPeer, state = "PLAY" => state' = "PLAY"
  PROVE  IsSeq(toPeer') /\ LoginTold' /\ SentReadsBack'
  BY DEF Inv, Streams, LoginTold, SentReadsBack

LEMMA ToGatewayKept ==
  ASSUME Inv, toGateway' = toGateway, UNCHANGED <<peerState, wants>>,
         state' = state \/ (state # "HANDSHAKE" /\ state' # "HANDSHAKE")
  PROVE  IsSeq(toGateway') /\ Greeting' /\ Coming'
  BY DEF Inv, Streams, Greeting, Coming

LEMMA HeadIs ==
  ASSUME Inv, toGateway # <<>>
  PROVE  Head(toGateway) = toGateway[1] /\ 1 \in 1 .. Len(toGateway)
  BY TailIs DEF Inv, Streams

LEMMA ReceivesAfter ==
  ASSUME Inv, NEW class, Receives(class), class # "Handshake"
  PROVE  state # "HANDSHAKE"
  BY FoundByGateway DEF Receives

-----------------------------------------------------------------------------
(* The gateway's steps. *)

LEMMA IgnoreKeeps == ASSUME Inv, Ignore PROVE Inv'
<1>1. state # "HANDSHAKE"
  <2> SUFFICES ASSUME state = "HANDSHAKE" PROVE FALSE
    OBVIOUS
  <2>1. toGateway # <<>> /\ wants # <<"Handshake">>
    BY DEF Ignore, Inv, Greeting
  <2>2. toGateway[1].class = "Handshake"
    BY <2>1 DEF Inv, Greeting
  <2>3. Head(toGateway).id = 0
    BY <2>1, <2>2, HeadIs DEF Inv, Coming, Opening
  <2> QED
    BY <2>3, FoundByGateway DEF Ignore
<1>2. IsSeq(toGateway') /\ Greeting' /\ Coming'
  BY <1>1, TakeKeeps DEF Ignore, gateway, peer
<1>3. IsSeq(toPeer') /\ LoginTold' /\ SentReadsBack'
  BY ToPeerKept DEF Ignore, gateway
<1>4. Phases' /\ todo' \in Seq(Joins)
  BY DEF Inv, Phases, Streams, Ignore, gateway, peer
<1>5. Types'
  BY Zenon DEF Inv, Types, Ignore, gateway, peer
<1> QED
  BY <1>2, <1>3, <1>4, <1>5 DEF Inv, Streams

LEMMA PingBackKeeps == ASSUME Inv, PingBack PROVE Inv'
<1>1. state # "HANDSHAKE"
  BY ReceivesAfter DEF PingBack
<1>2. IsSeq(toGateway') /\ Greeting' /\ Coming'
  BY <1>1, TakeKeeps DEF PingBack, Receives, gateway, peer
<1>3. PICK m : toPeer' = Append(toPeer, m) /\ Faithful(m) /\ m.id = 1
  BY PingFaithful DEF PingBack, Packet, IdOf
<1>4. IsSeq(toPeer') /\ LoginTold' /\ SentReadsBack'
  BY <1>3, SendKeeps DEF PingBack, gateway
<1>5. Phases' /\ todo' \in Seq(Joins)
  BY DEF Inv, Phases, Streams, PingBack, gateway, peer
<1>6. Types'
  BY Zenon DEF Inv, Types, PingBack, gateway, peer
<1> QED
  BY <1>2, <1>4, <1>5, <1>6 DEF Inv, Streams

LEMMA HandshakeKeeps == ASSUME Inv, Handshake PROVE Inv'
<1>1. state = "HANDSHAKE" /\ toGateway # <<>> /\ todo = <<>>
  BY FoundByGateway DEF Handshake, Receives
<1>2. Len(Head(toGateway).body) = 4 /\ Head(toGateway).body[4] \in {"STATUS", "LOGIN"}
  BY <1>1, HeadIs DEF Inv, Greeting, Coming, Opening
<1>3. Received("Handshake").requestedNextState = Head(toGateway).body[4]
  BY <1>2, HandshakeReads DEF Received
<1>4. state' \in {"STATUS", "LOGIN"}
  BY <1>2, <1>3 DEF Handshake
<1>5. IsSeq(toGateway') /\ Greeting' /\ Coming'
  BY <1>1, <1>4, TakeKeeps DEF Handshake, Receives, peer
<1>6. IsSeq(toPeer') /\ LoginTold' /\ SentReadsBack'
  BY <1>1, ToPeerKept DEF Handshake
<1>7. Phases' /\ todo' \in Seq(Joins)
  BY <1>1 DEF Inv, Phases, Streams, Handshake, peer
<1>8. Types'
  <2>1. state' \in States
    BY <1>4 DEF States
  <2> QED
    BY <2>1, Zenon DEF Inv, Types, Handshake, peer
<1> QED
  BY <1>5, <1>6, <1>7, <1>8 DEF Inv, Streams

LEMMA StatusRequestKeeps == ASSUME Inv, StatusRequest PROVE Inv'
<1>1. state # "HANDSHAKE"
  BY ReceivesAfter DEF StatusRequest
<1>2. IsSeq(toGateway') /\ Greeting' /\ Coming'
  BY <1>1, TakeKeeps DEF StatusRequest, Receives, gateway, peer
<1>3. PICK fields : toPeer' = Append(toPeer, Packet("ServerStatus", fields))
  BY DEF StatusRequest, Send
<1>4. Packet("ServerStatus", fields).id = 0
  BY DEF Packet, IdOf
<1>5. IsSeq(toPeer') /\ LoginTold' /\ SentReadsBack'
  BY <1>3, <1>4, OthersFaithful, SendKeeps DEF StatusRequest, gateway
<1>6. Phases' /\ todo' \in Seq(Joins)
  BY DEF Inv, Phases, Streams, StatusRequest, gateway, peer
<1>7. Types'
  BY Zenon DEF Inv, Types, StatusRequest, gateway, peer
<1> QED
  BY <1>2, <1>5, <1>6, <1>7 DEF Inv, Streams

LEMMA NothingKeeps == ASSUME Inv, Nothing PROVE Inv'
<1>1. state # "HANDSHAKE" /\ toGateway # <<>> /\ toGateway' = Tail(toGateway)
  BY ReceivesAfter DEF Nothing, Receives
<1>2. IsSeq(toGateway') /\ Greeting' /\ Coming'
  BY <1>1, TakeKeeps DEF Nothing, gateway, peer
<1>3. IsSeq(toPeer') /\ LoginTold' /\ SentReadsBack'
  BY ToPeerKept DEF Nothing, gateway
<1>4. Phases' /\ todo' \in Seq(Joins)
  BY DEF Inv, Phases, Streams, Nothing, gateway, peer
<1>5. Types'
  BY Zenon DEF Inv, Types, Nothing, gateway, peer
<1> QED
  BY <1>2, <1>3, <1>4, <1>5 DEF Inv, Streams

(* The packet that is read as a LoginStart is one, or has no name in it: of the
   others of id 0, a Handshake is gone when the gateway is in LOGIN, and a
   KeepAlive comes from a peer that is in PLAY. *)
LEMMA NameTaken ==
  ASSUME Inv, Receives("LoginStart")
  PROVE  Received("LoginStart").playerName \in {0} \cup Names
<1>1. state = "LOGIN" /\ Head(toGateway).id = 0 /\ toGateway # <<>>
  BY FoundByGateway DEF Receives
<1>2. Head(toGateway).class \in {"LoginStart", "ServerStatus"}
  BY <1>1, HeadIs DEF Inv, Coming, Phases
<1>3. \/ Len(Head(toGateway).body) = 1 /\ Head(toGateway).body[1] \in Names
      \/ Len(Head(toGateway).body) = 0
  BY <1>1, <1>2, HeadIs DEF Inv, Coming
<1> QED
  BY <1>3, LoginStartReads DEF Received

LEMMA LoginStartKeeps == ASSUME Inv, LoginStart PROVE Inv'
<1>1. state = "LOGIN" /\ todo = <<>>
  BY FoundByGateway DEF LoginStart, Receives
<1>2. username' \in {0} \cup Names
  BY NameTaken DEF LoginStart
<1>3. IsSeq(toGateway') /\ Greeting' /\ Coming'
  BY <1>1, TakeKeeps DEF LoginStart, Receives, peer
<1>4. IsSeq(toPeer') /\ LoginTold' /\ SentReadsBack'
  <2>1. CASE loopback
    BY <2>1, ToPeerKept DEF LoginStart
  <2>2. CASE ~loopback
    <3>1. PICK fields \in Made("Encryption") :
            toPeer' = Append(toPeer, Packet("Encryption", fields))
      BY <2>2 DEF LoginStart, SendNew, Send
    <3>2. fields = [serverId |-> 0, publickKey |-> 162, clearVerifyToken |-> 4]
      BY DEF Made
    <3>3. Packet("Encryption", fields).id = 1
      BY DEF Packet, IdOf
    <3> QED
      BY <1>1, <3>1, <3>2, <3>3, RequestFaithful, SendKeeps DEF LoginStart
  <2> QED
    BY <2>1, <2>2
<1>5. todo' \in Seq(Joins)
  <2>1. <<"LoginSuccess", "JoinGame", "SpawnPosition", "PositionAndLook",
          "PlayerAbilities">> \in Seq(Joins)
    BY DEF Joins
  <2> QED
    BY <2>1 DEF LoginStart, Inv, Streams
<1>6. Phases'
  BY <1>1 DEF Inv, Phases, LoginStart, peer
<1>7. Types'
  BY <1>2, Zenon DEF Inv, Types, LoginStart, peer
<1> QED
  BY <1>3, <1>4, <1>5, <1>6, <1>7 DEF Inv, Streams

LEMMA SetFlagKeeps == ASSUME Inv, SetFlag PROVE Inv'
<1>1. IsSeq(toGateway') /\ Greeting' /\ Coming'
  BY ToGatewayKept DEF SetFlag, gateway, peer
<1>2. IsSeq(toPeer') /\ LoginTold' /\ SentReadsBack'
  BY ToPeerKept DEF SetFlag, gateway
<1>3. Phases' /\ todo' \in Seq(Joins)
  BY DEF Inv, Phases, Streams, SetFlag, gateway, peer
<1>4. Types'
  BY Zenon DEF Inv, Types, SetFlag, gateway, peer
<1> QED
  BY <1>1, <1>2, <1>3, <1>4 DEF Inv, Streams

LEMMA onPlayerLoginKeeps == ASSUME Inv, onPlayerLogin PROVE Inv'
<1>1. /\ state # "HANDSHAKE" /\ state' = "PLAY"
      /\ todo # <<>> /\ todo' = Tail(todo)
  BY DEF onPlayerLogin, Inv, Phases
<1>2. IsSeq(toGateway') /\ Greeting' /\ Coming'
  BY <1>1, ToGatewayKept DEF onPlayerLogin, peer
<1>3. PICK fields \in Made("LoginSuccess") :
        toPeer' = Append(toPeer, Packet("LoginSuccess", fields))
  BY DEF onPlayerLogin, SendNew, Send
<1>4. Faithful(Packet("LoginSuccess", fields))
  <2>1. fields = [uuid |-> UuidLength, username |-> username]
    BY DEF Made
  <2>2. username \in 0 .. UuidLength - 1
    BY NamesAssumption DEF Inv, Types, UuidLength
  <2> QED
    BY <2>1, <2>2, SuccessFaithful
<1>5. IsSeq(toPeer') /\ LoginTold' /\ SentReadsBack'
  BY <1>1, <1>3, <1>4, SendKeeps
<1>6. Phases' /\ todo' \in Seq(Joins)
  BY <1>1 DEF Inv, Phases, Streams
<1>7. Types'
  <2>1. state' \in States /\ watching' \in BOOLEAN
    BY Zenon, <1>1 DEF States, onPlayerLogin
  <2> QED
    BY <2>1, Zenon DEF Inv, Types, onPlayerLogin, peer
<1> QED
  BY <1>2, <1>5, <1>6, <1>7 DEF Inv, Streams

LEMMA addClientKeeps == ASSUME Inv, addClient PROVE Inv'
<1>1. todo # <<>> /\ todo' = Tail(todo) /\ Head(todo) \in Joins \ {"LoginSuccess"}
  BY DEF addClient, Inv, Streams
<1>2. IsSeq(toGateway') /\ Greeting' /\ Coming'
  BY ToGatewayKept DEF addClient, peer
<1> DEFINE class == Head(todo)
<1>3. PICK fields \in Made(class) : toPeer' = Append(toPeer, Packet(class, fields))
  BY DEF addClient, SendNew, Send
<1>4. Faithful(Packet(class, fields))
  BY <1>1, JoinFaithful, OthersFaithful DEF Joins
<1>5. Packet(class, fields).id # 2
  BY <1>1 DEF Packet, IdOf, Joins
<1>6. IsSeq(toPeer') /\ LoginTold' /\ SentReadsBack'
  BY <1>3, <1>4, <1>5, SendKeeps DEF addClient
<1>7. Phases' /\ todo' \in Seq(Joins)
  BY <1>1 DEF Inv, Phases, Streams, addClient, peer
<1>8. Types'
  BY Zenon DEF Inv, Types, addClient, peer
<1> QED
  BY <1>2, <1>6, <1>7, <1>8 DEF Inv, Streams

LEMMA keepAliveKeeps == ASSUME Inv, keepAlive PROVE Inv'
<1>1. IsSeq(toGateway') /\ Greeting' /\ Coming'
  BY ToGatewayKept DEF keepAlive, gateway, peer
<1>2. PICK fields \in Made("KeepAlive") :
        toPeer' = Append(toPeer, Packet("KeepAlive", fields))
  BY DEF keepAlive, SendNew, Send
<1>3. PICK v \in Number : fields = [keepAliveId |-> v]
  BY NamesAssumption DEF Made
<1>4. Faithful(Packet("KeepAlive", fields))
  BY <1>3, KeepAliveFaithful
<1>5. Packet("KeepAlive", fields).id = 0
  BY DEF Packet, IdOf
<1>6. IsSeq(toPeer') /\ LoginTold' /\ SentReadsBack'
  BY <1>2, <1>4, <1>5, SendKeeps DEF keepAlive, gateway
<1>7. Phases' /\ todo' \in Seq(Joins)
  BY DEF Inv, Phases, Streams, keepAlive, gateway, peer
<1>8. sent' \in 0 .. MaxSent
  BY OthersAssumption DEF keepAlive, Inv, Types
<1>9. Types'
  BY <1>8, Zenon DEF Inv, Types, keepAlive, gateway, peer
<1> QED
  BY <1>1, <1>6, <1>7, <1>9 DEF Inv, Streams

-----------------------------------------------------------------------------
(* The peer's steps. *)

LEMMA SaidIs ==
  ASSUME NEW class, NEW id, NEW fields, Say(class, id, fields), class # "Other"
  PROVE  /\ toGateway' = Append(toGateway, PeerPacket(class, id, fields))
         /\ PeerPacket(class, id, fields).class = class
         /\ PeerPacket(class, id, fields).id = id
         /\ PeerPacket(class, id, fields).body = Body(fields, Kept(class, "SERVER_BOUND"))
  BY DEF Say, PeerPacket

LEMMA TypesMove ==
  ASSUME Types, UNCHANGED <<gateway, sent>>, peerState' \in States
  PROVE  Types'
  BY Zenon DEF Types, gateway

LEMMA HelloKeeps == ASSUME Inv, Hello PROVE Inv'
<1> PICK next \in {"STATUS", "LOGIN"} :
         /\ Say("Handshake", 0, [protocolVersion |-> 47, serverAddress |-> 9,
                                 serverPort |-> 25565, requestedNextState |-> next])
         /\ peerState' = next
         /\ wants' = IF next = "LOGIN" THEN <<"LoginStart">> ELSE <<"ServerStatus">>
  BY DEF Hello
<1> DEFINE fields == [protocolVersion |-> 47, serverAddress |-> 9,
                      serverPort |-> 25565, requestedNextState |-> next]
           m == PeerPacket("Handshake", 0, fields)
<1>1. /\ wants = <<"Handshake">> /\ toGateway = <<>> /\ state = "HANDSHAKE"
      /\ peerState = "HANDSHAKE" /\ state' = state
  BY DEF Hello, Inv, Greeting, gateway
<1>2. toGateway' = Append(toGateway, m) /\ m.class = "Handshake" /\ m.id = 0
  BY SaidIs
<1>3. Len(m.body) = 4 /\ m.body[4] = next
  <2>1. m.body = Body(fields, <<"protocolVersion", "serverAddress", "serverPort",
                                "requestedNextState">>)
    BY SaidIs DEF Kept
  <2> QED
    BY <2>1 DEF Body, Encode
<1> HIDE DEF m
<1>4. /\ IsSeq(toGateway') /\ toGateway' # <<>>
      /\ Len(toGateway') = 1 /\ toGateway'[1] = m
  <2>1. <<>> \in Seq({m}) /\ Len(<<>>) = 0
    OBVIOUS
  <2>2. toGateway' = Append(<<>>, m)
    BY <1>1, <1>2
  <2>3. toGateway' \in Seq({m}) /\ Len(toGateway') = 1 /\ toGateway'[1] = m
    BY <2>1, <2>2
  <2> QED
    BY <2>3 DEF IsSeq
<1>5. wants' # <<"Handshake">>
  OBVIOUS
<1>6. Greeting'
  BY <1>1, <1>2, <1>4, <1>5 DEF Greeting
<1>7. Coming'
  BY <1>1, <1>2, <1>3, <1>4 DEF Coming, Opening
<1>8. IsSeq(toPeer') /\ LoginTold' /\ SentReadsBack'
  BY ToPeerKept DEF Hello, gateway
<1>9. Phases' /\ todo' \in Seq(Joins)
  BY DEF Inv, Phases, Streams, Hello, gateway
<1>10. Types'
  <2>1. peerState' \in States
    BY DEF States
  <2>2. UNCHANGED <<gateway, sent>>
    BY DEF Hello
  <2> QED
    BY <2>1, <2>2, TypesMove DEF Inv
<1> QED
  BY <1>4, <1>6, <1>7, <1>8, <1>9, <1>10 DEF Inv, Streams

LEMMA AskKeeps == ASSUME Inv, Ask PROVE Inv'
<1>1. PICK m : /\ toGateway' = Append(toGateway, m) /\ m.id = 0
               /\ \/ m.class = "ServerStatus" /\ Len(m.body) = 0
                  \/ m.class = "LoginStart" /\ Len(m.body) = 1 /\ m.body[1] \in Names
  <2>1. CASE Say("ServerStatus", 0, <<>>)
    <3>1. /\ toGateway' = Append(toGateway, PeerPacket("ServerStatus", 0, <<>>))
          /\ PeerPacket("ServerStatus", 0, <<>>).class = "ServerStatus"
          /\ PeerPacket("ServerStatus", 0, <<>>).id = 0
          /\ PeerPacket("ServerStatus", 0, <<>>).body = Body(<<>>, <<>>)
      BY <2>1, SaidIs DEF Kept
    <3>2. Len(Body(<<>>, <<>>)) = 0
      BY DEF Body
    <3> QED
      BY <3>1, <3>2
  <2>2. ASSUME NEW n \in Names, Say("LoginStart", 0, [playerName |-> n])
        PROVE  \E m : /\ toGateway' = Append(toGateway, m) /\ m.id = 0
                      /\ m.class = "LoginStart" /\ Len(m.body) = 1 /\ m.body[1] \in Names
    <3> DEFINE m == PeerPacket("LoginStart", 0, [playerName |-> n])
    <3>0. Kept("LoginStart", "SERVER_BOUND") = <<"playerName">>
      BY DEF Kept
    <3>1. /\ toGateway' = Append(toGateway, m)
          /\ m.class = "LoginStart" /\ m.id = 0
          /\ m.body = Body([playerName |-> n], <<"playerName">>)
      BY <2>2, <3>0, SaidIs
    <3> HIDE DEF m
    <3>2. Len(m.body) = 1 /\ m.body[1] = n
      BY <3>1 DEF Body, Encode
    <3> QED
      BY <3>1, <3>2
  <2> QED
    BY <2>1, <2>2 DEF Ask
<1>2. wants # <<"Handshake">> /\ wants' # <<"Handshake">>
  BY DEF Ask
<1>3. state' = state /\ peerState' = peerState
  BY DEF Ask, gateway
<1>4. IsSeq(toGateway') /\ Greeting' /\ Coming'
  BY <1>1, <1>2, <1>3, SayKeeps
<1>5. IsSeq(toPeer') /\ LoginTold' /\ SentReadsBack'
  BY ToPeerKept DEF Ask, gateway
<1>6. Phases' /\ todo' \in Seq(Joins)
  BY DEF Inv, Phases, Streams, Ask, gateway
<1>7. Types'
  BY Zenon DEF Inv, Types, Ask, gateway
<1> QED
  BY <1>4, <1>5, <1>6, <1>7 DEF Inv, Streams

LEMMA ChatterKeeps == ASSUME Inv, Chatter PROVE Inv'
<1>1. PICK m : /\ toGateway' = Append(toGateway, m) /\ m.id # 0
               /\ m.class \in {"Ping", "ChatMessage", "Other"}
  <2>1. ASSUME NEW fields, Say("Ping", 1, fields) \/ Say("ChatMessage", 1, fields)
        PROVE  \E m : /\ toGateway' = Append(toGateway, m) /\ m.id # 0
                      /\ m.class \in {"Ping", "ChatMessage", "Other"}
    BY <2>1, SaidIs
  <2>2. ASSUME NEW id \in Others, Say("Other", id, <<>>)
        PROVE  \E m : /\ toGateway' = Append(toGateway, m) /\ m.id # 0
                      /\ m.class \in {"Ping", "ChatMessage", "Other"}
    BY <2>2, OthersAssumption DEF Say, PeerPacket
  <2> QED
    BY <2>1, <2>2 DEF Chatter
<1>2. wants # <<"Handshake">> /\ wants' # <<"Handshake">>
  BY DEF Chatter
<1>3. state' = state /\ peerState' = peerState
  BY DEF Chatter, gateway
<1>4. IsSeq(toGateway') /\ Greeting' /\ Coming'
  BY <1>1, <1>2, <1>3, SayKeeps
<1>5. IsSeq(toPeer') /\ LoginTold' /\ SentReadsBack'
  BY ToPeerKept DEF Chatter, gateway
<1>6. Phases' /\ todo' \in Seq(Joins)
  BY DEF Inv, Phases, Streams, Chatter, gateway
<1>7. sent' \in 0 .. MaxSent
  BY OthersAssumption DEF Chatter, Inv, Types
<1>8. Types'
  BY <1>7, Zenon DEF Inv, Types, Chatter, gateway
<1> QED
  BY <1>4, <1>5, <1>6, <1>8 DEF Inv, Streams

LEMMA PeerReceivesKeeps == ASSUME Inv, PeerReceives PROVE Inv'
<1> DEFINE m == Head(toPeer)
           found == Find("CLIENT_BOUND", peerState, m.id)
<1>1. /\ toPeer # <<>> /\ toPeer' = Tail(toPeer)
      /\ peerState' = IF "LoginSuccess" \in found THEN "PLAY" ELSE peerState
      /\ IF "KeepAlive" \in found
         THEN Say("KeepAlive", 0, Decode("KeepAlive", "CLIENT_BOUND", m.body))
         ELSE UNCHANGED toGateway
      /\ state' = state /\ todo' = todo /\ wants' = wants
  BY DEF PeerReceives, gateway
<1>2. /\ IsSeq(toPeer') /\ Len(toPeer) \in Nat \ {0} /\ Len(toPeer') = Len(toPeer) - 1
      /\ m = toPeer[1] /\ \A i \in 1 .. Len(toPeer') : toPeer'[i] = toPeer[i + 1]
  BY <1>1, TailIs DEF Inv, Streams
<1>3. \A i \in 1 .. Len(toPeer') : i + 1 \in 1 .. Len(toPeer)
  BY <1>2
<1>4. LoginTold' /\ SentReadsBack'
  BY <1>1, <1>2, <1>3 DEF Inv, LoginTold, SentReadsBack
<1>5. "LoginSuccess" \in found => state = "PLAY"
  <2>1. "LoginSuccess" \in found => m.id = 2
    BY FoundByPeer
  <2> QED
    BY <1>2, <2>1 DEF Inv, LoginTold
<1>6. "KeepAlive" \in found => peerState = "PLAY"
  BY FoundByPeer
<1>7. wants = <<"Handshake">> => found = {} /\ peerState = "HANDSHAKE"
  BY FoundByPeer DEF Inv, Greeting
<1> HIDE DEF found
<1>8. Phases' /\ (peerState = "PLAY" => peerState' = "PLAY")
  BY <1>1, <1>5 DEF Inv, Phases
<1>9. IsSeq(toGateway') /\ Greeting' /\ Coming'
  <2>1. CASE "KeepAlive" \in found
    <3>1. PICK a : /\ toGateway' = Append(toGateway, a)
                   /\ a.class = "KeepAlive" /\ a.id = 0
      BY <1>1, <2>1, SaidIs
    <3>2. wants # <<"Handshake">> /\ wants' # <<"Handshake">> /\ peerState' = "PLAY"
      BY <1>1, <1>6, <1>7, <1>8, <2>1
    <3> QED
      BY <1>1, <3>1, <3>2, SayKeeps
  <2>2. CASE "KeepAlive" \notin found
    <3>1. toGateway' = toGateway /\ (wants = <<"Handshake">> => peerState' = peerState)
      BY <1>1, <1>7, <2>2
    <3> QED
      BY <1>1, <1>8, <3>1 DEF Inv, Streams, Greeting, Coming
  <2> QED
    BY <2>1, <2>2
<1>10. Types'
  <2>1. peerState' \in States
    BY <1>1 DEF Inv, Types, States
  <2> QED
    BY <2>1, Zenon DEF Inv, Types, PeerReceives, gateway
<1> QED
  <2>1. todo' \in Seq(Joins)
    BY <1>1 DEF Inv, Streams
  <2> QED
    BY <1>2, <1>4, <1>8, <1>9, <1>10, <2>1 DEF Inv, Streams

-----------------------------------------------------------------------------
LEMMA NextKeeps == Inv /\ [Next]_vars => Inv'
<1> SUFFICES ASSUME Inv, [Next]_vars PROVE Inv'
  OBVIOUS
<1>1. CASE Next
  BY <1>1, IgnoreKeeps, PingBackKeeps, HandshakeKeeps, StatusRequestKeeps,
     LoginStartKeeps, NothingKeeps, SetFlagKeeps, onPlayerLoginKeeps, addClientKeeps,
     keepAliveKeeps, HelloKeeps, AskKeeps, ChatterKeeps, PeerReceivesKeeps
     DEF Next, Gateway
<1>2. CASE UNCHANGED vars
  <2>1. IsSeq(toGateway') /\ Greeting' /\ Coming'
    BY <1>2, ToGatewayKept DEF vars, gateway, peer
  <2>2. IsSeq(toPeer') /\ LoginTold' /\ SentReadsBack'
    BY <1>2, ToPeerKept DEF vars, gateway
  <2>3. Phases' /\ todo' \in Seq(Joins)
    BY <1>2 DEF Inv, Phases, Streams, vars, gateway, peer
  <2>4. Types'
    BY <1>2, Zenon DEF Inv, Types, vars, gateway, peer
  <2> QED
    BY <2>1, <2>2, <2>3, <2>4 DEF Inv, Streams
<1> QED
  BY <1>1, <1>2

(* Whatever numbers, names, pings and keep-alives a session has, and however far
   the two ends are apart in it, what the gateway sends reads back: the name that
   it puts into LoginSuccess is one that LoginStart brought, shorter than the
   uuid, so that the wrapped test of LoginSuccessPacket lets it through. *)
THEOREM SentPacketsReadBack == Spec => []SentReadsBack
<1>1. Inv => SentReadsBack
  BY DEF Inv
<1> QED
  BY <1>1, InitInv, NextKeeps, PTL DEF Spec

-----------------------------------------------------------------------------
(* Both ends' lookups. The gateway and the peer may be in different states while
   packets are under way; what is under way says how far apart they are. *)

\* A packet of the peer that is read in state st.
DueToGateway(st, m) ==
  \/ st = "STATUS" /\ m.class = "ServerStatus" /\ m.id = 0
  \/ st = "STATUS" /\ m.class = "Ping" /\ m.id = 1
  \/ st = "LOGIN" /\ m.class = "LoginStart" /\ m.id = 0
  \/ st = "PLAY" /\ m.class = "KeepAlive" /\ m.id = 0
  \/ st = "PLAY" /\ m.class = "ChatMessage" /\ m.id = 1
  \/ st = "PLAY" /\ m.class = "Other" /\ m.id \in Others

\* A packet of the gateway that is read in state st.
DueToPeer(st, m) ==
  \/ st = "STATUS" /\ m.class = "ServerStatus" /\ m.id = 0
  \/ st = "STATUS" /\ m.class = "Ping" /\ m.id = 1
  \/ st = "LOGIN" /\ m.class = "Encryption" /\ m.id = 1
  \/ st = "PLAY" /\ m.class = "KeepAlive" /\ m.id = 0
  \/ st = "PLAY" /\ m.class \in Joins \ {"LoginSuccess"} /\ m.id = IdOf(m.class)

\* How far the peer is, and what it has still to send.
PeerAt ==
  /\ peerState = "HANDSHAKE" => wants = <<"Handshake">> /\ toPeer = <<>>
  /\ peerState # "HANDSHAKE" => wants # <<"Handshake">>
  /\ peerState = "STATUS" => wants \in {<<"ServerStatus">>, <<>>}
  /\ peerState = "LOGIN" => wants \in {<<"LoginStart">>, <<>>}
  /\ peerState = "PLAY" => wants = <<>>

\* How far the gateway is, and what its login has still to send.
GatewayAt ==
  /\ state = "HANDSHAKE" => toPeer = <<>>
  /\ state # "HANDSHAKE" =>
       peerState = state \/ (state = "PLAY" /\ peerState = "LOGIN")
  /\ state = "PLAY" \/ todo # <<>> => loopback
  /\ watching => state = "PLAY"
  /\ state = "PLAY" => \A i \in 1 .. Len(todo) : todo[i] # "LoginSuccess"
  /\ state = "LOGIN" /\ todo # <<>> =>
       /\ todo[1] = "LoginSuccess"
       /\ \A i \in 2 .. Len(todo) : todo[i] # "LoginSuccess"

\* The greeting first, then packets of the state that it asks for.
FromPeer ==
  /\ state = "HANDSHAKE" /\ toGateway # <<>> =>
       toGateway[1].class = "Handshake" /\ toGateway[1].body[4] = peerState
  /\ \A i \in 1 .. Len(toGateway) :
       toGateway[i].class # "Handshake" => DueToGateway(peerState, toGateway[i])
  /\ state = "PLAY" /\ peerState = "LOGIN" => toGateway = <<>>

\* A peer that logs in sends one packet, and waits.
OneLoginStart ==
  peerState = "LOGIN" =>
    /\ wants = <<"LoginStart">> =>
         \A i \in 1 .. Len(toGateway) : toGateway[i].class = "Handshake"
    /\ \A i, j \in 1 .. Len(toGateway) :
         toGateway[i].class = "LoginStart" /\ toGateway[j].class = "LoginStart" => i = j
    /\ todo # <<>> \/ toPeer # <<>> \/ state = "PLAY" => wants = <<>> /\ toGateway = <<>>

\* A peer still in LOGIN has LoginSuccess before it, then packets of PLAY.
FromGateway ==
  /\ peerState = state => \A i \in 1 .. Len(toPeer) : DueToPeer(state, toPeer[i])
  /\ peerState = "LOGIN" /\ state = "LOGIN" /\ loopback => toPeer = <<>>
  /\ peerState = "LOGIN" /\ state = "PLAY" =>
       /\ toPeer # <<>> /\ toPeer[1].class = "LoginSuccess" /\ toPeer[1].id = 2
       /\ \A i \in 2 .. Len(toPeer) : DueToPeer("PLAY", toPeer[i])

Apart == PeerAt /\ GatewayAt /\ FromPeer /\ OneLoginStart /\ FromGateway

LEMMA RegisteredIs ==
  ASSUME NEW side, NEW st, NEW id, NEW class
  PROVE  class \in Registered(side, st, id) <=> Entry(side, st, id, class) \in Registry
<1>1. ASSUME class \in Registered(side, st, id) PROVE Entry(side, st, id, class) \in Registry
  <2>1. PICK r \in Registry : /\ r.side = side /\ r.state = st /\ r.id = id /\ r.class = class
    BY <1>1 DEF Registered
  <2>2. r = Entry(r.side, r.state, r.id, r.class)
    BY DEF Registry, Entry
  <2> QED
    BY <2>1, <2>2
<1>2. ASSUME Entry(side, st, id, class) \in Registry PROVE class \in Registered(side, st, id)
  BY <1>2 DEF Registered, Entry
<1> QED
  BY <1>1, <1>2

(* An entry is the one of its side, state, id and class. *)
LEMMA EntryIs ==
  ASSUME NEW side, NEW st, NEW id, NEW class, NEW side2, NEW st2, NEW id2, NEW class2
  PROVE  Entry(side, st, id, class) = Entry(side2, st2, id2, class2) <=>
           side = side2 /\ st = st2 /\ id = id2 /\ class = class2
  BY DEF Entry

LEMMA InRegistry ==
  ASSUME NEW side, NEW st, NEW id, NEW class
  PROVE  Entry(side, st, id, class) \in Registry <=>
           \/ side = "SERVER_BOUND" /\ st = "HANDSHAKE" /\ id = 0 /\ class = "Handshake"
           \/ side = "BI_DIRECTIONAL" /\ st = "STATUS" /\ id = 0 /\ class = "ServerStatus"
           \/ side = "BI_DIRECTIONAL" /\ st = "STATUS" /\ id = 1 /\ class = "Ping"
           \/ side = "SERVER_BOUND" /\ st = "LOGIN" /\ id = 0 /\ class = "LoginStart"
           \/ side = "BI_DIRECTIONAL" /\ st = "LOGIN" /\ id = 1 /\ class = "Encryption"
           \/ side = "CLIENT_BOUND" /\ st = "LOGIN" /\ id = 2 /\ class = "LoginSuccess"
           \/ side = "CLIENT_BOUND" /\ st = "LOGIN" /\ id = 3 /\ class = "SetCompression"
           \/ side = "BI_DIRECTIONAL" /\ st = "PLAY" /\ id = 0 /\ class = "KeepAlive"
           \/ side = "CLIENT_BOUND" /\ st = "PLAY" /\ id = 1 /\ class = "JoinGame"
           \/ side = "CLIENT_BOUND" /\ st = "PLAY" /\ id = 2 /\ class = "ChatMessage"
           \/ side = "SERVER_BOUND" /\ st = "PLAY" /\ id = 1 /\ class = "ChatMessage"
           \/ side = "CLIENT_BOUND" /\ st = "PLAY" /\ id = 5 /\ class = "SpawnPosition"
           \/ side = "CLIENT_BOUND" /\ st = "PLAY" /\ id = 8 /\ class = "PositionAndLook"
           \/ side = "CLIENT_BOUND" /\ st = "PLAY" /\ id = 57 /\ class = "PlayerAbilities"
           \/ side = "CLIENT_BOUND" /\ st = "PLAY" /\ id = 70 /\ class = "SetCompression"
  BY EntryIs DEF Registry

(* The second lookup, of a class that both sides register. *)
LEMMA BothSides ==
  ASSUME NEW side, NEW st, NEW id, NEW class,
         \A other : Entry(side, st, id, other) \notin Registry,
         \A other : Entry("BI_DIRECTIONAL", st, id, other) \in Registry <=> other = class
  PROVE  Find(side, st, id) = {class}
<1>1. Registered(side, st, id) = {} /\ Registered("BI_DIRECTIONAL", st, id) = {class}
  BY RegisteredIs
<1> QED
  BY <1>1 DEF Find

LEMMA GatewayFinds ==
  ASSUME NEW st, NEW m, DueToGateway(st, m)
  PROVE  Find("SERVER_BOUND", st, m.id) = {m.class} \ {"Other"}
<1>1. Find("SERVER_BOUND", "STATUS", 0) = {"ServerStatus"}
  <2>1. \A other : Entry("SERVER_BOUND", "STATUS", 0, other) \notin Registry
    BY InRegistry
  <2>2. \A other : Entry("BI_DIRECTIONAL", "STATUS", 0, other) \in Registry <=> other = "ServerStatus"
    BY InRegistry
  <2> QED
    BY <2>1, <2>2, BothSides
<1>2. Find("SERVER_BOUND", "STATUS", 1) = {"Ping"}
  <2>1. \A other : Entry("SERVER_BOUND", "STATUS", 1, other) \notin Registry
    BY InRegistry
  <2>2. \A other : Entry("BI_DIRECTIONAL", "STATUS", 1, other) \in Registry <=> other = "Ping"
    BY InRegistry
  <2> QED
    BY <2>1, <2>2, BothSides
<1>3. Find("SERVER_BOUND", "LOGIN", 0) = {"LoginStart"}
  <2>1. \A other : Entry("SERVER_BOUND", "LOGIN", 0, other) \in Registry <=> other = "LoginStart"
    BY InRegistry
  <2>2. Registered("SERVER_BOUND", "LOGIN", 0) = {"LoginStart"}
    BY <2>1, RegisteredIs
  <2> QED
    BY <2>2 DEF Find
<1>4. Find("SERVER_BOUND", "PLAY", 0) = {"KeepAlive"}
  <2>1. \A other : Entry("SERVER_BOUND", "PLAY", 0, other) \notin Registry
    BY InRegistry
  <2>2. \A other : Entry("BI_DIRECTIONAL", "PLAY", 0, other) \in Registry <=> other = "KeepAlive"
    BY InRegistry
  <2> QED
    BY <2>1, <2>2, BothSides
<1>5. Find("SERVER_BOUND", "PLAY", 1) = {"ChatMessage"}
  <2>1. \A other : Entry("SERVER_BOUND", "PLAY", 1, other) \in Registry <=> other = "ChatMessage"
    BY InRegistry
  <2>2. Registered("SERVER_BOUND", "PLAY", 1) = {"ChatMessage"}
    BY <2>1, RegisteredIs
  <2> QED
    BY <2>2 DEF Find
<1>6. ASSUME NEW id \in Others PROVE Find("SERVER_BOUND", "PLAY", id) = {}
  BY <1>6, OthersAssumption DEF Find, Registered, Registry, Entry
<1> QED
  BY <1>1, <1>2, <1>3, <1>4, <1>5, <1>6 DEF DueToGateway

LEMMA PeerFinds ==
  ASSUME NEW st, NEW m, DueToPeer(st, m)
  PROVE  Find("CLIENT_BOUND", st, m.id) = {m.class}
<1>1. Find("CLIENT_BOUND", "STATUS", 0) = {"ServerStatus"}
  <2>1. \A other : Entry("CLIENT_BOUND", "STATUS", 0, other) \notin Registry
    BY InRegistry
  <2>2. \A other : Entry("BI_DIRECTIONAL", "STATUS", 0, other) \in Registry <=> other = "ServerStatus"
    BY InRegistry
  <2> QED
    BY <2>1, <2>2, BothSides
<1>2. Find("CLIENT_BOUND", "STATUS", 1) = {"Ping"}
  <2>1. \A other : Entry("CLIENT_BOUND", "STATUS", 1, other) \notin Registry
    BY InRegistry
  <2>2. \A other : Entry("BI_DIRECTIONAL", "STATUS", 1, other) \in Registry <=> other = "Ping"
    BY InRegistry
  <2> QED
    BY <2>1, <2>2, BothSides
<1>3. Find("CLIENT_BOUND", "LOGIN", 1) = {"Encryption"}
  <2>1. \A other : Entry("CLIENT_BOUND", "LOGIN", 1, other) \notin Registry
    BY InRegistry
  <2>2. \A other : Entry("BI_DIRECTIONAL", "LOGIN", 1, other) \in Registry <=> other = "Encryption"
    BY InRegistry
  <2> QED
    BY <2>1, <2>2, BothSides
<1>4. Find("CLIENT_BOUND", "PLAY", 0) = {"KeepAlive"}
  <2>1. \A other : Entry("CLIENT_BOUND", "PLAY", 0, other) \notin Registry
    BY InRegistry
  <2>2. \A other : Entry("BI_DIRECTIONAL", "PLAY", 0, other) \in Registry <=> other = "KeepAlive"
    BY InRegistry
  <2> QED
    BY <2>1, <2>2, BothSides
<1>5. Find("CLIENT_BOUND", "PLAY", 1) = {"JoinGame"}
  <2>1. \A other : Entry("CLIENT_BOUND", "PLAY", 1, other) \in Registry <=> other = "JoinGame"
    BY InRegistry
  <2>2. Registered("CLIENT_BOUND", "PLAY", 1) = {"JoinGame"}
    BY <2>1, RegisteredIs
  <2> QED
    BY <2>2 DEF Find
<1>6. Find("CLIENT_BOUND", "PLAY", 5) = {"SpawnPosition"}
  <2>1. \A other : Entry("CLIENT_BOUND", "PLAY", 5, other) \in Registry <=> other = "SpawnPosition"
    BY InRegistry
  <2>2. Registered("CLIENT_BOUND", "PLAY", 5) = {"SpawnPosition"}
    BY <2>1, RegisteredIs
  <2> QED
    BY <2>2 DEF Find
<1>7. Find("CLIENT_BOUND", "PLAY", 8) = {"PositionAndLook"}
  <2>1. \A other : Entry("CLIENT_BOUND", "PLAY", 8, other) \in Registry <=> other = "PositionAndLook"
    BY InRegistry
  <2>2. Registered("CLIENT_BOUND", "PLAY", 8) = {"PositionAndLook"}
    BY <2>1, RegisteredIs
  <2> QED
    BY <2>2 DEF Find
<1>8. Find("CLIENT_BOUND", "PLAY", 57) = {"PlayerAbilities"}
  <2>1. \A other : Entry("CLIENT_BOUND", "PLAY", 57, other) \in Registry <=> other = "PlayerAbilities"
    BY InRegistry
  <2>2. Registered("CLIENT_BOUND", "PLAY", 57) = {"PlayerAbilities"}
    BY <2>1, RegisteredIs
  <2> QED
    BY <2>2 DEF Find
<1> QED
  BY <1>1, <1>2, <1>3, <1>4, <1>5, <1>6, <1>7, <1>8 DEF DueToPeer, Joins, IdOf

LEMMA GreetingFound ==
  /\ Find("SERVER_BOUND", "HANDSHAKE", 0) = {"Handshake"}
  /\ Find("CLIENT_BOUND", "LOGIN", 2) = {"LoginSuccess"}
<1>1. Find("SERVER_BOUND", "HANDSHAKE", 0) = {"Handshake"}
  <2>1. \A other : Entry("SERVER_BOUND", "HANDSHAKE", 0, other) \in Registry <=> other = "Handshake"
    BY InRegistry
  <2>2. Registered("SERVER_BOUND", "HANDSHAKE", 0) = {"Handshake"}
    BY <2>1, RegisteredIs
  <2> QED
    BY <2>2 DEF Find
<1>2. Find("CLIENT_BOUND", "LOGIN", 2) = {"LoginSuccess"}
  <2>1. \A other : Entry("CLIENT_BOUND", "LOGIN", 2, other) \in Registry <=> other = "LoginSuccess"
    BY InRegistry
  <2>2. Registered("CLIENT_BOUND", "LOGIN", 2) = {"LoginSuccess"}
    BY <2>1, RegisteredIs
  <2> QED
    BY <2>2 DEF Find
<1> QED
  BY <1>1, <1>2

\* What the gateway reads next it finds as what it is.
LEMMA HeadFound ==
  ASSUME Inv, Apart, toGateway # <<>>
  PROVE  /\ Find("SERVER_BOUND", state, Head(toGateway).id) = {Head(toGateway).class} \ {"Other"}
         /\ state = "HANDSHAKE" => Head(toGateway).class = "Handshake"
         /\ state # "HANDSHAKE" => peerState = state /\ DueToGateway(state, Head(toGateway))
<1>1. Head(toGateway) = toGateway[1] /\ 1 \in 1 .. Len(toGateway)
  BY HeadIs
<1>2. CASE state = "HANDSHAKE"
  <2>1. Head(toGateway).class = "Handshake" /\ Head(toGateway).id = 0
    BY <1>1, <1>2 DEF Apart, FromPeer, Inv, Coming, Opening
  <2> QED
    BY <1>2, <2>1, GreetingFound
<1>3. CASE state # "HANDSHAKE"
  <2>1. peerState = state
    BY <1>3 DEF Apart, GatewayAt, FromPeer
  <2>2. DueToGateway(state, Head(toGateway))
    BY <1>1, <1>3, <2>1 DEF Apart, FromPeer, Inv, Coming
  <2> QED
    BY <1>3, <2>1, <2>2, GatewayFinds
<1> QED
  BY <1>2, <1>3

LEMMA ClassReceived ==
  ASSUME Inv, Apart, NEW class, Receives(class)
  PROVE  /\ Head(toGateway).class = class
         /\ class # "Handshake" => peerState = state /\ DueToGateway(state, Head(toGateway))
         /\ class = "Handshake" => state = "HANDSHAKE"
<1>1. toGateway # <<>> /\ class \in Find("SERVER_BOUND", state, Head(toGateway).id)
  BY DEF Receives
<1>2. Head(toGateway).class = class
  BY <1>1, HeadFound
<1>3. class = "Handshake" => state = "HANDSHAKE"
  BY <1>1, FoundByGateway
<1> QED
  BY <1>1, <1>2, <1>3, HeadFound

(* A packet is read, and the gateway stays in the state it is in. *)
LEMMA TakeApart ==
  ASSUME Inv, Apart, toGateway # <<>>, toGateway' = Tail(toGateway),
         state # "HANDSHAKE", UNCHANGED <<state, loopback, todo, watching, peerState, wants>>
  PROVE  GatewayAt' /\ FromPeer' /\ (toPeer' = toPeer => Apart')
<1>1. /\ Len(toGateway') = Len(toGateway) - 1 /\ Len(toGateway) \in Nat
      /\ \A i \in 1 .. Len(toGateway') : toGateway'[i] = toGateway[i + 1]
  BY TailIs DEF Inv, Streams
<1>2. \A i \in 1 .. Len(toGateway') : i + 1 \in 1 .. Len(toGateway)
  BY <1>1
<1>3. GatewayAt'
  BY DEF Apart, GatewayAt
<1>4. FromPeer'
  <2>1. ~(state = "PLAY" /\ peerState = "LOGIN")
    BY DEF Apart, FromPeer
  <2> QED
    BY <1>1, <1>2, <2>1 DEF Apart, FromPeer
<1>5. ASSUME toPeer' = toPeer PROVE Apart'
  <2>1. PeerAt'
    BY <1>5 DEF Apart, PeerAt
  <2>2. OneLoginStart'
    <3>1. \A i, j \in 1 .. Len(toGateway') : i + 1 = j + 1 => i = j
      BY <1>1
    <3> QED
      BY <1>1, <1>2, <1>5, <3>1 DEF Apart, OneLoginStart
  <2>3. FromGateway'
    BY <1>5 DEF Apart, FromGateway
  <2> QED
    BY <1>3, <1>4, <2>1, <2>2, <2>3 DEF Apart
<1> QED
  BY <1>3, <1>4, <1>5

(* The gateway sends a packet that the peer is to read in the gateway's state. *)
LEMMA SendApart ==
  ASSUME Inv, Apart, NEW m, toPeer' = Append(toPeer, m), state' = state,
         UNCHANGED <<peerState, wants, loopback>>,
         DueToPeer(state, m), loopback => state # "LOGIN"
  PROVE  PeerAt' /\ FromGateway'
<1>1. /\ Len(toPeer) \in Nat /\ toPeer' # <<>>
      /\ Len(toPeer') = Len(toPeer) + 1 /\ toPeer'[Len(toPeer) + 1] = m
      /\ \A i \in 1 .. Len(toPeer) : toPeer'[i] = toPeer[i]
  BY AppendIs DEF Inv, Streams
<1>2. \A i \in 1 .. Len(toPeer') : i = Len(toPeer) + 1 \/ i \in 1 .. Len(toPeer)
  BY <1>1
<1>3. state # "HANDSHAKE" /\ peerState # "HANDSHAKE"
  BY DEF DueToPeer, Apart, GatewayAt
<1>4. PeerAt'
  BY <1>3 DEF Apart, PeerAt
<1>5. FromGateway'
  <2>1. peerState = state => \A i \in 1 .. Len(toPeer') : DueToPeer(state, toPeer'[i])
    BY <1>1, <1>2 DEF Apart, FromGateway
  <2>2. ASSUME peerState = "LOGIN", state = "PLAY"
        PROVE  /\ toPeer'[1].class = "LoginSuccess" /\ toPeer'[1].id = 2
               /\ \A i \in 2 .. Len(toPeer') : DueToPeer("PLAY", toPeer'[i])
    <3>1. 1 \in 1 .. Len(toPeer)
      BY <1>1, <2>2, TailIs DEF Apart, FromGateway, Inv, Streams
    <3>2. \A i \in 2 .. Len(toPeer') : i = Len(toPeer) + 1 \/ i \in 2 .. Len(toPeer)
      BY <1>1
    <3>3. \A i \in 2 .. Len(toPeer) : i \in 1 .. Len(toPeer)
      BY <1>1
    <3> QED
      BY <1>1, <2>2, <3>1, <3>2, <3>3 DEF Apart, FromGateway
  <2> QED
    BY <1>1, <2>1, <2>2 DEF FromGateway
<1> QED
  BY <1>4, <1>5

LEMMA IgnoreApart == ASSUME Inv, Apart, Ignore PROVE Apart'
<1>1. toGateway # <<>> /\ state # "HANDSHAKE"
  BY HeadFound DEF Ignore
<1> QED
  BY <1>1, TakeApart DEF Ignore, gateway, peer

LEMMA NothingApart == ASSUME Inv, Apart, Nothing PROVE Apart'
<1>1. toGateway # <<>> /\ state # "HANDSHAKE" /\ toGateway' = Tail(toGateway)
  BY ReceivesAfter DEF Nothing, Receives
<1> QED
  BY <1>1, TakeApart DEF Nothing, gateway, peer

(* The two answers in STATUS. *)
LEMMA StatusApart ==
  ASSUME Inv, Apart, NEW m, toPeer' = Append(toPeer, m), DueToPeer("STATUS", m),
         Receives(m.class), UNCHANGED <<gateway, peer>>
  PROVE  Apart'
<1>1. toGateway # <<>> /\ toGateway' = Tail(toGateway)
  BY DEF Receives
<1>2. state = "STATUS" /\ peerState = state
  BY ClassReceived DEF DueToGateway, DueToPeer
<1>3. GatewayAt' /\ FromPeer'
  BY <1>1, <1>2, TakeApart DEF gateway, peer
<1>4. PeerAt' /\ FromGateway'
  BY <1>2, SendApart DEF DueToPeer, gateway, peer
<1>5. OneLoginStart'
  BY <1>2 DEF OneLoginStart, peer
<1> QED
  BY <1>3, <1>4, <1>5 DEF Apart

LEMMA PingBackApart == ASSUME Inv, Apart, PingBack PROVE Apart'
<1> DEFINE m == Packet("Ping", Received("Ping"))
<1>1. DueToPeer("STATUS", m) /\ m.class = "Ping"
  BY DEF Packet, IdOf, DueToPeer
<1>2. toPeer' = Append(toPeer, m) /\ Receives(m.class) /\ UNCHANGED <<gateway, peer>>
  BY <1>1 DEF PingBack
<1> HIDE DEF m
<1> QED
  BY <1>1, <1>2, StatusApart

LEMMA StatusRequestApart == ASSUME Inv, Apart, StatusRequest PROVE Apart'
<1>1. PICK fields : toPeer' = Append(toPeer, Packet("ServerStatus", fields))
  BY DEF StatusRequest, Send
<1> DEFINE m == Packet("ServerStatus", fields)
<1>2. DueToPeer("STATUS", m) /\ m.class = "ServerStatus"
  BY DEF Packet, IdOf, DueToPeer
<1>3. toPeer' = Append(toPeer, m) /\ Receives(m.class) /\ UNCHANGED <<gateway, peer>>
  BY <1>1, <1>2 DEF StatusRequest
<1> HIDE DEF m
<1> QED
  BY <1>2, <1>3, StatusApart

(* The gateway follows the peer's greeting, and what came behind it is due. *)
LEMMA HandshakeApart == ASSUME Inv, Apart, Handshake PROVE Apart'
<1>1. toGateway # <<>> /\ toGateway' = Tail(toGateway) /\ todo = <<>> /\ state = "HANDSHAKE"
  BY ClassReceived DEF Handshake, Receives
<1>2. /\ Head(toGateway) = toGateway[1] /\ 1 \in 1 .. Len(toGateway)
      /\ Len(toGateway') = Len(toGateway) - 1 /\ Len(toGateway) \in Nat
      /\ \A i \in 1 .. Len(toGateway') : toGateway'[i] = toGateway[i + 1]
  BY <1>1, TailIs DEF Inv, Streams
<1>3. toGateway[1].class = "Handshake" /\ Opening(toGateway[1]) /\ toGateway[1].body[4] = peerState
  BY <1>1, <1>2 DEF Apart, FromPeer, Inv, Coming
<1>4. state' = peerState /\ peerState \in {"STATUS", "LOGIN"}
  BY <1>2, <1>3, HandshakeReads DEF Handshake, Received, Opening
<1>5. UNCHANGED <<loopback, username, todo, watching, peer, toPeer>> /\ toPeer = <<>>
  BY <1>1 DEF Handshake, Apart, GatewayAt
<1>6. \A i \in 1 .. Len(toGateway') :
        i + 1 \in 1 .. Len(toGateway) /\ i + 1 # 1 /\ toGateway'[i].class # "Handshake"
  BY <1>1, <1>2 DEF Inv, Coming
<1>7. PeerAt' /\ FromGateway'
  BY <1>4, <1>5 DEF Apart, PeerAt, FromGateway, peer
<1>8. GatewayAt'
  BY <1>1, <1>4, <1>5 DEF Apart, GatewayAt, peer
<1>9. FromPeer'
  BY <1>2, <1>4, <1>5, <1>6 DEF Apart, FromPeer, peer
<1>10. OneLoginStart'
  <2>1. wants # <<"LoginStart">> \/ Len(toGateway') = 0 \/ peerState # "LOGIN"
    BY <1>2, <1>6 DEF Apart, OneLoginStart
  <2>2. \A i, j \in 1 .. Len(toGateway') : i + 1 = j + 1 => i = j
    BY <1>2
  <2> QED
    BY <1>1, <1>2, <1>4, <1>5, <1>6, <2>1, <2>2 DEF Apart, OneLoginStart, peer
<1> QED
  BY <1>7, <1>8, <1>9, <1>10 DEF Apart

(* The one LoginStart is taken: nothing is under way to the gateway any more. *)
LEMMA LoginStartApart == ASSUME Inv, Apart, LoginStart PROVE Apart'
<1>1. /\ Receives("LoginStart") /\ toGateway # <<>> /\ toGateway' = Tail(toGateway)
      /\ todo = <<>> /\ UNCHANGED <<state, loopback, watching, peer>>
  BY DEF LoginStart, Receives
<1>2. /\ Head(toGateway).class = "LoginStart" /\ peerState = state /\ state = "LOGIN"
      /\ Head(toGateway) = toGateway[1] /\ 1 \in 1 .. Len(toGateway)
  BY <1>1, ClassReceived, HeadIs DEF DueToGateway
<1>3. \A i \in 1 .. Len(toGateway) : toGateway[i].class = "LoginStart"
  BY <1>2 DEF Apart, FromPeer, Inv, Coming, DueToGateway
<1>4. toGateway' = <<>> /\ wants # <<"LoginStart">>
  <2>1. Len(toGateway) \in Nat /\ \A i \in 1 .. Len(toGateway) : i = 1
    BY <1>1, <1>2, <1>3, TailIs DEF Apart, OneLoginStart, Inv, Streams
  <2>2. Len(toGateway) = 1
    <3>1. Len(toGateway) \in 1 .. Len(toGateway)
      BY <1>2, <2>1
    <3> QED
      BY <2>1, <3>1
  <2>3. IsSeq(toGateway') /\ Len(toGateway') = 0
    BY <1>1, <2>2, TailIs DEF Inv, Streams
  <2>4. toGateway' = <<>>
    BY <2>3 DEF IsSeq
  <2> QED
    BY <1>2, <2>4 DEF Apart, OneLoginStart
<1>5. wants = <<>> /\ wants' = <<>> /\ peerState' = "LOGIN" /\ state' = "LOGIN"
  BY <1>1, <1>2, <1>4 DEF Apart, PeerAt, peer
<1>6. FromPeer' /\ OneLoginStart'
  <2>1. Len(toGateway') = 0
    BY <1>4
  <2> QED
    BY <1>4, <1>5, <2>1 DEF FromPeer, OneLoginStart
<1>7. CASE loopback
  <2>1. todo' = <<"LoginSuccess", "JoinGame", "SpawnPosition", "PositionAndLook",
                  "PlayerAbilities">> /\ toPeer' = toPeer
    BY <1>7 DEF LoginStart
  <2>2. Len(todo') = 5 /\ todo'[1] = "LoginSuccess" /\
        \A i \in 2 .. 5 : todo'[i] # "LoginSuccess"
    BY <2>1
  <2>3. GatewayAt'
    BY <1>1, <1>2, <1>5, <1>7, <2>2 DEF Apart, GatewayAt
  <2>4. PeerAt' /\ FromGateway'
    BY <1>1, <1>2, <1>5, <2>1 DEF Apart, PeerAt, FromGateway, peer
  <2> QED
    BY <1>6, <2>3, <2>4 DEF Apart
<1>8. CASE ~loopback
  <2>1. PICK fields \in Made("Encryption") :
          toPeer' = Append(toPeer, Packet("Encryption", fields))
    BY <1>8 DEF LoginStart, SendNew, Send
  <2>2. DueToPeer(state, Packet("Encryption", fields))
    BY <1>2 DEF DueToPeer, Packet, IdOf
  <2>3. todo' = todo
    BY <1>8 DEF LoginStart
  <2>4. PeerAt' /\ FromGateway'
    BY <1>1, <1>8, <2>1, <2>2, SendApart DEF peer
  <2>5. GatewayAt'
    BY <1>1, <1>2, <1>5, <2>3 DEF Apart, GatewayAt
  <2> QED
    BY <1>6, <2>4, <2>5 DEF Apart
<1> QED
  BY <1>7, <1>8

LEMMA SetFlagApart == ASSUME Inv, Apart, SetFlag PROVE Apart'
<1>1. UNCHANGED <<gateway, peer, toPeer, toGateway>>
  BY DEF SetFlag
<1> QED
  BY <1>1 DEF Apart, PeerAt, GatewayAt, FromPeer, OneLoginStart, FromGateway, gateway, peer

(* The gateway is in PLAY from here, the peer once it has read this packet. *)
LEMMA onPlayerLoginApart == ASSUME Inv, Apart, onPlayerLogin PROVE Apart'
<1>1. /\ todo # <<>> /\ Head(todo) = "LoginSuccess" /\ todo' = Tail(todo) /\ state' = "PLAY"
      /\ UNCHANGED <<loopback, peer, toGateway>>
  BY DEF onPlayerLogin
<1>2. /\ IsSeq(todo) /\ Len(todo) \in Nat \ {0} /\ todo[1] = "LoginSuccess"
      /\ Len(todo') = Len(todo) - 1 /\ \A i \in 1 .. Len(todo') : todo'[i] = todo[i + 1]
  BY <1>1, TailIs DEF Inv, Streams, IsSeq
<1>3. state = "LOGIN" /\ peerState = "LOGIN" /\ loopback
  <2>1. state # "PLAY"
    BY <1>2 DEF Apart, GatewayAt
  <2> QED
    BY <1>1, <2>1 DEF Inv, Phases, Apart, GatewayAt
<1>4. toPeer = <<>> /\ toGateway = <<>> /\ wants = <<>>
  BY <1>1, <1>3 DEF Apart, FromGateway, OneLoginStart
<1>5. PICK fields \in Made("LoginSuccess") :
        toPeer' = Append(toPeer, Packet("LoginSuccess", fields))
  BY DEF onPlayerLogin, SendNew, Send
<1> DEFINE m == Packet("LoginSuccess", fields)
<1>6. m.class = "LoginSuccess" /\ m.id = 2
  BY DEF Packet, IdOf
<1>7. Len(toPeer') = 1 /\ toPeer'[1] = m /\ toPeer' # <<>>
  BY <1>4, <1>5, AppendIs DEF Inv, Streams
<1> HIDE DEF m
<1>8. FromGateway'
  <2>1. peerState' = "LOGIN" /\ \A i \in 2 .. Len(toPeer') : FALSE
    BY <1>1, <1>3, <1>7 DEF peer
  <2> QED
    BY <1>1, <1>6, <1>7, <2>1 DEF FromGateway
<1>9. GatewayAt'
  <2>1. \A i \in 1 .. Len(todo') : i + 1 \in 2 .. Len(todo)
    BY <1>2
  <2>2. \A i \in 1 .. Len(todo') : todo'[i] # "LoginSuccess"
    BY <1>1, <1>2, <1>3, <2>1 DEF Apart, GatewayAt
  <2> QED
    BY <1>1, <1>3, <2>2 DEF GatewayAt, peer
<1>10. PeerAt' /\ FromPeer' /\ OneLoginStart'
  BY <1>1, <1>3, <1>4 DEF Apart, PeerAt, FromPeer, OneLoginStart, peer
<1> QED
  BY <1>8, <1>9, <1>10 DEF Apart

(* In PLAY the gateway sends the packets of PLAY behind LoginSuccess. *)
LEMMA PlayApart ==
  ASSUME Inv, Apart, state = "PLAY", NEW m, toPeer' = Append(toPeer, m), DueToPeer("PLAY", m),
         UNCHANGED <<state, loopback, watching, peer, toGateway>>,
         \A i \in 1 .. Len(todo') : todo'[i] # "LoginSuccess"
  PROVE  Apart'
<1>1. PeerAt' /\ FromGateway'
  BY SendApart DEF peer
<1>2. GatewayAt'
  BY DEF Apart, GatewayAt, peer
<1>3. FromPeer'
  BY DEF Apart, FromPeer, peer
<1>4. OneLoginStart'
  BY DEF Apart, OneLoginStart, peer
<1> QED
  BY <1>1, <1>2, <1>3, <1>4 DEF Apart

LEMMA addClientApart == ASSUME Inv, Apart, addClient PROVE Apart'
<1>1. todo # <<>> /\ todo' = Tail(todo) /\ Head(todo) \in Joins \ {"LoginSuccess"}
  BY DEF addClient, Inv, Streams
<1>2. /\ IsSeq(todo) /\ Len(todo) \in Nat \ {0} /\ todo[1] = Head(todo)
      /\ Len(todo') = Len(todo) - 1 /\ \A i \in 1 .. Len(todo') : todo'[i] = todo[i + 1]
  BY <1>1, TailIs DEF Inv, Streams, IsSeq
<1>3. state = "PLAY"
  BY <1>1, <1>2 DEF Inv, Phases, Apart, GatewayAt
<1> DEFINE class == Head(todo)
<1>4. PICK fields \in Made(class) : toPeer' = Append(toPeer, Packet(class, fields))
  BY DEF addClient, SendNew, Send
<1>5. DueToPeer("PLAY", Packet(class, fields))
  BY <1>1 DEF DueToPeer, Packet
<1>6. \A i \in 1 .. Len(todo') : todo'[i] # "LoginSuccess"
  <2>1. \A i \in 1 .. Len(todo') : i + 1 \in 1 .. Len(todo)
    BY <1>2
  <2> QED
    BY <1>2, <1>3, <2>1 DEF Apart, GatewayAt
<1>7. UNCHANGED <<state, loopback, watching, peer, toGateway>>
  BY DEF addClient
<1> QED
  BY <1>3, <1>4, <1>5, <1>6, <1>7, PlayApart

LEMMA keepAliveApart == ASSUME Inv, Apart, keepAlive PROVE Apart'
<1>1. state = "PLAY"
  BY DEF keepAlive, Apart, GatewayAt
<1>2. PICK fields \in Made("KeepAlive") :
        toPeer' = Append(toPeer, Packet("KeepAlive", fields))
  BY DEF keepAlive, SendNew, Send
<1>3. DueToPeer("PLAY", Packet("KeepAlive", fields))
  BY DEF DueToPeer, Packet, IdOf
<1>4. UNCHANGED <<gateway, peer, toGateway>>
  BY DEF keepAlive
<1>5. \A i \in 1 .. Len(todo') : todo'[i] # "LoginSuccess"
  BY <1>1, <1>4 DEF Apart, GatewayAt, gateway
<1> QED
  BY <1>1, <1>2, <1>3, <1>4, <1>5, PlayApart DEF gateway

-----------------------------------------------------------------------------
(* The peer's steps. *)

(* A packet that the peer's own state calls for. *)
LEMMA SayApart ==
  ASSUME Inv, Apart, NEW m, toGateway' = Append(toGateway, m), DueToGateway(peerState, m),
         UNCHANGED <<gateway, peerState, toPeer>>, wants' = <<>>, wants # <<"Handshake">>,
         peerState = "LOGIN" => wants = <<"LoginStart">>
  PROVE  Apart'
<1>1. /\ Len(toGateway) \in Nat /\ toGateway' # <<>>
      /\ Len(toGateway') = Len(toGateway) + 1 /\ toGateway'[Len(toGateway) + 1] = m
      /\ \A i \in 1 .. Len(toGateway) : toGateway'[i] = toGateway[i]
  BY AppendIs DEF Inv, Streams
<1>2. \A i \in 1 .. Len(toGateway') : i = Len(toGateway) + 1 \/ i \in 1 .. Len(toGateway)
  BY <1>1
<1>3. m.class # "Handshake"
  BY DEF DueToGateway
<1>4. PeerAt'
  BY DEF Apart, PeerAt
<1>5. GatewayAt' /\ FromGateway'
  BY DEF Apart, GatewayAt, FromGateway, gateway
<1>6. peerState = "LOGIN" => state # "PLAY" /\ todo = <<>> /\ toPeer = <<>>
  <2>1. wants = <<"LoginStart">> => wants # <<>>
    OBVIOUS
  <2> QED
    BY <2>1 DEF Apart, OneLoginStart
<1>7. FromPeer'
  <2>1. state = "HANDSHAKE" =>
          toGateway'[1].class = "Handshake" /\ toGateway'[1].body[4] = peerState
    <3>1. state = "HANDSHAKE" => toGateway # <<>>
      BY DEF Inv, Greeting
    <3>2. toGateway # <<>> => 1 \in 1 .. Len(toGateway)
      BY HeadIs
    <3> QED
      BY <1>1, <3>1, <3>2 DEF Apart, FromPeer
  <2> QED
    BY <1>1, <1>2, <1>6, <2>1 DEF Apart, FromPeer, gateway
<1>8. OneLoginStart'
  <2>1. peerState = "LOGIN" =>
          \A i \in 1 .. Len(toGateway) : toGateway'[i].class = "Handshake"
    BY <1>1 DEF Apart, OneLoginStart
  <2>2. ASSUME peerState = "LOGIN",
               NEW i \in 1 .. Len(toGateway'), NEW j \in 1 .. Len(toGateway'),
               toGateway'[i].class = "LoginStart", toGateway'[j].class = "LoginStart"
        PROVE  i = j
    BY <1>2, <2>1, <2>2
  <2> QED
    BY <1>6, <2>2 DEF OneLoginStart, gateway
<1> QED
  BY <1>4, <1>5, <1>7, <1>8 DEF Apart

LEMMA HelloApart == ASSUME Inv, Apart, Hello PROVE Apart'
<1> PICK next \in {"STATUS", "LOGIN"} :
         /\ Say("Handshake", 0, [protocolVersion |-> 47, serverAddress |-> 9,
                                 serverPort |-> 25565, requestedNextState |-> next])
         /\ peerState' = next
         /\ wants' = IF next = "LOGIN" THEN <<"LoginStart">> ELSE <<"ServerStatus">>
  BY DEF Hello
<1> DEFINE fields == [protocolVersion |-> 47, serverAddress |-> 9,
                      serverPort |-> 25565, requestedNextState |-> next]
           m == PeerPacket("Handshake", 0, fields)
<1>1. /\ wants = <<"Handshake">> /\ toGateway = <<>> /\ state = "HANDSHAKE"
      /\ UNCHANGED <<gateway, toPeer>>
  BY DEF Hello, Inv, Greeting
<1>2. toGateway' = Append(toGateway, m) /\ m.class = "Handshake"
  BY SaidIs
<1>3. m.body[4] = next
  <2>1. m.body = Body(fields, <<"protocolVersion", "serverAddress", "serverPort",
                                "requestedNextState">>)
    BY SaidIs DEF Kept
  <2> QED
    BY <2>1 DEF Body, Encode
<1> HIDE DEF m
<1>4. Len(toGateway') = 1 /\ toGateway'[1] = m
  BY <1>1, <1>2, AppendIs DEF Inv, Streams
<1>5. toPeer = <<>> /\ todo = <<>>
  BY <1>1 DEF Inv, Phases, Apart, GatewayAt
<1>6. PeerAt'
  BY DEF PeerAt
<1>7. GatewayAt' /\ FromGateway'
  BY <1>1, <1>5 DEF Apart, GatewayAt, FromGateway, gateway
<1>8. FromPeer'
  BY <1>1, <1>2, <1>3, <1>4 DEF FromPeer, gateway
<1>9. OneLoginStart'
  BY <1>1, <1>2, <1>4, <1>5 DEF OneLoginStart, gateway
<1> QED
  BY <1>6, <1>7, <1>8, <1>9 DEF Apart

LEMMA AskApart == ASSUME Inv, Apart, Ask PROVE Apart'
<1>1. /\ wants # <<"Handshake">> /\ wants # <<>> /\ wants' = <<>>
      /\ UNCHANGED <<gateway, peerState, toPeer>>
  BY DEF Ask
<1>2. CASE wants = <<"ServerStatus">> /\ Say("ServerStatus", 0, <<>>)
  <2>1. peerState = "STATUS"
    BY <1>2 DEF Apart, PeerAt, Inv, Types, States
  <2>2. PICK m : toGateway' = Append(toGateway, m) /\ m.class = "ServerStatus" /\ m.id = 0
    BY <1>2, SaidIs
  <2> QED
    BY <1>1, <2>1, <2>2, SayApart DEF DueToGateway
<1>3. ASSUME wants = <<"LoginStart">>, NEW n \in Names, Say("LoginStart", 0, [playerName |-> n])
      PROVE  Apart'
  <2>1. peerState = "LOGIN"
    BY <1>3 DEF Apart, PeerAt, Inv, Types, States
  <2>2. PICK m : toGateway' = Append(toGateway, m) /\ m.class = "LoginStart" /\ m.id = 0
    BY <1>3, SaidIs
  <2> QED
    BY <1>1, <1>3, <2>1, <2>2, SayApart DEF DueToGateway
<1> QED
  BY <1>2, <1>3 DEF Ask

LEMMA ChatterApart == ASSUME Inv, Apart, Chatter PROVE Apart'
<1>1. /\ wants = <<>> /\ wants' = <<>> /\ wants # <<"Handshake">>
      /\ UNCHANGED <<gateway, peerState, toPeer>>
  BY DEF Chatter
<1>2. PICK m : toGateway' = Append(toGateway, m) /\ DueToGateway(peerState, m)
  <2>1. ASSUME NEW e \in Epochs, Say("Ping", 1, [unixEpoch |-> e]), peerState = "STATUS"
        PROVE  \E m : toGateway' = Append(toGateway, m) /\ DueToGateway(peerState, m)
    BY <2>1, SaidIs DEF DueToGateway
  <2>2. ASSUME Say("ChatMessage", 1, [jsonChatData |-> 30]), peerState = "PLAY"
        PROVE  \E m : toGateway' = Append(toGateway, m) /\ DueToGateway(peerState, m)
    BY <2>2, SaidIs DEF DueToGateway
  <2>3. ASSUME NEW id \in Others, Say("Other", id, <<>>), peerState = "PLAY"
        PROVE  \E m : toGateway' = Append(toGateway, m) /\ DueToGateway(peerState, m)
    BY <2>3 DEF DueToGateway, Say, PeerPacket
  <2> QED
    BY <2>1, <2>2, <2>3 DEF Chatter
<1>3. peerState # "LOGIN"
  BY DEF Chatter
<1> QED
  BY <1>1, <1>2, <1>3, SayApart

(* The peer follows the gateway into PLAY when it has read LoginSuccess, and
   answers a keep-alive, which reaches it in PLAY only. *)
LEMMA PeerReceivesApart == ASSUME Inv, Apart, PeerReceives PROVE Apart'
<1> DEFINE m == Head(toPeer)
           found == Find("CLIENT_BOUND", peerState, m.id)
<1>1. /\ toPeer # <<>> /\ toPeer' = Tail(toPeer)
      /\ peerState' = IF "LoginSuccess" \in found THEN "PLAY" ELSE peerState
      /\ IF "KeepAlive" \in found
         THEN Say("KeepAlive", 0, Decode("KeepAlive", "CLIENT_BOUND", m.body))
         ELSE UNCHANGED toGateway
      /\ wants' = wants /\ UNCHANGED gateway
  BY DEF PeerReceives
<1>2. /\ Len(toPeer) \in Nat \ {0} /\ Len(toPeer') = Len(toPeer) - 1
      /\ m = toPeer[1] /\ 1 \in 1 .. Len(toPeer)
      /\ \A i \in 1 .. Len(toPeer') : toPeer'[i] = toPeer[i + 1]
  BY <1>1, TailIs DEF Inv, Streams
<1>3. \A i \in 1 .. Len(toPeer') : i + 1 \in 1 .. Len(toPeer) /\ i + 1 \in 2 .. Len(toPeer)
  BY <1>2
<1>4. peerState # "HANDSHAKE" /\ wants # <<"Handshake">> /\ state # "HANDSHAKE"
  BY <1>1 DEF Apart, PeerAt, GatewayAt
\* The peer was told of the login.
<1>5. CASE peerState = "LOGIN" /\ state = "PLAY"
  <2>1. found = {"LoginSuccess"}
    BY <1>1, <1>2, <1>5, GreetingFound DEF Apart, FromGateway
  <2>2. peerState' = "PLAY" /\ toGateway' = toGateway
    BY <1>1, <2>1
  <2>3. wants = <<>> /\ toGateway = <<>>
    BY <1>5 DEF Apart, OneLoginStart
  <2>4. \A i \in 1 .. Len(toPeer') : DueToPeer("PLAY", toPeer'[i])
    BY <1>2, <1>3, <1>5 DEF Apart, FromGateway
  <2>5. FromGateway'
    BY <1>1, <1>5, <2>2, <2>4 DEF FromGateway, gateway
  <2>6. PeerAt' /\ OneLoginStart'
    BY <1>1, <2>2, <2>3 DEF PeerAt, OneLoginStart
  <2>7. GatewayAt'
    BY <1>1, <1>5, <2>2 DEF Apart, GatewayAt, gateway
  <2>8. FromPeer'
    BY <1>1, <1>5, <2>2, <2>3 DEF FromPeer, gateway
  <2> QED
    BY <2>5, <2>6, <2>7, <2>8 DEF Apart
\* Both ends are in one state.
<1>6. CASE peerState = state
  <2>1. DueToPeer(state, m)
    BY <1>2, <1>6 DEF Apart, FromGateway
  <2>2. found = {m.class}
    BY <1>6, <2>1, PeerFinds
  <2>3. m.class # "LoginSuccess" /\ (m.class = "KeepAlive" => state = "PLAY")
    BY <2>1 DEF DueToPeer
  <2>4. peerState' = peerState
    BY <1>1, <2>2, <2>3
  <2>5. PeerAt'
    BY <1>1, <1>4, <2>4 DEF Apart, PeerAt
  <2>6. GatewayAt'
    BY <1>1, <1>4, <2>4 DEF Apart, GatewayAt, gateway
  <2>7. FromGateway'
    <3>1. \A i \in 1 .. Len(toPeer') : DueToPeer(state, toPeer'[i])
      BY <1>2, <1>3, <1>6 DEF Apart, FromGateway
    <3>2. peerState = "LOGIN" /\ state = "LOGIN" => ~loopback
      BY <1>1 DEF Apart, FromGateway
    <3> QED
      BY <1>1, <1>6, <2>4, <3>1, <3>2 DEF FromGateway, gateway
  <2>8. FromPeer' /\ OneLoginStart'
    <3>1. CASE m.class # "KeepAlive"
      <4>1. toGateway' = toGateway
        BY <1>1, <2>2, <3>1
      <4>2. peerState = "LOGIN" => wants = <<>> /\ toGateway = <<>>
        BY <1>1 DEF Apart, OneLoginStart
      <4>3. FromPeer'
        BY <1>1, <2>4, <4>1 DEF Apart, FromPeer, gateway
      <4>4. OneLoginStart'
        BY <1>1, <2>4, <4>1, <4>2 DEF OneLoginStart, gateway
      <4> QED
        BY <4>3, <4>4
    <3>2. CASE m.class = "KeepAlive"
      <4>1. peerState = "PLAY" /\ state = "PLAY"
        BY <1>6, <2>3, <3>2
      <4>2. PICK a : toGateway' = Append(toGateway, a) /\ a.class = "KeepAlive" /\ a.id = 0
        BY <1>1, <2>2, <3>2, SaidIs
      <4>3. /\ Len(toGateway) \in Nat
            /\ Len(toGateway') = Len(toGateway) + 1 /\ toGateway'[Len(toGateway) + 1] = a
            /\ \A i \in 1 .. Len(toGateway) : toGateway'[i] = toGateway[i]
        BY <4>2, AppendIs DEF Inv, Streams
      <4>4. \A i \in 1 .. Len(toGateway') : i = Len(toGateway) + 1 \/ i \in 1 .. Len(toGateway)
        BY <4>3
      <4>5. \A i \in 1 .. Len(toGateway') :
              toGateway'[i].class # "Handshake" => DueToGateway("PLAY", toGateway'[i])
        BY <4>1, <4>2, <4>3, <4>4 DEF Apart, FromPeer, DueToGateway
      <4> QED
        BY <1>1, <2>4, <4>1, <4>5 DEF FromPeer, OneLoginStart, gateway
    <3> QED
      BY <3>1, <3>2
  <2> QED
    BY <2>5, <2>6, <2>7, <2>8 DEF Apart
<1> QED
  BY <1>4, <1>5, <1>6 DEF Apart, GatewayAt

LEMMA InitApart == Init => Apart
<1> SUFFICES ASSUME Init PROVE Apart
  OBVIOUS
<1>1. Len(toGateway) = 0 /\ Len(toPeer) = 0 /\ Len(todo) = 0
  BY DEF Init
<1>2. PeerAt /\ GatewayAt
  BY <1>1 DEF Init, PeerAt, GatewayAt
<1>3. FromPeer /\ OneLoginStart /\ FromGateway
  BY <1>1 DEF Init, FromPeer, OneLoginStart, FromGateway
<1> QED
  BY <1>2, <1>3 DEF Apart

LEMMA NextApart == Inv /\ Apart /\ [Next]_vars => Apart'
<1> SUFFICES ASSUME Inv, Apart, [Next]_vars PROVE Apart'
  OBVIOUS
<1>1. CASE Next
  BY <1>1, IgnoreApart, PingBackApart, HandshakeApart, StatusRequestApart,
     LoginStartApart, NothingApart, SetFlagApart, onPlayerLoginApart, addClientApart,
     keepAliveApart, HelloApart, AskApart, ChatterApart, PeerReceivesApart
     DEF Next, Gateway
<1>2. CASE UNCHANGED vars
  BY <1>2 DEF Apart, PeerAt, GatewayAt, FromPeer, OneLoginStart, FromGateway,
     vars, gateway, peer
<1> QED
  BY <1>1, <1>2

(* Each end finds for the id of the packet before it, under its own side and in the
   state it is in at that moment, the class that the packet was sent as, and
   none for an id that MCPacket has not, however many packets are under way. *)
THEOREM PacketsUnderstood == Spec => []Understood
<1>1. Inv /\ Apart => Understood
  <2> SUFFICES ASSUME Inv, Apart PROVE Understood
    OBVIOUS
  <2>1. ASSUME toPeer # <<>>
        PROVE  Find("CLIENT_BOUND", peerState, Head(toPeer).id) = {Head(toPeer).class}
    <3>1. Head(toPeer) = toPeer[1] /\ 1 \in 1 .. Len(toPeer)
      BY <2>1, TailIs DEF Inv, Streams
    <3>2. CASE peerState = "LOGIN" /\ state = "PLAY"
      BY <3>1, <3>2, GreetingFound DEF Apart, FromGateway
    <3>3. CASE peerState = state
      <4>1. DueToPeer(peerState, Head(toPeer))
        BY <3>1, <3>3 DEF Apart, FromGateway
      <4> QED
        BY <4>1, PeerFinds
    <3> QED
      BY <2>1, <3>2, <3>3 DEF Apart, GatewayAt
  <2>2. toGateway # <<>> =>
          Find("SERVER_BOUND", state, Head(toGateway).id) = {Head(toGateway).class} \ {"Other"}
    BY HeadFound
  <2> QED
    BY <2>1, <2>2 DEF Understood
<1> QED
  BY <1>1, InitInv, NextKeeps, InitApart, NextApart, PTL DEF Spec

-----------------------------------------------------------------------------
(* The flags of PlayerPositionAndLookPacket: of the session's steps only SetFlag
   changes them, by an assignment of BitField. *)

Flags == {"x", "y", "z"}

LEMMA LeastFlag ==
  ASSUME Flags \subseteq Fields, FlagsToSet # {}
  PROVE  \E f \in FlagsToSet : \A g \in FlagsToSet : Index[f] <= Index[g]
<1>1. Index["x"] \in Nat /\ Index["y"] \in Nat /\ Index["z"] \in Nat
  BY LayoutAssumption DEF Flags
<1>2. FlagsToSet \subseteq {"x", "y", "z"}
  BY DEF FlagsToSet
<1> SUFFICES ASSUME \A f \in FlagsToSet : \E g \in FlagsToSet : ~(Index[f] <= Index[g])
             PROVE  FALSE
  OBVIOUS
<1> DEFINE Less(f, g) == g \in FlagsToSet /\ Index[g] < Index[f]
<1>3. \A f \in FlagsToSet : Less(f, "x") \/ Less(f, "y") \/ Less(f, "z")
  <2> SUFFICES ASSUME NEW f \in FlagsToSet PROVE Less(f, "x") \/ Less(f, "y") \/ Less(f, "z")
    OBVIOUS
  <2>1. PICK g \in FlagsToSet : ~(Index[f] <= Index[g])
    OBVIOUS
  <2>2. Index[f] \in Nat /\ Index[g] \in Nat
    BY <1>1, <1>2
  <2> QED
    BY <1>2, <2>1, <2>2
<1>4. "x" \in FlagsToSet \/ "y" \in FlagsToSet \/ "z" \in FlagsToSet
  BY <1>2
<1> QED
  BY <1>1, <1>3, <1>4

LEMMA UnionSteps ==
  ASSUME Flags \subseteq Fields, {0} \in Values
  PROVE  [Next]_vars => [UnionNext]_unionVars
<1> SUFFICES ASSUME [Next]_vars PROVE UnionNext \/ UNCHANGED unionVars
  OBVIOUS
<1>1. CASE SetFlag
  <2> DEFINE f == CHOOSE f \in FlagsToSet : \A g \in FlagsToSet : Index[f] <= Index[g]
  <2>1. Assign(f, {0}) /\ FlagsToSet # {}
    BY <1>1 DEF SetFlag
  <2>2. f \in FlagsToSet
    BY <2>1, LeastFlag
  <2>3. f \in Fields
    BY <2>2 DEF FlagsToSet, Flags
  <2> HIDE DEF f
  <2> QED
    BY <2>1, <2>3 DEF UnionNext
<1> QED
  BY <1>1 DEF Next, Gateway, vars, Ignore, PingBack, Handshake, StatusRequest,
     LoginStart, Nothing, onPlayerLogin, addClient, keepAlive, Hello, Ask, Chatter,
     PeerReceives

(* Through a whole session, whatever byte the union found in memory, a flag of
   PlayerPositionAndLookPacket reads as it was set, in any layout whose fields
   end below the sign of the promoted type. *)
THEOREM FlagsKept ==
  ASSUME Narrow, Flags \subseteq Fields, {0} \in Values
  PROVE  Spec => []FieldsKept
<1>1. Init => WordOK /\ FieldsKept
  BY ValuesAssumption DEF Init, UnionInit, WordOK, FieldsKept
<1>2. WordOK /\ FieldsKept /\ [Next]_vars => (WordOK /\ FieldsKept)'
  BY UnionSteps, TypeStep, KeptStep
<1> QED
  BY <1>1, <1>2, PTL DEF Spec

(* The session stays in the protocol's states, its name one that was sent, its
   packets within their bound, and the union's word within its byte. *)
THEOREM PacketsTyped ==
  ASSUME Flags \subseteq Fields, {0} \in Values
  PROVE  Spec => []TypeOK
<1>1. Init => WordOK
  BY ValuesAssumption DEF Init, UnionInit, WordOK
<1>2. WordOK /\ [Next]_vars => WordOK'
  BY UnionSteps, TypeStep
<1>3. Inv /\ WordOK => TypeOK
  BY Zenon DEF Inv, Types, TypeOK
<1> QED
  BY <1>1, <1>2, <1>3, InitInv, NextKeeps, PTL DEF Spec
=============================================================================
