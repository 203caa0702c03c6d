------------------------------ MODULE Packets ------------------------------
(***************************************************************************)
(* A session as the packets of MCPacket see it: the gateway's Client and a   *)
(* peer exchange them over the two streams of a connection, and each end     *)
(* looks up what an id means under its side and under the state it is in at *)
(* that moment (Packet::instantiateFromData).                               *)
(*                                                                         *)
(* A packet is the names of its fields and their values. What serializePacket *)
(* writes, and what the constructor from data keeps, are sequences of names,  *)
(* so that a value goes by its place in the body, as its bytes do. A string   *)
(* is its length. Framing has the bytes of the stream, Gateway the threads,   *)
(* KeepAlive the time.                                                      *)
(***************************************************************************)
EXTENDS VarInt, BitField

CONSTANTS
  Names,     \* lengths of the names that players log in with
  Epochs,    \* what a ping carries
  Ids,       \* keepAliveId, at random: numbers of VarInt
  Others,    \* ids of packets that a peer in PLAY sends and MCPacket has not
  MaxSent    \* bound: pings, keep-alives, chat messages and others

\* A name is shorter than the 36 characters of a formatted uuid.
UuidLength == 36
ASSUME NamesAssumption ==
  Names \subseteq 1 .. UuidLength - 1 /\ Epochs \subseteq Nat /\ Ids \subseteq Number
ASSUME OthersAssumption == Others \subseteq Nat \ {0, 1} /\ MaxSent \in Nat

VARIABLES
  state,       \* Client::state
  loopback,    \* whether the peer is on this host
  username,    \* Client::requestedUsername
  todo,        \* the packets that the login in progress has still to send
  watching,    \* the keep-alive timer is set
  toPeer,      \* the packets under way, in order
  toGateway,
  peerState,   \* the peer's own notion of the state
  wants,       \* the packets that the peer has still to send in STATUS and LOGIN
  known,       \* the classes of the packets the peer has received
  sent,        \* how many packets count against MaxSent
  said, heard  \* chat messages that the peer sent and received

gateway == <<state, loopback, username, todo, watching>>
peer    == <<peerState, wants, known, said, heard>>
vars    == <<gateway, peer, toPeer, toGateway, sent, unionVars>>

-----------------------------------------------------------------------------
(* The registry. *)

Entry(side, st, id, class) == [side |-> side, state |-> st, id |-> id, class |-> class]

\* The Registrars of Packet.cpp.
Registry ==
  {Entry("SERVER_BOUND", "HANDSHAKE", 0, "Handshake"),
   Entry("BI_DIRECTIONAL", "STATUS", 0, "ServerStatus"),
   Entry("BI_DIRECTIONAL", "STATUS", 1, "Ping"),
   Entry("SERVER_BOUND", "LOGIN", 0, "LoginStart"),
   Entry("BI_DIRECTIONAL", "LOGIN", 1, "Encryption"),
   Entry("CLIENT_BOUND", "LOGIN", 2, "LoginSuccess"),
   Entry("CLIENT_BOUND", "LOGIN", 3, "SetCompression"),
   Entry("BI_DIRECTIONAL", "PLAY", 0, "KeepAlive"),
   Entry("CLIENT_BOUND", "PLAY", 1, "JoinGame"),
   Entry("CLIENT_BOUND", "PLAY", 2, "ChatMessage"),
   Entry("SERVER_BOUND", "PLAY", 1, "ChatMessage"),
   Entry("CLIENT_BOUND", "PLAY", 5, "SpawnPosition"),
   Entry("CLIENT_BOUND", "PLAY", 8, "PositionAndLook"),
   Entry("CLIENT_BOUND", "PLAY", 57, "PlayerAbilities"),
   Entry("CLIENT_BOUND", "PLAY", 70, "SetCompression")}

Registered(side, st, id) ==
  {e.class : e \in {r \in Registry : r.side = side /\ r.state = st /\ r.id = id}}

\* A faulty variant shows that the properties notice such a mistake.
FindOwnSide(side, st, id) == Registered(side, st, id)

(* instantiateFromData and instantiateNew: the key of the side, else that of both
   sides. The set of the class that is found, empty for nullptr. *)
Find(side, st, id) ==
  IF Registered(side, st, id) # {} THEN Registered(side, st, id)
  ELSE Registered("BI_DIRECTIONAL", st, id)

\* Client::getSide, the side that sendPacket serialises for.
getSide == "SERVER_BOUND"

\* The id that the constructor of a new packet sets.
IdOf(class) ==
  CASE class \in {"ServerStatus", "KeepAlive"} -> 0
    [] class \in {"Ping", "Encryption", "JoinGame"} -> 1
    [] class = "LoginSuccess" -> 2
    [] class = "SpawnPosition" -> 5
    [] class = "PositionAndLook" -> 8
    [] class = "PlayerAbilities" -> 57

-----------------------------------------------------------------------------
(* Bodies. *)

\* The fields in the order serializePacket writes them.
Written(class, side) ==
  CASE class = "ServerStatus" -> <<"json">>
    [] class = "Ping" -> <<"unixEpoch">>
    [] class = "Encryption" ->
         IF side = "CLIENT_BOUND" THEN <<"serverId", "publickKey", "clearVerifyToken">>
         ELSE <<>>
    [] class = "LoginSuccess" -> <<"uuid", "username">>
    [] class = "KeepAlive" -> <<"keepAliveId">>
    [] class = "JoinGame" ->
         <<"playerEntityId", "gamemode", "dimensionId", "difficulty",
           "maxPlayersOnPlayerList", "levelType", "reducedDebugInfo">>
    [] class = "SpawnPosition" -> <<"spawnPosition">>
    [] class = "PositionAndLook" -> <<"x", "y", "z", "yaw", "pitch", "flags">>
    [] class = "PlayerAbilities" -> <<"abilities", "flyingSpeed", "walkingSpeed">>

(* The fields in the order the constructor from data reads and keeps them. Of
   SpawnPosition, PositionAndLook and PlayerAbilities it keeps none: the value
   of readPODFromBuffer is dropped. *)
Kept(class, side) ==
  CASE class = "Handshake" ->
         <<"protocolVersion", "serverAddress", "serverPort", "requestedNextState">>
    [] class = "Ping" -> <<"unixEpoch">>
    [] class = "LoginStart" -> <<"playerName">>
    [] class = "Encryption" ->
         IF side = "CLIENT_BOUND" THEN <<"serverId">>
         ELSE <<"sealedSharedSecret", "sealedVerifyToken">>
    [] class = "LoginSuccess" -> <<"uuid", "username">>
    [] class = "KeepAlive" -> <<"keepAliveId">>
    [] class = "JoinGame" ->
         <<"playerEntityId", "gamemode", "dimensionId", "difficulty",
           "maxPlayersOnPlayerList", "levelType", "reducedDebugInfo">>
    [] class = "ChatMessage" -> <<"jsonChatData">>
    [] class \in {"ServerStatus", "SpawnPosition", "PositionAndLook", "PlayerAbilities"} -> <<>>

Encode(field, value) == IF field = "keepAliveId" THEN Write(value) ELSE value

Body(fields, names) == [i \in 1 .. Len(names) |-> Encode(names[i], fields[names[i]])]

(* LoginSuccessPacket tests what is left of the payload minus the uuid's length,
   of unsigned type, though the uuid has been erased: a name that is shorter
   wraps around and passes, one as long as the uuid or longer fails. *)
NameFits(body) == body[2] < body[1] \/ body[1] = 0

Decode(class, side, body) ==
  LET names == Kept(class, side)
      place(f) == CHOOSE i \in 1 .. Len(names) : names[i] = f
  IN  [f \in {names[i] : i \in 1 .. Len(names)} |->
         IF place(f) > Len(body) THEN 0
         ELSE IF f = "keepAliveId" THEN Read(body[place(f)]).value
         ELSE IF f = "username" /\ ~NameFits(body) THEN 0
         ELSE body[place(f)]]
-----------------------------------------------------------------------------
(* Sending. A packet under way carries, as history, what it was sent as. *)

\* What the fields of a packet the gateway makes have; some have any of several.
Made(class) ==
  CASE class = "ServerStatus" -> {[json |-> 9]}
    [] class = "Encryption" ->
         {[serverId |-> 0, publickKey |-> 162, clearVerifyToken |-> 4]}
    [] class = "LoginSuccess" -> {[uuid |-> UuidLength, username |-> username]}
    [] class = "KeepAlive" -> {[keepAliveId |-> v] : v \in Ids}
    [] class = "JoinGame" ->
         {[playerEntityId |-> 0, gamemode |-> 0, dimensionId |-> 0, difficulty |-> 0,
           maxPlayersOnPlayerList |-> 255, levelType |-> 7, reducedDebugInfo |-> 0]}
    [] class = "SpawnPosition" -> {[spawnPosition |-> 0]}
    [] class = "PositionAndLook" ->
         {[x |-> 0, y |-> 0, z |-> 0, yaw |-> 270, pitch |-> 0, flags |-> word]}
    [] class = "PlayerAbilities" ->
         {[abilities |-> raw \cup 1 .. 3, flyingSpeed |-> 2, walkingSpeed |-> 1] :
            raw \in Raws}

Packet(class, fields) ==
  [id |-> IdOf(class), class |-> class, fields |-> fields,
   body |-> Body(fields, Written(class, getSide))]

\* Client::sendPacket.
Send(class) ==
  toPeer' \in {Append(toPeer, Packet(class, fields)) : fields \in Made(class)}

\* Of a packet that newPacket makes for the state given.
SendNew(class, st) == Find("CLIENT_BOUND", st, IdOf(class)) = {class} /\ Send(class)

\* A packet of the peer: its fields as the constructor from data reads them.
PeerPacket(class, id, fields) ==
  [id |-> id, class |-> class, fields |-> fields,
   body |-> IF class = "Other" THEN <<>> ELSE Body(fields, Kept(class, "SERVER_BOUND"))]

Say(class, id, fields) ==
  toGateway' \in {Append(toGateway, PeerPacket(class, id, f)) : f \in {fields}}

-----------------------------------------------------------------------------
Init ==
  /\ state = "HANDSHAKE" /\ loopback \in BOOLEAN /\ username = 0
  /\ todo = <<>> /\ watching = FALSE
  /\ toPeer = <<>> /\ toGateway = <<>>
  /\ peerState = "HANDSHAKE" /\ wants = <<"Handshake">> /\ known = {}
  /\ sent = 0 /\ said = 0 /\ heard = 0
  /\ UnionInit

-----------------------------------------------------------------------------
(* The gateway: onLengthReceive parses SERVER_BOUND, for the state it is in, and
   receivedMessage acts on the class of what came. The next read is armed when
   the handler ends, after all that the login sends. *)

\* The head of the stream is taken, as an object of class, or of none.
Receives(class) ==
  /\ toGateway # <<>> /\ todo = <<>>
  /\ class \in Find("SERVER_BOUND", state, Head(toGateway).id)
  /\ toGateway' = Tail(toGateway)

Received(class) == Decode(class, "SERVER_BOUND", Head(toGateway).body)

Ignore ==
  /\ toGateway # <<>> /\ todo = <<>>
  /\ Find("SERVER_BOUND", state, Head(toGateway).id) = {}
  /\ toGateway' = Tail(toGateway)
  /\ UNCHANGED <<gateway, peer, toPeer, sent, unionVars>>

(* Sent right back. cancel() finds no read outstanding, as the handler of one is
   running (Gateway, CancelDrops). *)
PingBack ==
  /\ Receives("Ping")
  /\ toPeer' = Append(toPeer, Packet("Ping", Received("Ping")))
  /\ UNCHANGED <<gateway, peer, sent, unionVars>>

Handshake ==
  /\ Receives("Handshake")
  /\ state' = Received("Handshake").requestedNextState
  /\ UNCHANGED <<loopback, username, todo, watching, peer, toPeer, sent, unionVars>>

\* The packet that came is filled in and sent; its body is the json alone.
StatusRequest ==
  /\ Receives("ServerStatus")
  /\ Send("ServerStatus")
  /\ UNCHANGED <<gateway, peer, sent, unionVars>>

\* As LoginStart of a local peer, taking the length's byte into the name.
LoginStartWithLength ==
  /\ Receives("LoginStart") /\ loopback
  /\ username' = Received("LoginStart").playerName + 1
  /\ todo' = <<"LoginSuccess">>
  /\ UNCHANGED <<state, loopback, watching, peer, toPeer, sent, unionVars>>

(* A local peer logs in at once; of another an encryption request asks for a
   secret and the token, sealed with the public key. What it answers, and the
   session server's word, are in Gateway. *)
LoginStart ==
  /\ Receives("LoginStart")
  /\ username' = Received("LoginStart").playerName
  /\ IF loopback
     THEN /\ todo' = <<"LoginSuccess", "JoinGame", "SpawnPosition",
                       "PositionAndLook", "PlayerAbilities">>
          /\ UNCHANGED toPeer
     ELSE SendNew("Encryption", "LOGIN") /\ UNCHANGED todo
  /\ UNCHANGED <<state, loopback, watching, peer, sent, unionVars>>

(* A chat message and a keep-alive change nothing here. The onPacketReceived that
   is called is ClientOwner's, which returns false: ClientServer's, which would
   send the message to all clients, has other parameters. *)
Nothing ==
  /\ Receives("ChatMessage") \/ Receives("KeepAlive")
  /\ UNCHANGED <<gateway, peer, toPeer, sent, unionVars>>

-----------------------------------------------------------------------------
(* onPlayerLogin and, through handoffClient, addClient send one packet after
   another. The constructor of PositionAndLook sets three flags of its union. *)

FlagsToSet == {"x", "y", "z"} \ set

SetFlag ==
  /\ todo # <<>> /\ Head(todo) = "PositionAndLook" /\ FlagsToSet # {}
  /\ LET f == CHOOSE f \in FlagsToSet :
                \A g \in FlagsToSet : Index[f] <= Index[g]
     IN  Assign(f, {0})
  /\ UNCHANGED <<gateway, peer, toPeer, toGateway, sent>>

\* A faulty variant shows that the properties notice such a mistake.
onPlayerLoginStays ==
  /\ todo # <<>> /\ Head(todo) = "LoginSuccess"
  /\ SendNew("LoginSuccess", "LOGIN")
  /\ todo' = Tail(todo)
  /\ UNCHANGED <<state, watching, loopback, username, peer, toGateway, sent, unionVars>>

\* LoginSuccess is sent in LOGIN; then the state changes and the timer is set.
onPlayerLogin ==
  /\ todo # <<>> /\ Head(todo) = "LoginSuccess"
  /\ SendNew("LoginSuccess", "LOGIN")
  /\ state' = "PLAY" /\ watching' = TRUE
  /\ todo' = Tail(todo)
  /\ UNCHANGED <<loopback, username, peer, toGateway, sent, unionVars>>

addClient ==
  /\ todo # <<>> /\ Head(todo) # "LoginSuccess"
  /\ Head(todo) = "PositionAndLook" => FlagsToSet = {}
  /\ SendNew(Head(todo), "PLAY")
  /\ todo' = Tail(todo)
  /\ UNCHANGED <<state, loopback, username, watching, peer, toGateway, sent, unionVars>>

\* The timer's handler, on any worker, while the peer is not silent for long.
keepAlive ==
  /\ watching /\ sent < MaxSent
  /\ SendNew("KeepAlive", state)
  /\ sent' = sent + 1
  /\ UNCHANGED <<gateway, peer, toGateway, unionVars>>
-----------------------------------------------------------------------------
(* The peer: a client of the protocol, that parses CLIENT_BOUND. *)

Hello ==
  /\ wants = <<"Handshake">>
  /\ \E next \in {"STATUS", "LOGIN"} :
       /\ Say("Handshake", 0, [protocolVersion |-> 47, serverAddress |-> 9,
                               serverPort |-> 25565, requestedNextState |-> next])
       /\ peerState' = next
       /\ wants' = IF next = "LOGIN" THEN <<"LoginStart">> ELSE <<"ServerStatus">>
  /\ UNCHANGED <<gateway, known, said, heard, toPeer, sent, unionVars>>

Ask ==
  /\ \/ wants = <<"ServerStatus">> /\ Say("ServerStatus", 0, <<>>)
     \/ /\ wants = <<"LoginStart">>
        /\ \E n \in Names : Say("LoginStart", 0, [playerName |-> n])
  /\ wants' = <<>>
  /\ UNCHANGED <<gateway, peerState, known, said, heard, toPeer, sent, unionVars>>

\* While it is in STATUS or in PLAY it sends what it likes.
Chatter ==
  /\ wants = <<>> /\ sent < MaxSent
  /\ sent' = sent + 1
  /\ \/ /\ peerState = "STATUS" /\ UNCHANGED said
        /\ \E e \in Epochs : Say("Ping", 1, [unixEpoch |-> e])
     \/ /\ peerState = "PLAY" /\ said' = said + 1
        /\ Say("ChatMessage", 1, [jsonChatData |-> 30])
     \/ /\ peerState = "PLAY" /\ UNCHANGED said
        /\ \E id \in Others : Say("Other", id, <<>>)
  /\ UNCHANGED <<gateway, peerState, wants, known, heard, toPeer, unionVars>>

\* LoginSuccess moves it to PLAY, a keep-alive is answered with its id.
PeerReceives ==
  /\ toPeer # <<>> /\ toPeer' = Tail(toPeer)
  /\ LET m == Head(toPeer)
         found == Find("CLIENT_BOUND", peerState, m.id)
     IN  /\ known' = known \cup found
         /\ peerState' = IF "LoginSuccess" \in found THEN "PLAY" ELSE peerState
         /\ heard' = IF "ChatMessage" \in found THEN heard + 1 ELSE heard
         /\ IF "KeepAlive" \in found
            THEN Say("KeepAlive", 0, Decode("KeepAlive", "CLIENT_BOUND", m.body))
            ELSE UNCHANGED toGateway
  /\ UNCHANGED <<gateway, wants, said, sent, unionVars>>

-----------------------------------------------------------------------------
Gateway ==
  \/ Ignore \/ PingBack \/ Handshake \/ StatusRequest \/ LoginStart \/ Nothing
  \/ SetFlag \/ onPlayerLogin \/ addClient

Next == Gateway \/ keepAlive \/ Hello \/ Ask \/ Chatter \/ PeerReceives

Spec == Init /\ [][Next]_vars

(* A worker runs each handler that is ready to its end, and what was sent reaches
   the peer, which goes on reading. Nothing makes the peer send. *)
FairSpec == Spec /\ WF_vars(Gateway) /\ WF_vars(PeerReceives)

-----------------------------------------------------------------------------
States == {"HANDSHAKE", "STATUS", "LOGIN", "PLAY"}

TypeOK ==
  /\ state \in States /\ peerState \in States
  /\ loopback \in BOOLEAN /\ watching \in BOOLEAN
  /\ username \in {0} \cup Names /\ sent \in 0 .. MaxSent
  /\ WordOK

(* Whatever the two ends' states do while packets are under way, each packet is
   looked up, at the side and in the state where it is read, as the class that it
   was sent as, and a packet that MCPacket has not as none. *)
Understood ==
  /\ toPeer # <<>> =>
       Find("CLIENT_BOUND", peerState, Head(toPeer).id) = {Head(toPeer).class}
  /\ toGateway # <<>> /\ todo = <<>> =>
       Find("SERVER_BOUND", state, Head(toGateway).id) = {Head(toGateway).class} \ {"Other"}

(* What the constructor from data keeps of a packet is what the gateway wrote,
   for all numbers and names, also through the wrapped test of the name. *)
SentReadsBack ==
  \A i \in 1 .. Len(toPeer) :
    LET m == toPeer[i]
        kept == Decode(m.class, "CLIENT_BOUND", m.body)
    IN  \A f \in DOMAIN kept : kept[f] = m.fields[f]

(* A local peer that asks to log in reaches PLAY on both ends and gets the four
   packets of the world it joins. *)
LoginCompletes ==
  loopback /\ peerState = "LOGIN" /\ wants = <<>>
    ~> /\ peerState = "PLAY" /\ state = "PLAY"
       /\ {"LoginSuccess", "JoinGame", "SpawnPosition", "PositionAndLook",
           "PlayerAbilities"} \subseteq known

(* The encryption request brings a remote peer the key and the token it needs for
   its answer. *)
RequestCarriesKey ==
  \A i \in 1 .. Len(toPeer) :
    toPeer[i].class = "Encryption" => Len(toPeer[i].body) = 3

(* What a player says is sent to all clients, the player included. *)
ChatIsRelayed ==
  toPeer = <<>> /\ toGateway = <<>> /\ todo = <<>> => heard = said
=============================================================================
