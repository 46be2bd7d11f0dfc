-------------------------- MODULE HandshakePackets --------------------------
(***************************************************************************)
(* The handshake packets of hammeregg_core, as far as signalling tells     *)
(* them apart.                                                             *)
(*                                                                         *)
(* Names, keys, initialisation vectors and session descriptions are opaque *)
(* to the signalling server.  What the properties need to know of an       *)
(* encrypted payload is whose session description it carries, or answers,  *)
(* so a payload is the remote connection that it belongs to.  The peer     *)
(* number is data that the server acts on and is kept, with its width:     *)
(* IdModulus is 2^32 in the program (a u32).  HomeAnswerSuccess and        *)
(* HomeAnswerFailure are relayed alike, so HomeAnswer stands for both.     *)
(***************************************************************************)
EXTENDS Integers, Sequences

CONSTANTS
    Remotes,      \* connections that a browser (the egg) opens to the server
    IdModulus     \* the number of values of a peer number

ASSUME IdModulusAssumption == IdModulus \in Nat \ {0}

PeerIds == 0 .. IdModulus - 1

\* HomeInitResponse and RemoteInitResponse: Ok(()) or Err(..).
InitResponse == [type : {"InitResponse"}, ok : BOOLEAN]

RemoteOffer == [type : {"RemoteOffer"}, peer : PeerIds, payload : Remotes]

HomeAnswer == [type : {"HomeAnswer"}, peer : PeerIds, payload : Remotes]

HandshakePacket == InitResponse \cup RemoteOffer \cup HomeAnswer

Granted == [type |-> "InitResponse", ok |-> TRUE]
Refused == [type |-> "InitResponse", ok |-> FALSE]
Offer(id, r) == [type |-> "RemoteOffer", peer |-> id, payload |-> r]
Answer(id, r) == [type |-> "HomeAnswer", peer |-> id, payload |-> r]
=============================================================================
