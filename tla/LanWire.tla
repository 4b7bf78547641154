------------------------------- MODULE LanWire -------------------------------
(***************************************************************************)
(* The playback datagrams between keyboard and Host (lan_playback.rs and   *)
(* codex_playback_wire.cpp) and the network that carries them.             *)
(*                                                                         *)
(* A datagram that fails its length, version, reserved-byte, field range   *)
(* or HMAC check is dropped by both decoders, so only well-formed ones are *)
(* modelled, by the fields the handlers look at.  The socket and the nonce *)
(* of a request are fresh for every request the keyboard sends; conn, the  *)
(* lifetime of the route it is sent over, stands for them.  What a request *)
(* itself carries of its route is the connection generation, which starts  *)
(* at random with every boot and wraps: lifetimes may share one.           *)
(* total_samples is a function of the lease.                               *)
(* Offsets count chunks.                                                   *)
(*                                                                         *)
(* UDP: what was sent may arrive at any later time, in any order, any      *)
(* number of times or never.                                               *)
(***************************************************************************)
EXTENDS Integers, Sequences, FiniteSets

CONSTANTS Slot,
          Generations,    \* connection generations
          NoRequest, NoIdentity,
          Total      \* chunks of a summary's audio

ASSUME TotalAssumption == Total \in Nat \ {0}

VARIABLES net,       \* datagrams sent so far
          lives      \* lifetimes of routes so far: [boot, generation]

\* PlaybackRequest and PlaybackIdentity.  The lease, fresh for every
\* acquisition, stands for the summary generation too.
Requests == [slot : Slot, gen : Nat, conn : Nat]
Identities == [slot : Slot, gen : Nat, conn : Nat, lease : Nat]

ASSUME LanWireSentinels == NoRequest \notin Requests /\ NoIdentity \notin Identities

\* connection_generation of a request or an identity.
Generation(conn) == lives[conn].generation

RequestOf(id) == [slot |-> id.slot, gen |-> id.gen, conn |-> id.conn]
IdentityFor(r, lease) ==
  [slot |-> r.slot, gen |-> r.gen, conn |-> r.conn, lease |-> lease]

\* The answers an EIPA carries.
Taken == 0
Gap == 1
Refused == 2
Abort == 3

EIPR(r) == [kind |-> "EIPR", req |-> r]
EIPB(id) == [kind |-> "EIPB", id |-> id]
EIPD(id, offset) == [kind |-> "EIPD", id |-> id, offset |-> offset]
EIPA(id, status, next) ==
  [kind |-> "EIPA", id |-> id, status |-> status, next |-> next]
EIPF(id) == [kind |-> "EIPF", id |-> id]
EIPK(id, status) == [kind |-> "EIPK", id |-> id, status |-> status]

Sent(kind) == {m \in net : m.kind = kind}

Send(messages) == net' = net \cup messages
=============================================================================
