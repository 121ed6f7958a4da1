--------------------------- MODULE AudioOutProofs ---------------------------
(***************************************************************************)
(* Proofs about AudioOut.  The argument counts tokens: those in the        *)
(* semaphore, those Root holds and the one a destructor took are as many   *)
(* as the channels whose constructor has ended.  Root plays with           *)
(* MAX_CHANNELS of them, so none is left to a destructor.                  *)
(***************************************************************************)
EXTENDS AudioOut, TLAPS

One(b) == IF b THEN 1 ELSE 0

\* The constructor of c's session has added its token.
Ready(c) == c \in channel_acquired /\ ~(ep = "create" /\ ep_channel = c)

Tokens ==
    channel_sema + held + One(ep = "destroy") = One(Ready("left")) + One(Ready("right"))

Held ==
    /\ Playing => held = MAX_CHANNELS
    /\ root \in {"down", "blocked"} => held < MAX_CHANNELS
    /\ root = "up" => held > 0

\* Root has taken a packet of channel c and not acknowledged it.
RootHas(c) ==
    \/ c = "left" /\ root \in {"right", "play", "ack_left"}
    \/ c = "right" /\ root \in {"play", "ack_left", "ack_right"}

Taken ==
    \A c \in Channel :
        taken[c] = One(RootHas(c)) + One(ep = "flush_ack" /\ ep_channel = c)

Serving == ep # "idle" => ep_channel \in channel_acquired

IInv == TypeOK /\ Tokens /\ Held /\ Taken /\ Serving /\ PacketsAccounted

LEMMA InitIInv == Init => IInv
  BY DEF Init, IInv, TypeOK, Tokens, Held, Taken, Serving, PacketsAccounted,
         One, Ready, RootHas, Playing, Channel, MAX_CHANNELS

LEMMA InvBothOpen == IInv => BothOpen
PROOF
  <1> SUFFICES ASSUME IInv, Playing PROVE channel_acquired = Channel
    BY DEF BothOpen
  <1>1. channel_sema \in Nat /\ held = 2
    BY DEF IInv, TypeOK, Held, MAX_CHANNELS
  <1>2. "left" \in channel_acquired /\ "right" \in channel_acquired
    BY <1>1 DEF IInv, Tokens, One, Ready
  <1> QED
    BY <1>2 DEF IInv, TypeOK, Channel

\* The steps that leave the packet streams alone.
LEMMA TokenStep ==
  ASSUME IInv,
         \/ \E c \in Channel : create_session(c) \/ close_session(c) \/ flush_begin(c)
         \/ create_up \/ close_down \/ flush_test
         \/ root_down \/ root_play \/ root_up
  PROVE  IInv'
PROOF
  <1> USE DEF IInv, TypeOK, Tokens, Held, Taken, Serving, PacketsAccounted, One,
              Ready, RootHas, Playing, Channel, MAX_CHANNELS, queues
  <1>1. ASSUME NEW c \in Channel, create_session(c) PROVE IInv'
    BY <1>1 DEF create_session
  <1>2. ASSUME NEW c \in Channel, close_session(c) PROVE IInv'
    BY <1>2 DEF close_session
  <1>3. ASSUME NEW c \in Channel, flush_begin(c) PROVE IInv'
    BY <1>3 DEF flush_begin
  <1>4. CASE create_up
    <2>1. CASE root = "blocked"
      BY <1>4, <2>1 DEF create_up, root_token
    <2>2. CASE root # "blocked"
      BY <1>4, <2>2 DEF create_up
    <2> QED
      BY <2>1, <2>2
  <1>5. CASE close_down
    BY <1>5 DEF close_down
  <1>6. CASE flush_test
    BY <1>6 DEF flush_test
  <1>7. CASE root_down
    BY <1>7 DEF root_down, root_token
  <1>8. CASE root_play
    BY <1>8 DEF root_play
  <1>9. CASE root_up
    BY <1>9 DEF root_up
  <1> QED
    BY <1>1, <1>2, <1>3, <1>4, <1>5, <1>6, <1>7, <1>8, <1>9

\* The steps that move packets.
LEMMA PacketStep ==
  ASSUME IInv,
         \/ \E c \in Channel : submit_packet(c) \/ get_acked_packet(c)
         \/ destroy_session \/ flush_get \/ flush_ack
         \/ root_left \/ root_right \/ root_ack_left \/ root_ack_right
  PROVE  IInv'
PROOF
  <1> USE DEF IInv, TypeOK, Tokens, Held, Taken, Serving, PacketsAccounted, One,
              Ready, RootHas, Playing, Channel, MAX_CHANNELS
  <1>1. ASSUME NEW c \in Channel, submit_packet(c) PROVE IInv'
    BY <1>1 DEF submit_packet
  <1>2. ASSUME NEW c \in Channel, get_acked_packet(c) PROVE IInv'
    BY <1>2 DEF get_acked_packet
  <1>3. CASE destroy_session
    BY <1>3 DEF destroy_session
  <1>4. CASE flush_get
    BY <1>4 DEF flush_get, get_packet
  <1>5. CASE flush_ack
    BY <1>5 DEF flush_ack, acknowledge_packet
  <1>6. CASE root_left
    BY <1>6 DEF root_left, get_packet
  <1>7. CASE root_right
    BY <1>7 DEF root_right, get_packet
  <1>8. CASE root_ack_left
    BY <1>8 DEF root_ack_left, acknowledge_packet
  <1>9. CASE root_ack_right
    BY <1>9 DEF root_ack_right, acknowledge_packet
  <1> QED
    BY <1>1, <1>2, <1>3, <1>4, <1>5, <1>6, <1>7, <1>8, <1>9

LEMMA NextIInv == IInv /\ [Next]_vars => IInv'
PROOF
  <1> SUFFICES ASSUME IInv, [Next]_vars PROVE IInv'
    OBVIOUS
  <1>1. CASE UNCHANGED vars
    BY <1>1 DEF vars, queues, IInv, TypeOK, Tokens, Held, Taken, Serving,
                PacketsAccounted, One, Ready, RootHas, Playing
  <1>2. CASE Next
    BY <1>2, TokenStep, PacketStep DEF Next, Entrypoint, Root, Client
  <1> QED
    BY <1>1, <1>2

\* The tokens, the packets in flight and the types are as stated in every
\* reachable state, for queues of any length.
THEOREM Inductive == Spec => []IInv
  BY InitIInv, NextIInv, PTL DEF Spec

\* Root uses a session only while it exists: main.cc's semaphore keeps every
\* destructor out of a round.
THEOREM BothOpenHolds == Spec => []BothOpen
  BY Inductive, InvBothOpen, PTL

\* Between flush and Root no packet is lost or acknowledged twice.
THEOREM PacketsAccountedHolds == Spec => []PacketsAccounted
PROOF
  <1>1. IInv => PacketsAccounted
    BY DEF IInv
  <1> QED
    BY Inductive, <1>1, PTL
=============================================================================
