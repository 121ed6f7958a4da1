------------------------------ MODULE AudioOut ------------------------------
(***************************************************************************)
(* The audio-out service, src/src/drivers/audio_out/main.cc.  The          *)
(* entrypoint `ep` opens, flushes and closes the sessions of the left and  *)
(* the right channel, one request at a time; the Root thread takes one     *)
(* packet of each channel, plays them and acknowledges them.  The two      *)
(* threads meet at channel_sema, which holds one token per open channel:   *)
(* Root needs MAX_CHANNELS tokens for a round, a session's destructor one. *)
(* up() hands its token to a thread that is blocked in down(), as Genode's *)
(* Semaphore does; at most one thread other than the caller can be.        *)
(* The driver has found its device (audio_out_active) and the clients'     *)
(* packets are valid; an inactive driver refuses every session.            *)
(***************************************************************************)
EXTENDS Naturals

CONSTANT QueueLen   \* slots of each of the packet stream's queues (bound)

ASSUME QueueAssumption == QueueLen \in Nat \ {0}

Channel == {"left", "right"}
MAX_CHANNELS == 2

VARIABLES
    channel_acquired,  \* the channels that have a session
    channel_sema,      \* tokens in the semaphore
    ep, ep_channel,    \* what the entrypoint does, and for which channel
    root, held,        \* where the Root thread is, and its tokens
    packets,           \* packets submitted and not taken, per channel
    taken,             \* packets taken and not acknowledged, per channel
    acks,              \* acknowledgements the client has not collected
    sent               \* packets the client waits for to be acknowledged

queues == <<packets, taken, acks, sent>>
vars == <<channel_acquired, channel_sema, ep, ep_channel, root, held, queues>>

Init ==
    /\ channel_acquired = {} /\ channel_sema = 0
    /\ ep = "idle" /\ ep_channel = "left"
    /\ root = "down" /\ held = 0
    /\ packets = [c \in Channel |-> 0] /\ taken = [c \in Channel |-> 0]
    /\ acks = [c \in Channel |-> 0] /\ sent = [c \in Channel |-> 0]

-----------------------------------------------------------------------------
(* The packet stream of a channel, external: Genode's packet_stream.       *)

submit_packet(c) ==
    /\ c \in channel_acquired
    /\ ep_channel = c => ep \notin {"create", "close", "blocked", "destroy"}
    /\ packets[c] < QueueLen
    /\ packets' = [packets EXCEPT ![c] = @ + 1]
    /\ sent' = [sent EXCEPT ![c] = @ + 1]
    /\ UNCHANGED <<channel_acquired, channel_sema, ep, ep_channel, root, held,
                   taken, acks>>

get_acked_packet(c) ==
    /\ acks[c] > 0
    /\ acks' = [acks EXCEPT ![c] = @ - 1]
    /\ sent' = [sent EXCEPT ![c] = @ - 1]
    /\ UNCHANGED <<channel_acquired, channel_sema, ep, ep_channel, root, held,
                   packets, taken>>

get_packet(c) ==
    /\ packets[c] > 0
    /\ packets' = [packets EXCEPT ![c] = @ - 1]
    /\ taken' = [taken EXCEPT ![c] = @ + 1]
    /\ UNCHANGED <<acks, sent>>

acknowledge_packet(c) ==
    /\ acks[c] < QueueLen
    /\ taken' = [taken EXCEPT ![c] = @ - 1]
    /\ acks' = [acks EXCEPT ![c] = @ + 1]
    /\ UNCHANGED <<packets, sent>>

-----------------------------------------------------------------------------
(* The entrypoint.                                                         *)

\* The Root thread gets a token; with the last one it begins a round.
root_token ==
    /\ held' = held + 1
    /\ root' = IF held + 1 = MAX_CHANNELS THEN "left" ELSE "down"

\* Root_policy refuses a channel that is taken; the constructor publishes the
\* session before it adds its token.
create_session(c) ==
    /\ ep = "idle" /\ c \notin channel_acquired
    /\ channel_acquired' = channel_acquired \cup {c}
    /\ ep' = "create" /\ ep_channel' = c
    /\ UNCHANGED <<channel_sema, root, held, queues>>

create_up ==
    /\ ep = "create" /\ ep' = "idle"
    /\ IF root = "blocked"
       THEN root_token /\ UNCHANGED channel_sema
       ELSE channel_sema' = channel_sema + 1 /\ UNCHANGED <<root, held>>
    /\ UNCHANGED <<channel_acquired, ep_channel, queues>>

\* The client closes its session: the destructor begins.
close_session(c) ==
    /\ ep = "idle" /\ c \in channel_acquired
    /\ ep' = "close" /\ ep_channel' = c
    /\ UNCHANGED <<channel_acquired, channel_sema, root, held, queues>>

\* Faulty: the destructor does not take the token of its channel.
close_at_once ==
    /\ ep = "close" /\ ep' = "destroy"
    /\ UNCHANGED <<channel_acquired, channel_sema, ep_channel, root, held, queues>>

close_down ==
    /\ ep = "close"
    /\ IF channel_sema > 0
       THEN channel_sema' = channel_sema - 1 /\ ep' = "destroy"
       ELSE ep' = "blocked" /\ UNCHANGED channel_sema
    /\ UNCHANGED <<channel_acquired, ep_channel, root, held, queues>>

\* The destructor has its token; the session and its packet stream go.
destroy_session ==
    /\ ep = "destroy"
    /\ channel_acquired' = channel_acquired \ {ep_channel}
    /\ ep' = "idle"
    /\ packets' = [packets EXCEPT ![ep_channel] = 0]
    /\ taken' = [taken EXCEPT ![ep_channel] = 0]
    /\ acks' = [acks EXCEPT ![ep_channel] = 0]
    /\ sent' = [sent EXCEPT ![ep_channel] = 0]
    /\ UNCHANGED <<channel_sema, ep_channel, root, held>>

\* flush: while (packet_avail()) acknowledge_packet(get_packet()).  The test
\* and the blocking get_packet are two steps.
flush_begin(c) ==
    /\ ep = "idle" /\ c \in channel_acquired
    /\ ep' = "flush" /\ ep_channel' = c
    /\ UNCHANGED <<channel_acquired, channel_sema, root, held, queues>>

flush_test ==
    /\ ep = "flush"
    /\ ep' = IF packets[ep_channel] > 0 THEN "flush_get" ELSE "idle"
    /\ UNCHANGED <<channel_acquired, channel_sema, ep_channel, root, held, queues>>

flush_get ==
    /\ ep = "flush_get" /\ get_packet(ep_channel)
    /\ ep' = "flush_ack"
    /\ UNCHANGED <<channel_acquired, channel_sema, ep_channel, root, held>>

\* Faulty: a flushed packet is dropped.
flush_drop ==
    /\ ep = "flush_ack" /\ ep' = "flush"
    /\ taken' = [taken EXCEPT ![ep_channel] = @ - 1]
    /\ UNCHANGED <<channel_acquired, channel_sema, ep_channel, root, held,
                   packets, acks, sent>>

flush_ack ==
    /\ ep = "flush_ack" /\ acknowledge_packet(ep_channel)
    /\ ep' = "flush"
    /\ UNCHANGED <<channel_acquired, channel_sema, ep_channel, root, held>>

-----------------------------------------------------------------------------
(* Root::entry.                                                            *)

root_down ==
    /\ root = "down"
    /\ IF channel_sema > 0
       THEN channel_sema' = channel_sema - 1 /\ root_token
       ELSE root' = "blocked" /\ UNCHANGED <<channel_sema, held>>
    /\ UNCHANGED <<channel_acquired, ep, ep_channel, queues>>

root_left ==
    /\ root = "left" /\ get_packet("left") /\ root' = "right"
    /\ UNCHANGED <<channel_acquired, channel_sema, ep, ep_channel, held>>

root_right ==
    /\ root = "right" /\ get_packet("right") /\ root' = "play"
    /\ UNCHANGED <<channel_acquired, channel_sema, ep, ep_channel, held>>

\* dde_linux26_audio_play, repeated until it returns no error.
root_play ==
    /\ root = "play" /\ root' = "ack_left"
    /\ UNCHANGED <<channel_acquired, channel_sema, ep, ep_channel, held, queues>>

root_ack_left ==
    /\ root = "ack_left" /\ acknowledge_packet("left") /\ root' = "ack_right"
    /\ UNCHANGED <<channel_acquired, channel_sema, ep, ep_channel, held>>

root_ack_right ==
    /\ root = "ack_right" /\ acknowledge_packet("right") /\ root' = "up"
    /\ UNCHANGED <<channel_acquired, channel_sema, ep, ep_channel, held>>

\* Faulty: only one token is given back.
root_up_once ==
    /\ root = "up" /\ root' = "down"
    /\ channel_sema' = channel_sema + 1 /\ held' = 0
    /\ UNCHANGED <<channel_acquired, ep, ep_channel, queues>>

root_up ==
    /\ root = "up"
    /\ held' = held - 1
    /\ root' = IF held = 1 THEN "down" ELSE "up"
    /\ IF ep = "blocked"
       THEN ep' = "destroy" /\ UNCHANGED channel_sema
       ELSE channel_sema' = channel_sema + 1 /\ UNCHANGED ep
    /\ UNCHANGED <<channel_acquired, ep_channel, queues>>

-----------------------------------------------------------------------------
Entrypoint == \/ create_up \/ close_down \/ destroy_session
              \/ flush_test \/ flush_get \/ flush_ack
Root == \/ root_down \/ root_left \/ root_right \/ root_play
        \/ root_ack_left \/ root_ack_right \/ root_up
Client(c) == \/ create_session(c) \/ close_session(c) \/ flush_begin(c)
             \/ submit_packet(c) \/ get_acked_packet(c)

Next == Entrypoint \/ Root \/ \E c \in Channel : Client(c)

Spec == Init /\ [][Next]_vars

\* Threads keep running, the device plays, and clients collect their
\* acknowledgements.  Nobody has to open, close, flush or submit.
Fairness ==
    /\ WF_vars(Entrypoint) /\ WF_vars(Root)
    /\ \A c \in Channel : WF_vars(get_acked_packet(c))

FairSpec == Spec /\ Fairness

-----------------------------------------------------------------------------
(* Properties.                                                             *)

\* Type invariant.
TypeOK ==
    /\ channel_acquired \subseteq Channel
    /\ channel_sema \in 0 .. MAX_CHANNELS /\ held \in 0 .. MAX_CHANNELS
    /\ ep \in {"idle", "create", "close", "blocked", "destroy",
              "flush", "flush_get", "flush_ack"}
    /\ ep_channel \in Channel
    /\ root \in {"down", "blocked", "left", "right", "play", "ack_left", "ack_right", "up"}
    /\ \A q \in {packets, taken, acks, sent} : q \in [Channel -> Nat]

Playing == root \in {"left", "right", "play", "ack_left", "ack_right"}

\* Root dereferences the two sessions it read from channel_acquired only
\* while both exist: no destructor runs to its end during a round.
BothOpen == Playing => channel_acquired = Channel

\* No packet of an open session is lost or acknowledged twice, although the
\* flush of the entrypoint and the Root thread take packets of one queue.
PacketsAccounted ==
    \A c \in Channel : sent[c] = packets[c] + taken[c] + acks[c]

\* A destructor that is blocked while Root has the packets of its round gets
\* the token Root gives back.  (One that is blocked while Root waits for a
\* packet, or holds the only token, may never end: main.cc:59.)
CloseReturns ==
    (ep = "blocked" /\ root \in {"play", "ack_left", "ack_right", "up"})
        ~> ep = "idle"

\* Packets that both channels have queued are played, unless a session is
\* being closed or a flush takes them.
PacketsPlayed ==
    (channel_acquired = Channel /\ (\A c \in Channel : packets[c] > 0))
        ~> (root = "play" \/ ep # "idle")
=============================================================================
