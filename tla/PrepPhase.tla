------------------------------- MODULE PrepPhase -------------------------------
(***************************************************************************)
(* lab2-prep --auto-discover --test-udp: run_prep_phase                    *)
(* (src/lab2_relay_race/prep_cli.py) with the UDP test of udp_prep.py,     *)
(* on top of the discovery of endpoints, which it stops as soon as it has  *)
(* them all.  The program has a deadline for all of it, which may come at  *)
(* any time.  In the setups of the race nothing is added to the discovery. *)
(***************************************************************************)
EXTENDS EndpointDiscovery

VARIABLES
    stage,      \* what run_prep_phase does after the discovery
    heard,      \* response_events that are set, by sender
    responded,  \* the peers that run_udp_test has counted as reachable
    failed,     \* those that it has counted as silent
    udp,        \* UDP datagrams under way
    sent        \* history: every UDP datagram sent so far

pvars == <<stage, heard, responded, failed, udp, sent>>
vars == <<dvars, pvars>>

Stage == {"discovering", "announced", "testing", "done", "timed out"}

(* Every ping is sent from a socket of its own, and a pong goes back to    *)
(* the socket that the ping came from.                                     *)
Datagram ==
    [kind : {"Hello", "Ping", "Pong"}, from : Member, to : Member,
     socket : {"server", "ping"}]

PrepTypeOK ==
    /\ DiscoveryTypeOK
    /\ stage \in [Team -> Stage]
    /\ heard \in [Team -> SUBSET Team]
    /\ responded \in [Team -> SUBSET Team]
    /\ failed \in [Team -> SUBSET Team]
    /\ udp \subseteq sent /\ sent \subseteq Datagram

PrepInit ==
    /\ DiscoveryInit
    /\ stage = [n \in Team |-> "discovering"]
    /\ heard = [n \in Team |-> {}]
    /\ responded = [n \in Team |-> {}]
    /\ failed = [n \in Team |-> {}]
    /\ udp = {}
    /\ sent = {}

(* The process is run and has not come to its end. *)
Running(n) == program = "prep" /\ phase[n] \notin {"down", "over"} /\ stage[n] # "done"

(* UdpPrepServer is started before IPv8 and stopped at the end. *)
Listening(n) == Running(n)

(* The socket of a ping is bare and drops what it receives. *)
ToServer(from, to, kind) ==
    [kind |-> kind, from |-> from, to |-> to, socket |-> "server"]
(* Mistake: a ping is sent from the socket of the server. *)
PongToServer(ping, from) == ToServer(from, ping.from, "Pong")

PongTo(ping, from) ==
    [kind |-> "Pong", from |-> from, to |-> ping.from, socket |-> "ping"]

SendUdp(ds) == udp' = udp \cup ds /\ sent' = sent \cup ds

--------------------------------------------------------------------------------

(* A step of the discovery; a process that ends takes its server with it. *)
DiscoveryStep ==
    /\ DiscoveryNext
    /\ heard' = [n \in Team |-> IF phase'[n] = "down" THEN {} ELSE heard[n]]
    /\ UNCHANGED <<stage, responded, failed, udp, sent>>

(* announce_endpoint: one hello to each peer, once. *)
AnnounceEndpoint(n) ==
    /\ program = "prep" /\ phase[n] = "found"
    /\ stage[n] = "discovering"
    /\ stage' = [stage EXCEPT ![n] = "announced"]
    /\ SendUdp({ToServer(n, m, "Hello") : m \in Target[n]})
    /\ UNCHANGED <<dvars, heard, responded, failed>>

(* run_udp_test sends a ping to each peer; send_ping says True of all.     *)
SendPings(n) ==
    /\ stage[n] = "announced"
    /\ stage' = [stage EXCEPT ![n] = "testing"]
    /\ SendUdp({ToServer(n, m, "Ping") : m \in Target[n]})
    /\ UNCHANGED <<dvars, heard, responded, failed>>

Untested(n) == Target[n] \ (responded[n] \cup failed[n])

(* wait_for_pong finds the event set.  It is never cleared. *)
PeerResponded(n, m) ==
    /\ stage[n] = "testing"
    /\ m \in Untested(n) \cap heard[n]
    /\ responded' = [responded EXCEPT ![n] = @ \cup {m}]
    /\ UNCHANGED <<dvars, stage, heard, failed, udp, sent>>

(* wait_for_pong times out, after two seconds. *)
PeerSilent(n, m) ==
    /\ stage[n] = "testing"
    /\ m \in Untested(n) \ heard[n]
    /\ failed' = [failed EXCEPT ![n] = @ \cup {m}]
    /\ UNCHANGED <<dvars, stage, heard, responded, udp, sent>>

(* The server is stopped: at once without --test-udp, or after the test. *)
EndPrep(n) ==
    /\ \/ stage[n] = "announced"
       \/ stage[n] = "testing" /\ Untested(n) = {}
    /\ stage' = [stage EXCEPT ![n] = "done"]
    /\ UNCHANGED <<dvars, heard, responded, failed, udp, sent>>

(* datagram_received and _handle_message: _handle_ping, or _handle_pong    *)
(* and _handle_hello, which do the same.                                   *)
HandleMessage(n, d) ==
    IF d.kind = "Ping"
    THEN /\ udp' = (udp \ {d}) \cup {PongTo(d, n)}
         /\ sent' = sent \cup {PongTo(d, n)}
         /\ UNCHANGED heard
    ELSE /\ udp' = udp \ {d}
         /\ heard' = [heard EXCEPT ![n] = @ \cup {d.from}]
         /\ UNCHANGED sent

DeliverUdp(d) ==
    /\ d \in udp
    /\ IF d.socket = "server" /\ Listening(d.to)
       THEN HandleMessage(d.to, d)
       ELSE udp' = udp \ {d} /\ UNCHANGED <<heard, sent>>
    /\ UNCHANGED <<dvars, stage, responded, failed>>

(* The deadline of the program: whatever it is at, it ends with all that   *)
(* it knew, IPv8 and its server.                                           *)
TimeOut(n) ==
    /\ Running(n)
    /\ phase' = [phase EXCEPT ![n] = "over"]
    /\ stage' = [stage EXCEPT ![n] = "timed out"]
    /\ verified' = [verified EXCEPT ![n] = {}]
    /\ peer_endpoints' = [peer_endpoints EXCEPT ![n] = {}]
    /\ heard' = [heard EXCEPT ![n] = {}]
    /\ responded' = [responded EXCEPT ![n] = {}]
    /\ failed' = [failed EXCEPT ![n] = {}]
    /\ UNCHANGED <<setup, msgs, losses, restarts, udp, sent>>

PrepStep(n) ==
    \/ AnnounceEndpoint(n)
    \/ SendPings(n)
    \/ EndPrep(n)
    \/ \E m \in Team : PeerResponded(n, m) \/ PeerSilent(n, m)

PrepNext ==
    \/ DiscoveryStep
    \/ \E n \in Team : PrepStep(n) \/ TimeOut(n)
    \/ \E d \in udp : DeliverUdp(d)

PrepSpec == PrepInit /\ [][PrepNext]_vars

(* run_prep_phase goes on by itself.  UDP datagrams need not arrive: one   *)
(* that is lost stays in udp, and nobody waits for it beyond two seconds.  *)
(* The deadline need not come before the phase has ended.                  *)
FairPrepSpec ==
    /\ PrepSpec
    /\ DiscoveryFairness
    /\ \A n \in Member : WF_vars(n \in Team /\ PrepStep(n))

--------------------------------------------------------------------------------
(* A peer counts as reachable only if it has itself found all of its own   *)
(* teammates and said hello: since no pong reaches the server (the comment *)
(* at udp_prep.py:183 thinks it does), the test is passed by the hello,    *)
(* which may be older than the ping (udp_prep.py:148).                     *)
ReachableMeansGreeted ==
    \A n \in Team : \A m \in responded[n] : ToServer(m, n, "Hello") \in sent

(* What wait_for_pong promises (udp_prep.py:149): a peer counts as         *)
(* reachable only if it has sent a pong.  The code does not keep it, as    *)
(* the event that it waits for is set by a hello, too (udp_prep.py:146).   *)
ReachableMeansPonged ==
    \A n \in Team : \A m \in responded[n] :
        \E d \in sent : d.kind = "Pong" /\ d.from = m /\ d.to = n

(* Unless a process ends early, by itself or at its deadline, the          *)
(* discovery of a team comes to an end for one member at least, as nobody  *)
(* has stopped IPv8 before.                                                *)
SomeoneFinds ==
    restarts = 0 ~> \E n \in Team : phase[n] \in {"found", "over"}
================================================================================
