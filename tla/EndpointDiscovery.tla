--------------------------- MODULE EndpointDiscovery ---------------------------
(***************************************************************************)
(* How the members of a team learn each other's UDP endpoint over IPv8:    *)
(* Lab2Community (src/lab2_relay_race/community.py) as run_relay_race and   *)
(* run_prep_phase use it.  An endpoint is the identity of its member, for  *)
(* it is a parameter of the member's process and does not change.          *)
(*                                                                         *)
(* IPv8 is external: a walk ends with an introduction request, which makes *)
(* the sender a verified peer of the receiver, and the response makes the  *)
(* receiver one of the sender.  Any datagram may be lost, and they arrive  *)
(* in any order.  msgs is a set: a datagram sent again while it is under   *)
(* way is one datagram, as its second arrival finds nothing to do.         *)
(***************************************************************************)
EXTENDS Naturals, FiniteSets

(***************************************************************************)
(* A setup is a team that runs one program: the teammates that each member *)
(* looks for (set_target_pubkeys), and two bounds, on the datagrams that   *)
(* get lost and on the processes that end early and are started again.     *)
(* "introduced" says that the behaviour is looked at from a later state    *)
(* on: IPv8 has introduced the teammates before they were configured, and  *)
(* all of them begin to wait for endpoints.                                *)
(***************************************************************************)
CONSTANT Setups

TeamOf(s) == DOMAIN s.target
Member == UNION {TeamOf(s) : s \in Setups}

ASSUME DiscoveryAssumption == \A s \in Setups :
    /\ s.program \in {"race", "prep"}
    /\ s.target \in [TeamOf(s) -> SUBSET TeamOf(s)]
    /\ \A n, m \in TeamOf(s) : m \in s.target[n] <=> n \in s.target[m]
    /\ \A n \in TeamOf(s) : n \notin s.target[n]
    /\ s.losses \in Nat /\ s.restarts \in Nat /\ s.introduced \in BOOLEAN

VARIABLES
    setup,          \* the team and its program; does not change
    phase,          \* how far the process of each member is
    verified,       \* get_peers: the members each of them can send to
    peer_endpoints, \* peer_endpoints: whose endpoint each of them knows
    msgs,           \* IPv8 datagrams under way
    losses,         \* datagrams that may still get lost
    restarts        \* processes that may still end early

dvars == <<setup, phase, verified, peer_endpoints, msgs, losses, restarts>>

Team == TeamOf(setup)
program == setup.program
Target == setup.target

(* "loaded": IPv8 runs, but has neither the local endpoint nor the target  *)
(* keys.  "waiting": in wait_for_endpoints.  "found": behind it.  "over":  *)
(* the program has ended at its deadline.                                  *)
Phase == {"down", "loaded", "waiting", "found", "over"}

Message ==
    [kind : {"Introduction", "Announcement", "Request"},
     from : Member, to : Member]
      \cup [kind : {"Gossip"}, from : Member, to : Member, about : Member]

DiscoveryTypeOK ==
    /\ setup \in Setups
    /\ phase \in [Team -> Phase]
    /\ verified \in [Team -> SUBSET Team]
    /\ \A n \in Team : peer_endpoints[n] \subseteq Target[n]
    /\ DOMAIN peer_endpoints = Team
    /\ msgs \subseteq Message
    /\ losses \in 0..setup.losses
    /\ restarts \in 0..setup.restarts

DiscoveryInit ==
    /\ setup \in Setups
    /\ phase = [n \in Team |-> IF setup.introduced THEN "waiting" ELSE "down"]
    /\ verified = [n \in Team |-> IF setup.introduced THEN Target[n] ELSE {}]
    /\ peer_endpoints = [n \in Team |-> {}]
    /\ msgs = {}
    /\ losses = setup.losses
    /\ restarts = setup.restarts

(* lab2-prep stops IPv8 as soon as wait_for_endpoints has them all; the    *)
(* race keeps it to the end.                                               *)
OverlayUp(n) ==
    \/ phase[n] \in {"loaded", "waiting"}
    \/ phase[n] = "found" /\ program = "race"

(* set_local_endpoint and set_target_pubkeys have been called. *)
Configured(n) == OverlayUp(n) /\ phase[n] # "loaded"

Unknown(n) == Target[n] \ peer_endpoints[n]

Announcement(n, m) == [kind |-> "Announcement", from |-> n, to |-> m]
Request(n, m) == [kind |-> "Request", from |-> n, to |-> m]
Introduction(n, m) == [kind |-> "Introduction", from |-> n, to |-> m]
Gossip(n, m, about) ==
    [kind |-> "Gossip", from |-> n, to |-> m, about |-> about]

--------------------------------------------------------------------------------
(* The process                                                             *)

(* ipv8.start(): the overlay takes part before it is configured. *)
LoadOverlay(n) ==
    /\ phase[n] = "down"
    /\ phase' = [phase EXCEPT ![n] = "loaded"]
    /\ UNCHANGED <<setup, verified, peer_endpoints, msgs, losses, restarts>>

Configure(n) ==
    /\ phase[n] = "loaded"
    /\ phase' = [phase EXCEPT ![n] = "waiting"]
    /\ UNCHANGED <<setup, verified, peer_endpoints, msgs, losses, restarts>>

(* A turn of the loop of wait_for_endpoints with something missing. *)
RequestEndpoints(n) ==
    /\ phase[n] = "waiting"
    /\ msgs' = msgs \cup {Request(n, m) : m \in verified[n] \cap Unknown(n)}
    /\ UNCHANGED <<setup, phase, verified, peer_endpoints, losses, restarts>>

(* Mistake: the member looks for itself, too. *)
EndpointsFoundWithSelf(n) ==
    /\ phase[n] = "waiting"
    /\ Unknown(n) = {} /\ n \in peer_endpoints[n]
    /\ phase' = [phase EXCEPT ![n] = "found"]
    /\ UNCHANGED <<setup, verified, peer_endpoints, msgs, losses, restarts>>

(* The turn that finds nothing missing. *)
EndpointsFound(n) ==
    /\ phase[n] = "waiting"
    /\ Unknown(n) = {}
    /\ phase' = [phase EXCEPT ![n] = "found"]
    /\ UNCHANGED <<setup, verified, peer_endpoints, msgs, losses, restarts>>

(* The task announce_to_team, every second: it stops once this node knows  *)
(* its teammates, whether or not they know it.                             *)
AnnounceToTeam(n) ==
    /\ Configured(n)
    /\ msgs' = msgs \cup {Announcement(n, m) : m \in verified[n] \cap Unknown(n)}
    /\ UNCHANGED <<setup, phase, verified, peer_endpoints, losses, restarts>>

(* The process fails, or the race gives up after its discovery_timeout;    *)
(* it is then run again, with nothing of what it knew.                     *)
EndEarly(n) ==
    /\ OverlayUp(n)
    /\ restarts > 0
    /\ restarts' = restarts - 1
    /\ phase' = [phase EXCEPT ![n] = "down"]
    /\ verified' = [verified EXCEPT ![n] = {}]
    /\ peer_endpoints' = [peer_endpoints EXCEPT ![n] = {}]
    /\ UNCHANGED <<setup, msgs, losses>>

--------------------------------------------------------------------------------
(* The handlers: what each learns and what it sends                        *)

(* _gossip_known_endpoints, for a newcomer: the others are told of it and  *)
(* it of the others.                                                       *)
GossipKnownEndpoints(n, new) ==
    LET others == peer_endpoints[n] \ {new}
    IN {Gossip(n, m, new) : m \in others \cap verified[n]}
         \cup (IF new \in verified[n] THEN {Gossip(n, new, m) : m \in others} ELSE {})

(* An announcement of a member that is not (yet) a target is ignored. *)
OnEndpointAnnouncement(n, m) ==
    IF ~Configured(n) \/ m.from \notin Target[n]
    THEN UNCHANGED <<verified, peer_endpoints>> /\ msgs' = msgs \ {m}
    ELSE /\ peer_endpoints' = [peer_endpoints EXCEPT ![n] = @ \cup {m.from}]
         /\ msgs' = (msgs \ {m}) \cup
              (IF m.from \in peer_endpoints[n] THEN {}
               ELSE GossipKnownEndpoints(n, m.from))
         /\ UNCHANGED verified

(* Mistake: only those that the node still wants to know are answered. *)
OnEndpointRequestOfUnknown(n, m) ==
    /\ msgs' = (msgs \ {m}) \cup
         (IF Configured(n) /\ m.from \in Unknown(n) THEN {Announcement(n, m.from)} ELSE {})
    /\ UNCHANGED <<verified, peer_endpoints>>

OnEndpointRequest(n, m) ==
    /\ msgs' = (msgs \ {m}) \cup
         (IF Configured(n) /\ m.from \in Target[n] THEN {Announcement(n, m.from)} ELSE {})
    /\ UNCHANGED <<verified, peer_endpoints>>

(* on_endpoint_gossip does not note the endpoint.  It walks to it, but the *)
(* endpoint is that of the UDP socket, where IPv8 does not listen: the     *)
(* introduction request it sends is not answered.                          *)
OnEndpointGossip(n, m) ==
    /\ msgs' = msgs \ {m}
    /\ UNCHANGED <<verified, peer_endpoints>>

(* introduction_response_callback, and what IPv8 does before it. *)
OnIntroductionResponse(n, m) ==
    /\ verified' = [verified EXCEPT ![n] = @ \cup {m.from}]
    /\ msgs' = (msgs \ {m}) \cup
         (IF Configured(n) /\ m.from \in Unknown(n)
          THEN {Request(n, m.from), Announcement(n, m.from)} ELSE {})
    /\ UNCHANGED peer_endpoints

(* A member whose IPv8 is not running receives nothing. *)
Deliver(m) ==
    /\ m \in msgs
    /\ IF ~OverlayUp(m.to)
       THEN UNCHANGED <<verified, peer_endpoints>> /\ msgs' = msgs \ {m}
       ELSE CASE m.kind = "Announcement" -> OnEndpointAnnouncement(m.to, m)
              [] m.kind = "Request" -> OnEndpointRequest(m.to, m)
              [] m.kind = "Gossip" -> OnEndpointGossip(m.to, m)
              [] m.kind = "Introduction" -> OnIntroductionResponse(m.to, m)
    /\ UNCHANGED <<setup, phase, losses, restarts>>

--------------------------------------------------------------------------------
(* IPv8 and the network                                                    *)

(* The random walk of n reaches m: an introduction request that arrives.   *)
(* The walk goes on, as walk_peers is far above the size of the team.      *)
Walk(n, m) ==
    /\ n # m /\ OverlayUp(n) /\ OverlayUp(m)
    /\ m \notin verified[n]
    /\ verified' = [verified EXCEPT ![m] = @ \cup {n}]
    /\ msgs' = msgs \cup {Introduction(m, n)}
    /\ UNCHANGED <<setup, phase, peer_endpoints, losses, restarts>>

Lose(m) ==
    /\ m \in msgs
    /\ losses > 0
    /\ losses' = losses - 1
    /\ msgs' = msgs \ {m}
    /\ UNCHANGED <<setup, phase, verified, peer_endpoints, restarts>>

MemberStep(n) ==
    \/ LoadOverlay(n)
    \/ Configure(n)
    \/ RequestEndpoints(n)
    \/ EndpointsFound(n)
    \/ AnnounceToTeam(n)
    \/ EndEarly(n)

DiscoveryNext ==
    \/ \E n \in Team : MemberStep(n)
    \/ \E n, m \in Team : Walk(n, m)
    \/ \E m \in msgs : Deliver(m) \/ Lose(m)

DiscoverySpec == DiscoveryInit /\ [][DiscoveryNext]_dvars

(* The program is started by everyone, its loops go round, a datagram that *)
(* is not lost arrives, and the walks bring any two overlays that stay up  *)
(* together.  Nothing is asked of gossip, which leads to nothing.          *)
DiscoveryFairness ==
    /\ \A n \in Member :
          /\ WF_dvars(n \in Team /\ LoadOverlay(n))
          /\ WF_dvars(n \in Team /\ Configure(n))
          /\ WF_dvars(n \in Team /\ RequestEndpoints(n))
          /\ WF_dvars(n \in Team /\ EndpointsFound(n))
          /\ WF_dvars(n \in Team /\ AnnounceToTeam(n))
    /\ \A n, m \in Member : n # m =>
          /\ WF_dvars({n, m} \subseteq Team /\ Walk(n, m))
          /\ \A d \in {Introduction(n, m), Announcement(n, m), Request(n, m)} :
                WF_dvars(Deliver(d))

FairDiscoverySpec == DiscoverySpec /\ DiscoveryFairness

--------------------------------------------------------------------------------
(* In the race every member comes to know the endpoints of its teammates   *)
(* for good and goes on, although datagrams get lost, members start at     *)
(* different times and may start again when the others no longer announce  *)
(* themselves (community.py:281).                                          *)
EveryoneLearnsEveryone ==
    program = "race" ~>
        [](\A n \in Team : phase[n] = "found" /\ Unknown(n) = {})
================================================================================
