---------------------------- MODULE PrepPhaseProofs ----------------------------
(***************************************************************************)
(* What holds of the discovery of endpoints and of the preparation test    *)
(* for any setups: teams of any size, any losses and any restarts.         *)
(***************************************************************************)
EXTENDS PrepPhase, TLAPS

(* Datagrams stay within the team. *)
Within(d) == d.from \in Team /\ d.to \in Team

DiscoveryInv ==
    /\ DiscoveryTypeOK
    /\ \A m \in msgs : Within(m) /\ (m.kind = "Gossip" => m.about \in Team)

(* Only a hello reaches the server and sets an event: a pong never does.   *)
HelloInv ==
    /\ \A d \in udp : d.kind = "Hello" => ToServer(d.from, d.to, "Hello") \in sent
    /\ \A d \in udp : d.kind = "Pong" => d.socket = "ping"
    /\ \A n \in Team : \A m \in heard[n] \cup responded[n] :
                         ToServer(m, n, "Hello") \in sent

PrepTypes ==
    /\ stage \in [Team -> Stage]
    /\ heard \in [Team -> SUBSET Team]
    /\ responded \in [Team -> SUBSET Team]
    /\ failed \in [Team -> SUBSET Team]
    /\ udp \subseteq sent /\ sent \subseteq Datagram
    /\ \A d \in udp : Within(d)

PrepInv == DiscoveryInv /\ PrepTypes /\ HelloInv

LEMMA TeamFacts ==
    ASSUME setup \in Setups
    PROVE  /\ Team \subseteq Member
           /\ Target \in [Team -> SUBSET Team]
           /\ \A n, m \in Team : m \in Target[n] <=> n \in Target[m]
           /\ setup.losses \in Nat /\ setup.restarts \in Nat
BY DiscoveryAssumption DEF Team, Member, Target

(* The setup stays, and the team with it. *)
LEMMA TeamStays ==
    UNCHANGED setup => UNCHANGED <<Team, Target, program>>
BY DEF Team, Target, program

--------------------------------------------------------------------------------
(* The discovery. *)

LEMMA DiscoveryStarts == DiscoveryInit => DiscoveryInv
<1> SUFFICES ASSUME DiscoveryInit PROVE DiscoveryInv
  OBVIOUS
<1>1. setup \in Setups
  BY DEF DiscoveryInit
<1>2. phase \in [Team -> Phase] /\ verified \in [Team -> SUBSET Team]
  BY <1>1, TeamFacts DEF DiscoveryInit, Phase
<1> QED
  BY <1>1, <1>2, TeamFacts DEF DiscoveryInit, DiscoveryInv, DiscoveryTypeOK

(* What a step of the discovery has to show. *)
LEMMA DiscoveryKeeps ==
    ASSUME DiscoveryInv, UNCHANGED setup,
           phase' \in [Team -> Phase],
           verified' \in [Team -> SUBSET Team],
           DOMAIN peer_endpoints' = Team,
           \A n \in Team : peer_endpoints'[n] \subseteq Target[n],
           \A m \in msgs' : \/ m \in msgs
                            \/ /\ m \in Message /\ Within(m)
                               /\ m.kind = "Gossip" => m.about \in Team,
           losses' \in 0..setup.losses, restarts' \in 0..setup.restarts
    PROVE  DiscoveryInv'
<1>1. UNCHANGED <<Team, Target>>
  BY TeamStays
<1>2. msgs' \subseteq Message
  BY DEF DiscoveryInv, DiscoveryTypeOK
<1>3. \A m \in msgs' : Within(m) /\ (m.kind = "Gossip" => m.about \in Team)
  BY DEF DiscoveryInv
<1>4. (\A m \in msgs : Within(m) /\ (m.kind = "Gossip" => m.about \in Team))'
  BY <1>1, <1>3 DEF Within
<1>5. DiscoveryTypeOK'
  BY <1>1, <1>2 DEF DiscoveryInv, DiscoveryTypeOK
<1> QED
  BY <1>4, <1>5 DEF DiscoveryInv

LEMMA MessageForms ==
    ASSUME setup \in Setups, NEW n \in Team, NEW m \in Team
    PROVE  /\ \A d \in {Announcement(n, m), Request(n, m), Introduction(n, m)} :
                d \in Message /\ Within(d) /\ d.kind # "Gossip"
           /\ \A a \in Team : /\ Gossip(n, m, a) \in Message /\ Within(Gossip(n, m, a))
                              /\ Gossip(n, m, a).about \in Team
<1>1. n \in Member /\ m \in Member
  BY TeamFacts
<1>2. \A d \in {Announcement(n, m), Request(n, m), Introduction(n, m)} :
        d \in Message /\ Within(d) /\ d.kind # "Gossip"
  BY <1>1 DEF Announcement, Request, Introduction, Message, Within
<1>3. ASSUME NEW a \in Team
      PROVE  /\ Gossip(n, m, a) \in Message /\ Within(Gossip(n, m, a))
             /\ Gossip(n, m, a).about \in Team
  <2>1. a \in Member
    BY TeamFacts
  <2> QED
    BY <1>1, <2>1 DEF Gossip, Message, Within
<1> QED
  BY <1>2, <1>3

LEMMA MemberStepKeeps ==
    ASSUME DiscoveryInv, NEW n \in Team, MemberStep(n)
    PROVE  DiscoveryInv' /\ UNCHANGED setup
<1>1. DiscoveryTypeOK /\ setup \in Setups /\ UNCHANGED setup
  BY DEF DiscoveryInv, DiscoveryTypeOK, MemberStep, LoadOverlay, Configure,
         RequestEndpoints, EndpointsFound, AnnounceToTeam, EndEarly
<1>2. phase' \in [Team -> Phase]
  BY <1>1 DEF DiscoveryTypeOK, Phase, MemberStep, LoadOverlay, Configure,
              RequestEndpoints, EndpointsFound, AnnounceToTeam, EndEarly
<1>3. verified' \in [Team -> SUBSET Team]
  BY <1>1 DEF DiscoveryTypeOK, MemberStep, LoadOverlay, Configure,
              RequestEndpoints, EndpointsFound, AnnounceToTeam, EndEarly
<1>4. DOMAIN peer_endpoints' = Team /\ \A p \in Team : peer_endpoints'[p] \subseteq Target[p]
  BY <1>1 DEF DiscoveryTypeOK, MemberStep, LoadOverlay, Configure,
              RequestEndpoints, EndpointsFound, AnnounceToTeam, EndEarly
<1>5. losses' \in 0..setup.losses /\ restarts' \in 0..setup.restarts
  BY <1>1, TeamFacts DEF DiscoveryTypeOK, MemberStep, LoadOverlay, Configure,
              RequestEndpoints, EndpointsFound, AnnounceToTeam, EndEarly
<1>6. \A d \in msgs' : \/ d \in msgs
                       \/ \E m \in Team : d \in {Announcement(n, m), Request(n, m)}
  BY <1>1, TeamFacts DEF DiscoveryTypeOK, Unknown, MemberStep, LoadOverlay, Configure,
              RequestEndpoints, EndpointsFound, AnnounceToTeam, EndEarly
<1>7. \A d \in msgs' : d \in msgs \/ (d \in Message /\ Within(d) /\ d.kind # "Gossip")
  BY <1>1, <1>6, MessageForms
<1> QED
  BY <1>1, <1>2, <1>3, <1>4, <1>5, <1>7, DiscoveryKeeps

LEMMA DeliverKeeps ==
    ASSUME DiscoveryInv, NEW m \in msgs, Deliver(m)
    PROVE  DiscoveryInv' /\ UNCHANGED setup
<1>1. /\ DiscoveryTypeOK /\ setup \in Setups /\ UNCHANGED <<setup, phase, losses, restarts>>
      /\ m \in Message /\ m.from \in Team /\ m.to \in Team
  BY DEF DiscoveryInv, DiscoveryTypeOK, Deliver, Within
<1> DEFINE n == m.to
           New(d) == /\ d \in Message /\ Within(d)
                     /\ d.kind = "Gossip" => d.about \in Team
           Good == /\ verified' \in [Team -> SUBSET Team]
                   /\ DOMAIN peer_endpoints' = Team
                   /\ \A p \in Team : peer_endpoints'[p] \subseteq Target[p]
                   /\ \A d \in msgs' : d \in msgs \/ New(d)
<1>2. \A p \in Team : New(Announcement(n, p)) /\ New(Request(n, p))
  BY <1>1, MessageForms
<1>3. \A d \in GossipKnownEndpoints(n, m.from) : New(d)
  <2>1. peer_endpoints[n] \subseteq Team
    BY <1>1, TeamFacts DEF DiscoveryTypeOK
  <2>2. \A p, a \in Team : New(Gossip(n, p, a))
    BY <1>1, MessageForms
  <2> HIDE DEF New
  <2> QED
    BY <1>1, <2>1, <2>2 DEF GossipKnownEndpoints
<1> HIDE DEF New
<1>4. UNCHANGED <<verified, peer_endpoints>> /\ msgs' \subseteq msgs => Good
  BY <1>1 DEF DiscoveryTypeOK
<1>5. OnEndpointAnnouncement(n, m) => Good
  BY <1>1, <1>3, <1>4 DEF OnEndpointAnnouncement, DiscoveryTypeOK
<1>6. OnEndpointRequest(n, m) => Good
  BY <1>1, <1>2 DEF OnEndpointRequest, DiscoveryTypeOK
<1>7. OnEndpointGossip(n, m) => Good
  BY <1>4 DEF OnEndpointGossip
<1>8. OnIntroductionResponse(n, m) => Good
  BY <1>1, <1>2 DEF OnIntroductionResponse, DiscoveryTypeOK
<1>9. m.kind \in {"Announcement", "Request", "Gossip", "Introduction"}
  BY <1>1 DEF Message
<1>10. Good
  BY <1>4, <1>5, <1>6, <1>7, <1>8, <1>9 DEF Deliver
<1>11. phase' \in [Team -> Phase] /\ losses' \in 0..setup.losses /\ restarts' \in 0..setup.restarts
  BY <1>1 DEF DiscoveryTypeOK
<1> QED
  BY <1>1, <1>10, <1>11, DiscoveryKeeps DEF New

LEMMA NetworkStepKeeps ==
    ASSUME DiscoveryInv,
           \/ \E n, m \in Team : Walk(n, m)
           \/ \E m \in msgs : Lose(m)
    PROVE  DiscoveryInv' /\ UNCHANGED setup
<1>1. DiscoveryTypeOK /\ setup \in Setups /\ setup.losses \in Nat
  BY TeamFacts DEF DiscoveryInv, DiscoveryTypeOK
<1>2. ASSUME NEW n \in Team, NEW m \in Team, Walk(n, m)
      PROVE  DiscoveryInv' /\ UNCHANGED setup
  <2>1. UNCHANGED <<setup, phase, peer_endpoints, losses, restarts>>
    BY <1>2 DEF Walk
  <2>2. verified' \in [Team -> SUBSET Team]
    BY <1>1, <1>2 DEF Walk, DiscoveryTypeOK
  <2>3. \A d \in msgs' : d \in msgs \/ (d \in Message /\ Within(d) /\ d.kind # "Gossip")
    BY <1>1, <1>2, MessageForms DEF Walk
  <2> QED
    BY <1>1, <2>1, <2>2, <2>3, DiscoveryKeeps DEF DiscoveryTypeOK
<1>3. ASSUME NEW m \in msgs, Lose(m)
      PROVE  DiscoveryInv' /\ UNCHANGED setup
  <2>1. UNCHANGED <<setup, phase, verified, peer_endpoints, restarts>> /\ msgs' \subseteq msgs
    BY <1>3 DEF Lose
  <2>2. losses' \in 0..setup.losses
    BY <1>1, <1>3 DEF Lose, DiscoveryTypeOK
  <2> QED
    BY <1>1, <2>1, <2>2, DiscoveryKeeps DEF DiscoveryTypeOK
<1> QED
  BY <1>2, <1>3

LEMMA DiscoveryNextKeeps ==
    ASSUME DiscoveryInv, DiscoveryNext
    PROVE  DiscoveryInv' /\ UNCHANGED setup
BY MemberStepKeeps, DeliverKeeps, NetworkStepKeeps DEF DiscoveryNext

--------------------------------------------------------------------------------
(* The preparation. *)

LEMMA PrepStarts == PrepInit => PrepInv
<1> SUFFICES ASSUME PrepInit PROVE PrepInv
  OBVIOUS
<1>1. DiscoveryInv
  BY DiscoveryStarts DEF PrepInit
<1>2. PrepTypes
  BY DEF PrepInit, PrepTypes, Stage
<1>3. HelloInv
  BY DEF PrepInit, HelloInv
<1> QED
  BY <1>1, <1>2, <1>3 DEF PrepInv

LEMMA DiscoveryStepKeepsPrep ==
    ASSUME PrepInv, DiscoveryStep
    PROVE  PrepInv'
<1>1. DiscoveryInv' /\ UNCHANGED setup
  BY DiscoveryNextKeeps DEF DiscoveryStep, PrepInv
<1>2. UNCHANGED <<Team, stage, responded, failed, udp, sent>>
  BY <1>1, TeamStays DEF DiscoveryStep
<1>3. heard' \in [Team -> SUBSET Team] /\ \A n \in Team : heard'[n] \subseteq heard[n]
  BY DEF DiscoveryStep, PrepInv, PrepTypes
<1>4. PrepTypes'
  BY <1>2, <1>3 DEF PrepInv, PrepTypes, Within
<1>5. HelloInv'
  BY <1>2, <1>3 DEF PrepInv, HelloInv, ToServer
<1> QED
  BY <1>1, <1>4, <1>5 DEF PrepInv

LEMMA DiscoveryRests ==
    ASSUME PrepInv, UNCHANGED dvars
    PROVE  DiscoveryInv' /\ UNCHANGED <<setup, Team, Target>>
<1>1. UNCHANGED <<setup, phase, verified, peer_endpoints, msgs, losses, restarts>>
  BY DEF dvars
<1> QED
  BY <1>1, TeamStays, DiscoveryKeeps DEF PrepInv, DiscoveryInv, DiscoveryTypeOK

(* Datagrams to the server of another member. *)
LEMMA DatagramForms ==
    ASSUME setup \in Setups, NEW n \in Team, NEW m \in Team
    PROVE  /\ \A kind \in {"Hello", "Ping"} :
                ToServer(n, m, kind) \in Datagram /\ Within(ToServer(n, m, kind))
           /\ \A d : d.from = m => PongTo(d, n) \in Datagram /\ Within(PongTo(d, n))
<1>1. n \in Member /\ m \in Member
  BY TeamFacts
<1> QED
  BY <1>1 DEF ToServer, PongTo, Datagram, Within

LEMMA PrepStepKeeps ==
    ASSUME PrepInv, NEW n \in Team, PrepStep(n)
    PROVE  PrepInv'
<1>1. /\ PrepTypes /\ HelloInv /\ setup \in Setups
      /\ Target \in [Team -> SUBSET Team]
  BY TeamFacts DEF PrepInv, DiscoveryInv, DiscoveryTypeOK
<1>2. DiscoveryInv' /\ UNCHANGED <<setup, Team, Target>>
  BY DiscoveryRests DEF PrepStep, AnnounceEndpoint, SendPings, EndPrep, PeerResponded,
                        PeerSilent
<1>3. CASE AnnounceEndpoint(n)
  <2>1. \A d \in udp' : d \in udp \/ \E m \in Target[n] : d = ToServer(n, m, "Hello")
    BY <1>3 DEF AnnounceEndpoint, SendUdp
  <2>2. /\ sent' = sent \cup {ToServer(n, m, "Hello") : m \in Target[n]}
        /\ udp' = udp \cup {ToServer(n, m, "Hello") : m \in Target[n]}
    BY <1>3 DEF AnnounceEndpoint, SendUdp
  <2>3. udp' \subseteq sent' /\ sent' \subseteq Datagram /\ \A d \in udp' : Within(d)
    BY <1>1, <2>2, DatagramForms DEF PrepTypes
  <2>4. stage' \in [Team -> Stage] /\ UNCHANGED <<heard, responded, failed>>
    BY <1>1, <1>3 DEF AnnounceEndpoint, PrepTypes, Stage
  <2>5. PrepTypes'
    BY <1>1, <1>2, <2>3, <2>4 DEF PrepTypes, Within
  <2>6. HelloInv'
    BY <1>1, <1>2, <2>1, <2>2, <2>4 DEF HelloInv, ToServer
  <2> QED
    BY <1>2, <2>5, <2>6 DEF PrepInv
<1>4. CASE SendPings(n)
  <2>1. \A d \in udp' : d \in udp \/ \E m \in Target[n] : d = ToServer(n, m, "Ping")
    BY <1>4 DEF SendPings, SendUdp
  <2>2. /\ sent \subseteq sent' /\ udp' \subseteq sent' /\ sent' \subseteq Datagram
        /\ \A d \in udp' : Within(d)
    BY <1>1, <1>4, DatagramForms DEF SendPings, SendUdp, PrepTypes
  <2>3. stage' \in [Team -> Stage] /\ UNCHANGED <<heard, responded, failed>>
    BY <1>1, <1>4 DEF SendPings, PrepTypes, Stage
  <2>4. PrepTypes'
    BY <1>1, <1>2, <2>2, <2>3 DEF PrepTypes, Within
  <2>5. HelloInv'
    BY <1>1, <1>2, <2>1, <2>2, <2>3 DEF HelloInv, ToServer
  <2> QED
    BY <1>2, <2>4, <2>5 DEF PrepInv
<1>5. CASE \E m \in Team : PeerResponded(n, m)
  <2>1. PICK m \in Team : PeerResponded(n, m)
    BY <1>5
  <2>2. /\ responded' = [responded EXCEPT ![n] = @ \cup {m}] /\ m \in heard[n]
        /\ UNCHANGED <<stage, heard, failed, udp, sent>>
    BY <2>1 DEF PeerResponded
  <2>3. PrepTypes'
    BY <1>1, <1>2, <2>2 DEF PrepTypes, Within
  <2>4. HelloInv'
    BY <1>1, <1>2, <2>2 DEF HelloInv, PrepTypes, ToServer
  <2> QED
    BY <1>2, <2>3, <2>4 DEF PrepInv
<1>6. CASE EndPrep(n) \/ \E m \in Team : PeerSilent(n, m)
  <2>1. UNCHANGED <<heard, responded, udp, sent>>
    BY <1>6 DEF EndPrep, PeerSilent
  <2>2. stage' \in [Team -> Stage] /\ failed' \in [Team -> SUBSET Team]
    <3>1. CASE EndPrep(n)
      BY <1>1, <3>1 DEF EndPrep, PrepTypes, Stage
    <3>2. CASE \E m \in Team : PeerSilent(n, m)
      BY <1>1, <3>2 DEF PeerSilent, PrepTypes
    <3> QED
      BY <1>6, <3>1, <3>2
  <2>3. PrepTypes'
    BY <1>1, <1>2, <2>1, <2>2 DEF PrepTypes, Within
  <2>4. HelloInv'
    BY <1>1, <1>2, <2>1 DEF HelloInv, ToServer
  <2> QED
    BY <1>2, <2>3, <2>4 DEF PrepInv
<1> QED
  BY <1>3, <1>4, <1>5, <1>6 DEF PrepStep

LEMMA DeliverUdpKeeps ==
    ASSUME PrepInv, NEW d \in udp, DeliverUdp(d)
    PROVE  PrepInv'
<1>1. /\ PrepTypes /\ HelloInv /\ setup \in Setups
      /\ d \in Datagram /\ d.from \in Team /\ d.to \in Team
  BY DEF PrepInv, PrepTypes, DiscoveryInv, DiscoveryTypeOK, Within
<1>2. DiscoveryInv' /\ UNCHANGED <<setup, Team, Target>>
  BY DiscoveryRests DEF DeliverUdp
<1>3. UNCHANGED <<stage, responded, failed>>
  BY DEF DeliverUdp
<1>4. \/ udp' \subseteq udp /\ UNCHANGED <<heard, sent>>
      \/ /\ udp' \subseteq udp \cup {PongTo(d, d.to)} /\ UNCHANGED heard
         /\ sent' = sent \cup {PongTo(d, d.to)}
      \/ /\ d.kind # "Ping" /\ d.socket = "server"
         /\ udp' \subseteq udp /\ UNCHANGED sent
         /\ heard' = [heard EXCEPT ![d.to] = @ \cup {d.from}]
  BY DEF DeliverUdp, HandleMessage
<1>5. PongTo(d, d.to) \in Datagram /\ Within(PongTo(d, d.to))
  BY <1>1, DatagramForms
<1>6. ASSUME d.kind # "Ping", d.socket = "server"
      PROVE  ToServer(d.from, d.to, "Hello") \in sent
  <2>1. d.kind = "Hello"
    BY <1>1, <1>6 DEF Datagram, HelloInv
  <2> QED
    BY <1>1, <2>1 DEF HelloInv
<1>7. /\ heard' \in [Team -> SUBSET Team]
      /\ udp' \subseteq sent' /\ sent' \subseteq Datagram /\ \A e \in udp' : Within(e)
  BY <1>1, <1>4, <1>5 DEF PrepTypes
<1>8. PrepTypes'
  BY <1>1, <1>2, <1>3, <1>7 DEF PrepTypes, Within
<1>9. /\ \A e \in udp' : e \in udp \/ (e.kind = "Pong" /\ e.socket = "ping")
      /\ sent \subseteq sent'
  BY <1>4 DEF PongTo
<1>10. \A n \in Team : \A m \in heard'[n] :
          m \in heard[n] \/ ToServer(m, n, "Hello") \in sent
  BY <1>1, <1>4, <1>6 DEF PrepTypes
<1>11. HelloInv'
  BY <1>1, <1>2, <1>3, <1>9, <1>10 DEF HelloInv, ToServer
<1> QED
  BY <1>2, <1>8, <1>11 DEF PrepInv

(* The deadline only takes away. *)
LEMMA TimeOutKeeps ==
    ASSUME PrepInv, NEW n \in Team, TimeOut(n)
    PROVE  PrepInv'
<1>1. /\ PrepTypes /\ HelloInv /\ DiscoveryInv /\ DiscoveryTypeOK
      /\ UNCHANGED <<setup, msgs, losses, restarts, udp, sent>>
      /\ UNCHANGED Team
  BY TeamStays DEF PrepInv, DiscoveryInv, TimeOut
<1>2. /\ phase' \in [Team -> Phase] /\ stage' \in [Team -> Stage]
      /\ verified' \in [Team -> SUBSET Team]
      /\ DOMAIN peer_endpoints' = Team
      /\ \A m \in Team : peer_endpoints'[m] \subseteq Target[m]
  BY <1>1 DEF TimeOut, DiscoveryTypeOK, PrepTypes, Phase, Stage
<1>3. DiscoveryInv'
  BY <1>1, <1>2, DiscoveryKeeps DEF DiscoveryTypeOK
<1>4. /\ heard' \in [Team -> SUBSET Team] /\ responded' \in [Team -> SUBSET Team]
      /\ failed' \in [Team -> SUBSET Team]
      /\ \A m \in Team : heard'[m] \subseteq heard[m] /\ responded'[m] \subseteq responded[m]
  BY <1>1 DEF TimeOut, PrepTypes
<1>5. PrepTypes'
  BY <1>1, <1>2, <1>4 DEF PrepTypes, Within
<1>6. HelloInv'
  BY <1>1, <1>4 DEF HelloInv, ToServer
<1> QED
  BY <1>3, <1>5, <1>6 DEF PrepInv

LEMMA PrepNextKeeps == PrepInv /\ [PrepNext]_vars => PrepInv'
<1> SUFFICES ASSUME PrepInv, [PrepNext]_vars PROVE PrepInv'
  OBVIOUS
<1>1. CASE UNCHANGED vars
  <2>1. UNCHANGED <<dvars, stage, heard, responded, failed, udp, sent>>
    BY <1>1 DEF vars, pvars
  <2>2. DiscoveryInv' /\ UNCHANGED Team
    BY <2>1, DiscoveryRests
  <2> QED
    BY <2>1, <2>2 DEF PrepInv, PrepTypes, HelloInv, Within, ToServer
<1> QED
  BY <1>1, DiscoveryStepKeepsPrep, PrepStepKeeps, TimeOutKeeps,
     DeliverUdpKeeps DEF PrepNext

LEMMA PrepInvariance == PrepSpec => []PrepInv
BY PrepStarts, PrepNextKeeps, PTL DEF PrepSpec

--------------------------------------------------------------------------------

(* The members keep their types: among them that nobody knows the endpoint *)
(* of anyone but its targets, whatever is announced or gossiped to it.     *)
THEOREM PrepTypeCorrect == PrepSpec => []PrepTypeOK
<1>1. PrepInv => PrepTypeOK
  BY DEF PrepInv, DiscoveryInv, PrepTypes, PrepTypeOK
<1> QED
  BY <1>1, PrepInvariance, PTL

(* Whoever counts as reachable has said hello to the one that counts it:   *)
(* ping and pong alone never make a peer reachable.                        *)
THEOREM GreetedTheorem == PrepSpec => []ReachableMeansGreeted
<1>1. PrepInv => ReachableMeansGreeted
  BY DEF PrepInv, HelloInv, ReachableMeansGreeted
<1> QED
  BY <1>1, PrepInvariance, PTL
================================================================================
