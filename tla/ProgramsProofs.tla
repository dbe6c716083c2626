----------------------------- MODULE ProgramsProofs ----------------------------
(***************************************************************************)
(* The safety of the programs that run before or beside the protocols.     *)
(* The start of the Lab 3 nodes, for any team: type correctness, the start *)
(* gate, and what a registration reports.  The set-up of the Lab 2 race,   *)
(* for any number of members, polls, requests and runs: type correctness,  *)
(* the file with the server's address, and that nobody races in a group    *)
(* the server does not have.  The Lab 1 client, for every width of a byte, *)
(* length of a digest, hash function, range of nonces and command line:    *)
(* the zero bits are counted right, which the search and the server's      *)
(* verdict rest on, and the search and the overlay keep PowInv.  The       *)
(* programs share no state.                                                *)
(***************************************************************************)
EXTENDS NodeStartup, RaceSetup, PowClient, FiniteSetTheorems, WellFoundedInduction,
        TLAPS

--------------------------------------------------------------------------------
(* The start of the nodes.                                                 *)

(* Only those who asked to are registered, after they have waited for the  *)
(* server; the attempts are counted from then on.                          *)
AttemptsFollowProgress == \A n \in Nodes :
    /\ progress[n] \in {"server", "asking"} => n \in Registrants
    /\ progress[n] = "server" => attempts[n] = 0
    /\ progress[n] \in {"absent", "down", "gate"} => attempts[n] = 0

(* A registration comes from a registrant, and an answer comes after what  *)
(* it answers.                                                             *)
AnswersFollow == \A n \in Nodes :
    /\ RegisterBlockchain(n) \in datagrams => n \in Registrants
    /\ (RegisterResponse(n) \in datagrams \/ n \in answered) /\ ruling = "success" =>
          n \in registry

(* The server does not change its mind. *)
RulingStands ==
    /\ registry # {} => ruling = "success"
    /\ \A n \in Nodes : result[n] = "failure" => ruling = "failure"

StartupFacts ==
    /\ AttemptsFollowProgress
    /\ AnswersFollow
    /\ RulingStands
    /\ LoopsHaveTeam
    /\ ReportIsTrue

StartupInv == StartupTypeOK /\ StartupFacts

(* A round makes finitely many walks, so that what it loses can be counted. *)
LEMMA WalksAreFinite ==
    ASSUME NEW walks \in SUBSET [from : Process, to : Process, overlay : Overlay]
    PROVE  IsFiniteSet(walks)
  <1> DEFINE P == (Process \X Process) \X Overlay
             W == [from : Process, to : Process, overlay : Overlay]
             f == [x \in P |-> [from |-> x[1][1], to |-> x[1][2], overlay |-> x[2]]]
  <1>1. IsFiniteSet(Process)
    BY StartupAssumption, FS_AddElement DEF Process
  <1>2. IsFiniteSet(Overlay)
    <2>1. IsFiniteSet({"registration"})
      BY FS_Singleton
    <2>2. IsFiniteSet({"registration"} \cup {"blockchain"})
      BY <2>1, FS_AddElement
    <2>3. Overlay = {"registration"} \cup {"blockchain"}
      BY DEF Overlay
    <2> QED BY <2>2, <2>3
  <1>3. IsFiniteSet(Process \X Process)
    BY <1>1, FS_Product
  <1>4. IsFiniteSet(P)
    BY <1>2, <1>3, FS_Product
  <1>5. f \in Surjection(P, W)
    <2>1. f \in [P -> W]
      OBVIOUS
    <2>2. ASSUME NEW w \in W PROVE \E x \in P : f[x] = w
      <3>1. <<<<w.from, w.to>>, w.overlay>> \in P
        OBVIOUS
      <3>2. f[<<<<w.from, w.to>>, w.overlay>>] = [from |-> w.from, to |-> w.to, overlay |-> w.overlay]
        BY <3>1
      <3>3. w = [from |-> w.from, to |-> w.to, overlay |-> w.overlay]
        OBVIOUS
      <3> QED BY <3>1, <3>2, <3>3
    <2> QED BY <2>1, <2>2 DEF Surjection
  <1> HIDE DEF f
  <1>6. IsFiniteSet(W)
    BY <1>4, <1>5, FS_Surjection
  <1> QED BY <1>6, FS_Subset

(* The walks of one round keep the types, and no peer is forgotten.        *)
LEMMA WalksAddPeers ==
    ASSUME StartupTypeOK, NEW walks \in SUBSET [from : Process, to : Process, overlay : Overlay],
           MakeWalks(walks)
    PROVE  /\ peers' \in [Process -> [Overlay -> SUBSET Process]]
           /\ lost' \in 0..MaxDatagramsLost
           /\ \A p \in Process, o \in Overlay : peers[p][o] \subseteq peers'[p][o]
  <1>0. PICK unheard \in SUBSET Useful(walks) :
          \E unanswered \in SUBSET (Useful(walks) \ unheard) :
            /\ lost' = lost + Cardinality(unheard \cup unanswered)
            /\ lost' <= MaxDatagramsLost
            /\ peers' = Met(Useful(walks) \ (unheard \cup unanswered), unanswered)
    BY DEF MakeWalks
  <1>1. PICK unanswered \in SUBSET (Useful(walks) \ unheard) :
          /\ lost' = lost + Cardinality(unheard \cup unanswered)
          /\ lost' <= MaxDatagramsLost
          /\ peers' = Met(Useful(walks) \ (unheard \cup unanswered), unanswered)
    BY <1>0
  <1>2. unheard \cup unanswered \in SUBSET [from : Process, to : Process, overlay : Overlay]
    BY DEF Useful
  <1>3. Cardinality(unheard \cup unanswered) \in Nat
    BY <1>2, WalksAreFinite, FS_CardinalityType
  <1>4. lost' \in 0..MaxDatagramsLost
    <2>1. lost \in 0..MaxDatagramsLost /\ MaxDatagramsLost \in Nat
      BY StartupAssumption DEF StartupTypeOK
    <2> HIDE DEF Useful
    <2> QED BY <1>1, <1>3, <2>1
  <1> DEFINE back == Useful(walks) \ (unheard \cup unanswered)
             known(p, o) ==
               peers[p][o] \cup {w.to : w \in {v \in back : v.from = p /\ v.overlay = o}}
                 \cup {w.from : w \in {v \in back \cup unanswered : v.to = p /\ v.overlay = o}}
  <1>5. peers' = [p \in Process |-> [o \in Overlay |-> known(p, o)]]
    BY <1>1 DEF Met
  <1>6. /\ back \subseteq [from : Process, to : Process, overlay : Overlay]
        /\ unanswered \subseteq [from : Process, to : Process, overlay : Overlay]
    BY DEF Useful
  <1>7. \A p \in Process, o \in Overlay : peers[p][o] \subseteq Process
    <2>1. peers \in [Process -> [Overlay -> SUBSET Process]]
      BY DEF StartupTypeOK
    <2> QED BY <2>1
  <1> HIDE DEF back
  <1>8. \A p \in Process, o \in Overlay :
          known(p, o) \subseteq Process /\ peers[p][o] \subseteq known(p, o)
    BY <1>6, <1>7
  <1> HIDE DEF known
  <1>9. peers' \in [Process -> [Overlay -> SUBSET Process]]
    BY <1>5, <1>8
  <1>10. \A p \in Process, o \in Overlay : peers'[p][o] = known(p, o)
    BY <1>5
  <1> QED BY <1>4, <1>8, <1>9, <1>10

(* What a round walks to are processes, in the overlays of the node. *)
LEMMA RoundsAreWalks ==
    ASSUME StartupTypeOK, NEW n \in Nodes
    PROVE  SeedWalks(n) \in SUBSET [from : Process, to : Process, overlay : Overlay]
  <1> DEFINE seeds == IF n \in resolved' THEN {CourseServer} ELSE {}
             discovered == UNION {peers[n][o] : o \in Overlay}
  <1>1. seeds \subseteq Process
    BY DEF Process
  <1>3. n \in Process
    BY DEF Process
  <1>2. discovered \subseteq Process
    <2>1. peers \in [Process -> [Overlay -> SUBSET Process]]
      BY DEF StartupTypeOK
    <2>2. \A o \in Overlay : peers[n][o] \subseteq Process
      BY <1>3, <2>1
    <2> QED BY <2>2
  <1>4. SeedWalks(n) = {Walk(n, p, o) : p \in seeds \cup discovered, o \in Overlay}
    BY DEF SeedWalks
  <1> HIDE DEF seeds, discovered
  <1> QED BY <1>1, <1>2, <1>3, <1>4 DEF Walk

(* So a team that is there stays there. *)
LEMMA PeersOnlyGrow ==
    ASSUME StartupTypeOK, LoopsHaveTeam, UNCHANGED loops,
           NEW walks \in SUBSET [from : Process, to : Process, overlay : Overlay],
           MakeWalks(walks)
    PROVE  LoopsHaveTeam'
  <1>1. \A n \in Nodes : peers[n]["blockchain"] \subseteq peers'[n]["blockchain"]
    BY WalksAddPeers DEF Process, Overlay
  <1> QED BY <1>1 DEF LoopsHaveTeam, StartupTypeOK

LEMMA StartupStarts == StartupInit => StartupInv
  <1> SUFFICES ASSUME NEW members \in SUBSET Nodes, StartupInitOf(members) PROVE StartupInv
    BY DEF StartupInit
  <1> USE StartupAssumption
  <1>1. progress \in [Nodes -> Progress] /\ result \in [Nodes -> {"none", "success", "failure", "unheard"}]
    BY DEF StartupInitOf, Progress
  <1>2. peers \in [Process -> [Overlay -> SUBSET Process]]
    BY DEF StartupInitOf
  <1>3. round_no \in [Nodes -> 0..ReresolveEvery] /\ attempts \in [Nodes -> 0..Retries + 1]
    BY DEF StartupInitOf
  <1>4. lost \in 0..MaxDatagramsLost /\ dns_faults \in 0..MaxDnsFaults
    BY DEF StartupInitOf
  <1>5. /\ loops \subseteq Nodes /\ resolved \subseteq Nodes /\ answered \subseteq Nodes
        /\ registry \subseteq Registrants /\ ruling \in {"success", "failure"} /\ datagrams \subseteq Datagrams
    BY DEF StartupInitOf
  <1>6. StartupTypeOK
    BY <1>1, <1>2, <1>3, <1>4, <1>5, Zenon DEF StartupTypeOK
  <1>7. AttemptsFollowProgress /\ AnswersFollow
    BY DEF StartupInitOf, AttemptsFollowProgress, AnswersFollow
  <1>8. RulingStands /\ LoopsHaveTeam /\ ReportIsTrue
    BY DEF StartupInitOf, RulingStands, LoopsHaveTeam, ReportIsTrue
  <1> QED BY <1>6, <1>7, <1>8 DEF StartupInv, StartupFacts

(* The types are kept. *)
LEMMA StartupTypeSteps ==
    ASSUME StartupInv, [StartupNext]_startupVars
    PROVE  StartupTypeOK'
  <1> USE StartupAssumption
  <1>0. StartupTypeOK
    BY DEF StartupInv
  <1>1. ASSUME NEW n \in Nodes, BuildNode(n) PROVE StartupTypeOK'
    BY <1>0, <1>1 DEF StartupTypeOK, Progress, BuildNode, ResolveSeeds, DnsFault,
       registrationVars
  <1>2. ASSUME NEW n \in Nodes, GateOpens(n) PROVE StartupTypeOK'
    BY <1>0, <1>2 DEF StartupTypeOK, Progress, GateOpens, AfterGate, TeammatesFound, discoveryVars, registrationVars
  <1>3. ASSUME NEW n \in Nodes, GateTimesOut(n) PROVE StartupTypeOK'
    BY <1>0, <1>3 DEF StartupTypeOK, Progress, GateTimesOut, AfterGate, discoveryVars, registrationVars
  <1>4. ASSUME NEW n \in Nodes, ServerFound(n) PROVE StartupTypeOK'
    <2>1. attempts[n] \in Nat /\ Retries \in Nat
      BY <1>0 DEF StartupTypeOK
    <2>2. attempts[n] = 0
      BY <1>4 DEF ServerFound, StartupInv, StartupFacts, AttemptsFollowProgress
    <2>3. RegisterBlockchain(n) \in Datagrams
      BY DEF Datagrams
    <2>4. attempts' \in [Nodes -> 0..Retries + 1] /\ datagrams' \subseteq Datagrams
      BY <1>0, <1>4, <2>1, <2>2, <2>3 DEF StartupTypeOK, ServerFound, SendRegister
    <2> QED BY <1>0, <1>4, <2>4 DEF StartupTypeOK, Progress, ServerFound, discoveryVars
  <1>5. ASSUME NEW n \in Nodes, ServerNotFound(n) PROVE StartupTypeOK'
    BY <1>0, <1>5 DEF StartupTypeOK, Progress, ServerNotFound, Registered, discoveryVars
  <1>6. ASSUME NEW n \in Nodes, RegistrationResult(n) PROVE StartupTypeOK'
    BY <1>0, <1>6 DEF StartupTypeOK, Progress, RegistrationResult, Registered, discoveryVars
  <1>7. ASSUME NEW n \in Nodes, RegistrationUnanswered(n) PROVE StartupTypeOK'
    <2>1. attempts[n] \in Nat /\ Retries \in Nat
      BY <1>0 DEF StartupTypeOK
    <2>3. RegisterBlockchain(n) \in Datagrams
      BY DEF Datagrams
    <2>4. attempts' \in [Nodes -> 0..Retries + 1] /\ datagrams' \subseteq Datagrams
      BY <1>0, <1>7, <2>1, <2>3 DEF StartupTypeOK, RegistrationUnanswered, SendRegister
    <2> QED BY <1>0, <1>7, <2>4 DEF StartupTypeOK, Progress, RegistrationUnanswered, SendRegister, Registered, discoveryVars
  <1>8. ASSUME NEW n \in Nodes, SeedWalkRound(n) PROVE StartupTypeOK'
    <2>1. resolved' \subseteq Nodes /\ dns_faults' \in 0..MaxDnsFaults
      BY <1>0, <1>8 DEF SeedWalkRound, ReresolveSeeds, DnsFault, StartupTypeOK
    <2>2. round_no' \in [Nodes -> 0..ReresolveEvery]
      <3>1. (round_no[n] % ReresolveEvery) + 1 \in 0..ReresolveEvery
        BY <1>0 DEF StartupTypeOK
      <3> QED BY <1>0, <1>8, <3>1 DEF SeedWalkRound, StartupTypeOK
    <2>3. MakeWalks(SeedWalks(n))
          /\ UNCHANGED <<progress, loops, registrationVars, ruling, datagrams>>
      BY <1>8 DEF SeedWalkRound
    <2>4. peers' \in [Process -> [Overlay -> SUBSET Process]] /\ lost' \in 0..MaxDatagramsLost
      BY <1>0, <2>3, RoundsAreWalks, WalksAddPeers
    <2> QED BY <1>0, <2>1, <2>2, <2>3, <2>4 DEF StartupTypeOK, registrationVars
  <1>9. ASSUME NEW n \in Nodes, NEW m \in Nodes, Introduce(n, m) PROVE StartupTypeOK'
    <2>1. {Walk(n, m, "registration")} \in SUBSET [from : Process, to : Process, overlay : Overlay]
      BY DEF Walk, Process, Overlay
    <2>2. /\ MakeWalks({Walk(n, m, "registration")})
          /\ UNCHANGED <<progress, loops, resolved, round_no, dns_faults, registrationVars,
                         ruling, datagrams>>
      BY <1>9 DEF Introduce
    <2>3. peers' \in [Process -> [Overlay -> SUBSET Process]] /\ lost' \in 0..MaxDatagramsLost
      BY <1>0, <2>1, <2>2, WalksAddPeers
    <2> QED BY <1>0, <2>2, <2>3 DEF StartupTypeOK, registrationVars
  <1>10. ASSUME NEW d \in datagrams, Receive(d) PROVE StartupTypeOK'
    <2>1. CASE OnRegisterBlockchain(d)
      <3>1. PICK n \in Nodes : d = RegisterBlockchain(n)
        BY <1>0, <2>1 DEF OnRegisterBlockchain, StartupTypeOK, Datagrams, RegisterResponse
      <3>2. d.from = n /\ n \in Registrants
        BY <3>1 DEF StartupInv, StartupFacts, AnswersFollow, RegisterBlockchain
      <3>3. RegisterResponse(d.from) \in Datagrams
        BY <3>2 DEF Datagrams
      <3> QED BY <1>0, <1>10, <2>1, <3>2, <3>3
          DEF Receive, OnRegisterBlockchain, StartupTypeOK, discoveryVars
    <2>2. CASE OnRegisterResponse(d)
      <3>1. PICK n \in Nodes : d = RegisterResponse(n)
        BY <1>0, <2>2 DEF OnRegisterResponse, StartupTypeOK, Datagrams, RegisterBlockchain
      <3>2. d.to = n
        BY <3>1 DEF RegisterResponse
      <3> QED BY <1>0, <1>10, <2>2, <3>2
          DEF Receive, OnRegisterResponse, StartupTypeOK, discoveryVars
    <2> QED BY <1>10, <2>1, <2>2 DEF Receive
  <1>11. ASSUME NEW d \in datagrams, LoseDatagram(d) PROVE StartupTypeOK'
    BY <1>0, <1>11 DEF LoseDatagram, StartupTypeOK, discoveryVars, registrationVars
  <1>12. CASE UNCHANGED startupVars
    BY <1>0, <1>12 DEF startupVars, StartupTypeOK, discoveryVars, registrationVars
  <1> QED
    BY <1>1, <1>2, <1>3, <1>4, <1>5, <1>6, <1>7, <1>8, <1>9, <1>10, <1>11, <1>12
    DEF StartupNext, StartupStep

(* Everything else is kept: the discovery only adds peers, and an answer   *)
(* is made by the server together with what it says.                       *)
LEMMA StartupFactSteps ==
    ASSUME StartupInv, [StartupNext]_startupVars
    PROVE  StartupFacts'
  <1> USE StartupAssumption
  <1>0. StartupTypeOK /\ StartupFacts
    BY DEF StartupInv
  <1>1. ASSUME NEW n \in Nodes, BuildNode(n) PROVE StartupFacts'
    <2> USE <1>0, <1>1 DEF StartupTypeOK, StartupFacts, BuildNode, ResolveSeeds, registrationVars
    <2>1. AttemptsFollowProgress'
      BY DEF AttemptsFollowProgress, Progress
    <2>2. AnswersFollow'
      BY DEF AnswersFollow, AttemptsFollowProgress
    <2>3. RulingStands' /\ LoopsHaveTeam' /\ ReportIsTrue'
      BY DEF RulingStands, LoopsHaveTeam, ReportIsTrue, AnswersFollow
    <2> QED BY <2>1, <2>2, <2>3
  <1>2. ASSUME NEW n \in Nodes, GateOpens(n) PROVE StartupFacts'
    <2> USE <1>0, <1>2 DEF StartupTypeOK, StartupFacts, GateOpens, AfterGate, TeammatesFound, discoveryVars, registrationVars
    <2>1. AttemptsFollowProgress'
      BY DEF AttemptsFollowProgress, Progress
    <2>2. AnswersFollow'
      BY DEF AnswersFollow, AttemptsFollowProgress
    <2>3. RulingStands' /\ LoopsHaveTeam' /\ ReportIsTrue'
      BY DEF RulingStands, LoopsHaveTeam, ReportIsTrue, AnswersFollow
    <2> QED BY <2>1, <2>2, <2>3
  <1>3. ASSUME NEW n \in Nodes, GateTimesOut(n) PROVE StartupFacts'
    <2> USE <1>0, <1>3 DEF StartupTypeOK, StartupFacts, GateTimesOut, AfterGate, discoveryVars, registrationVars
    <2>1. AttemptsFollowProgress'
      BY DEF AttemptsFollowProgress, Progress
    <2>2. AnswersFollow'
      BY DEF AnswersFollow, AttemptsFollowProgress
    <2>3. RulingStands' /\ LoopsHaveTeam' /\ ReportIsTrue'
      BY DEF RulingStands, LoopsHaveTeam, ReportIsTrue, AnswersFollow
    <2> QED BY <2>1, <2>2, <2>3
  <1>4. ASSUME NEW n \in Nodes, ServerFound(n) PROVE StartupFacts'
    <2> USE <1>0, <1>4 DEF StartupTypeOK, StartupFacts, ServerFound, SendRegister, discoveryVars
    <2>1. AttemptsFollowProgress'
      BY DEF AttemptsFollowProgress, Progress
    <2>2. AnswersFollow'
      BY DEF AnswersFollow, AttemptsFollowProgress, RegisterBlockchain, RegisterResponse
    <2>3. RulingStands' /\ LoopsHaveTeam' /\ ReportIsTrue'
      BY DEF RulingStands, LoopsHaveTeam, ReportIsTrue, AnswersFollow
    <2> QED BY <2>1, <2>2, <2>3
  <1>5. ASSUME NEW n \in Nodes, ServerNotFound(n) PROVE StartupFacts'
    <2> USE <1>0, <1>5 DEF StartupTypeOK, StartupFacts, ServerNotFound, Registered, discoveryVars
    <2>1. AttemptsFollowProgress'
      BY DEF AttemptsFollowProgress, Progress
    <2>2. AnswersFollow'
      BY DEF AnswersFollow, AttemptsFollowProgress
    <2>3. RulingStands' /\ LoopsHaveTeam' /\ ReportIsTrue'
      BY DEF RulingStands, LoopsHaveTeam, ReportIsTrue, AnswersFollow
    <2> QED BY <2>1, <2>2, <2>3
  <1>6. ASSUME NEW n \in Nodes, RegistrationResult(n) PROVE StartupFacts'
    <2> USE <1>0, <1>6 DEF StartupTypeOK, StartupFacts, RegistrationResult, Registered, discoveryVars
    <2>1. AttemptsFollowProgress'
      BY DEF AttemptsFollowProgress, Progress
    <2>2. AnswersFollow'
      BY DEF AnswersFollow, AttemptsFollowProgress
    <2>3. RulingStands' /\ LoopsHaveTeam' /\ ReportIsTrue'
      BY DEF RulingStands, LoopsHaveTeam, ReportIsTrue, AnswersFollow
    <2> QED BY <2>1, <2>2, <2>3
  <1>7. ASSUME NEW n \in Nodes, RegistrationUnanswered(n) PROVE StartupFacts'
    <2> USE <1>0, <1>7 DEF StartupTypeOK, StartupFacts, RegistrationUnanswered, SendRegister, Registered, discoveryVars
    <2>1. AttemptsFollowProgress'
      BY DEF AttemptsFollowProgress, Progress
    <2>2. AnswersFollow'
      <3>1. n \in Registrants
        BY DEF AttemptsFollowProgress
      <3>2. \A m \in Nodes : RegisterBlockchain(m) = RegisterBlockchain(n) => m = n
        BY DEF RegisterBlockchain
      <3>3. \A m \in Nodes : RegisterResponse(m) # RegisterBlockchain(n)
        BY DEF RegisterResponse, RegisterBlockchain
      <3> QED BY <3>1, <3>2, <3>3 DEF AnswersFollow
    <2>3. RulingStands' /\ LoopsHaveTeam' /\ ReportIsTrue'
      BY DEF RulingStands, LoopsHaveTeam, ReportIsTrue, AnswersFollow
    <2> QED BY <2>1, <2>2, <2>3
  <1>8. ASSUME NEW n \in Nodes, SeedWalkRound(n) PROVE StartupFacts'
    <2>1. MakeWalks(SeedWalks(n))
          /\ UNCHANGED <<progress, loops, registrationVars, ruling, datagrams>>
      BY <1>8 DEF SeedWalkRound
    <2>2. LoopsHaveTeam'
      BY <1>0, <2>1, RoundsAreWalks, PeersOnlyGrow DEF StartupFacts
    <2> QED
      BY <1>0, <2>1, <2>2 DEF StartupFacts, AttemptsFollowProgress, AnswersFollow, RulingStands,
         ReportIsTrue, registrationVars
  <1>9. ASSUME NEW n \in Nodes, NEW m \in Nodes, Introduce(n, m) PROVE StartupFacts'
    <2>1. {Walk(n, m, "registration")} \in SUBSET [from : Process, to : Process, overlay : Overlay]
      BY DEF Walk, Process, Overlay
    <2>2. MakeWalks({Walk(n, m, "registration")})
          /\ UNCHANGED <<progress, loops, registrationVars, ruling, datagrams>>
      BY <1>9 DEF Introduce
    <2>3. LoopsHaveTeam'
      BY <1>0, <2>1, <2>2, PeersOnlyGrow DEF StartupFacts
    <2> QED
      BY <1>0, <2>2, <2>3 DEF StartupFacts, AttemptsFollowProgress, AnswersFollow, RulingStands,
         ReportIsTrue, registrationVars
  <1>10. ASSUME NEW d \in datagrams, Receive(d) PROVE StartupFacts'
    <2>0. AttemptsFollowProgress' /\ LoopsHaveTeam'
      BY <1>0, <1>10 DEF Receive, OnRegisterBlockchain, OnRegisterResponse, StartupFacts,
         AttemptsFollowProgress, LoopsHaveTeam, discoveryVars
    <2>1. CASE OnRegisterBlockchain(d)
      <3>1. PICK n \in Nodes : d = RegisterBlockchain(n)
        BY <1>0, <2>1 DEF OnRegisterBlockchain, StartupTypeOK, Datagrams, RegisterResponse
      <3>2. d.from = n
        BY <3>1 DEF RegisterBlockchain
      <3>3. \A m \in Nodes : RegisterResponse(m) = RegisterResponse(n) => m = n
        BY DEF RegisterResponse
      <3>4. \A m \in Nodes : RegisterBlockchain(m) # RegisterResponse(n)
        BY DEF RegisterResponse, RegisterBlockchain
      <3>5. AnswersFollow'
        BY <1>0, <1>10, <2>1, <3>2, <3>3, <3>4
        DEF Receive, OnRegisterBlockchain, StartupFacts, AnswersFollow
      <3>6. ReportIsTrue' /\ RulingStands'
        BY <1>0, <1>10, <2>1 DEF Receive, OnRegisterBlockchain, StartupFacts, RulingStands, ReportIsTrue
      <3> QED BY <2>0, <3>5, <3>6 DEF StartupFacts
    <2>2. CASE OnRegisterResponse(d)
      <3>1. PICK n \in Nodes : d = RegisterResponse(n)
        BY <1>0, <2>2 DEF OnRegisterResponse, StartupTypeOK, Datagrams, RegisterBlockchain
      <3>2. d.to = n
        BY <3>1 DEF RegisterResponse
      <3>3. AnswersFollow'
        BY <1>0, <1>10, <2>2, <3>1, <3>2
        DEF Receive, OnRegisterResponse, StartupFacts, AnswersFollow
      <3>4. ReportIsTrue' /\ RulingStands'
        BY <1>0, <1>10, <2>2 DEF Receive, OnRegisterResponse, StartupFacts, RulingStands, ReportIsTrue
      <3> QED BY <2>0, <3>3, <3>4 DEF StartupFacts
    <2> QED BY <1>10, <2>1, <2>2 DEF Receive
  <1>11. ASSUME NEW d \in datagrams, LoseDatagram(d) PROVE StartupFacts'
    BY <1>0, <1>11 DEF LoseDatagram, StartupFacts, AttemptsFollowProgress, AnswersFollow,
       RulingStands, LoopsHaveTeam, ReportIsTrue, discoveryVars, registrationVars
  <1>12. CASE UNCHANGED startupVars
    BY <1>0, <1>12 DEF startupVars, StartupFacts, AttemptsFollowProgress, AnswersFollow,
       RulingStands, LoopsHaveTeam, ReportIsTrue, discoveryVars, registrationVars
  <1> QED
    BY <1>1, <1>2, <1>3, <1>4, <1>5, <1>6, <1>7, <1>8, <1>9, <1>10, <1>11, <1>12
    DEF StartupNext, StartupStep

LEMMA StartupSteps == StartupInv /\ [StartupNext]_startupVars => StartupInv'
  BY StartupTypeSteps, StartupFactSteps DEF StartupInv

LEMMA StartupInvariant == StartupSpec => []StartupInv
  BY StartupStarts, StartupSteps, PTL DEF StartupSpec

(* The state of the start stays of its types; no node sends more than      *)
(* Retries + 1 registrations.                                              *)
THEOREM StartupTypeCorrect == StartupSpec => []StartupTypeOK
  <1>1. StartupInv => StartupTypeOK
    BY DEF StartupInv
  <1> QED BY <1>1, StartupInvariant, PTL

(* A node that mines can reach its whole team (service.py:319).            *)
THEOREM GateTheorem == StartupSpec => []LoopsHaveTeam
  <1>1. StartupInv => LoopsHaveTeam
    BY DEF StartupInv, StartupFacts
  <1> QED BY <1>1, StartupInvariant, PTL

(* What a registration reports is what the server did, to whichever        *)
(* attempt the answer belongs (registration.py:100).                       *)
THEOREM ReportTheorem == StartupSpec => []ReportIsTrue
  <1>1. StartupInv => ReportIsTrue
    BY DEF StartupInv, StartupFacts
  <1> QED BY <1>1, StartupInvariant, PTL

--------------------------------------------------------------------------------
(* The set-up of the race.                                                 *)

(* The hint of a search that runs is the address in the file, and there is *)
(* none outside a search.                                                  *)
HintIsCached == \A m \in Members :
    IF stage[m] = "searching" THEN hint[m] = cache[m] /\ server[m] = "none"
    ELSE hint[m] = "none"

(* A session has an address to send to, and to tell the teammates. *)
SessionHasServer ==
    \A m \in Members : stage[m] \in {"session", "ready"} => server[m] \in Address

(* An answer on its way says what the server did. *)
AnswerIsTrue == answers # "none" /\ welcome => recorded

SetupInv ==
    /\ RaceSetupTypeOK
    /\ HintIsCached
    /\ SessionHasServer
    /\ AnswerIsTrue
    /\ CacheIsLastServer
    /\ FailsOnlyUnhinted
    /\ NobodyRacesUnregistered

LEMMA RaceSetupStarts == RaceSetupInit => SetupInv
  <1> SUFFICES ASSUME RaceSetupInit PROVE SetupInv
    OBVIOUS
  <1> USE RaceSetupAssumption
  <1>1. RaceSetupTypeOK
    <2> USE DEF RaceSetupInit, RaceSetupInitOf
    <2>1. runs \in [Members -> 0..MaxRuns] /\ elapsed \in [Members -> 0..SearchPolls]
      OBVIOUS
    <2>2. age \in [Members -> 0..HintPolls] /\ requests \in 0..Requests
      OBVIOUS
    <2>3. stage \in [Members -> Stage] /\ heard \in [Members -> SUBSET Address]
      BY DEF Stage
    <2>4. cache \in [Members -> Hint] /\ hint \in [Members -> Hint] /\ server \in [Members -> Hint]
      BY DEF Hint
    <2> QED BY <2>1, <2>2, <2>3, <2>4 DEF RaceSetupTypeOK
  <1>2. HintIsCached /\ SessionHasServer /\ AnswerIsTrue
    BY DEF RaceSetupInit, RaceSetupInitOf, HintIsCached, SessionHasServer, AnswerIsTrue
  <1>3. CacheIsLastServer /\ FailsOnlyUnhinted /\ NobodyRacesUnregistered
    BY DEF RaceSetupInit, RaceSetupInitOf, CacheIsLastServer, FailsOnlyUnhinted,
           NobodyRacesUnregistered
  <1> QED BY <1>1, <1>2, <1>3 DEF SetupInv

(* Every step of the set-up keeps the invariant.                           *)
LEMMA RaceSetupSteps == SetupInv /\ [RaceSetupNext]_setupVars => SetupInv'
  <1> SUFFICES ASSUME SetupInv, [RaceSetupNext]_setupVars PROVE SetupInv'
    OBVIOUS
  <1> USE RaceSetupAssumption
          DEF SetupInv, RaceSetupTypeOK, HintIsCached, SessionHasServer, AnswerIsTrue, CacheIsLastServer,
              FailsOnlyUnhinted, NobodyRacesUnregistered, Stage, Hint, Address
  <1>1. ASSUME NEW m \in Members, StartSearch(m) PROVE SetupInv'
    BY <1>1 DEF StartSearch, WalkToCachedHint
  <1>2. ASSUME NEW m \in Members, FindServer(m) PROVE SetupInv'
    BY <1>2 DEF FindServer, Polling, EnterSession, EndSearch, groupVars
  <1>3. ASSUME NEW m \in Members, UseHint(m) PROVE SetupInv'
    BY <1>3 DEF UseHint, HintIsDue, Polling, EnterSession, EndSearch, groupVars
  <1>4. ASSUME NEW m \in Members, Poll(m) PROVE SetupInv'
    BY <1>4 DEF Poll, HintIsDue, Polling, groupVars
  <1>5. ASSUME NEW m \in Members, SearchTimesOut(m) PROVE SetupInv'
    BY <1>5 DEF SearchTimesOut, EnterSession, EndSearch, groupVars
  <1>6. ASSUME NEW m \in Members, SessionTimesOut(m) PROVE SetupInv'
    BY <1>6 DEF SessionTimesOut, searchVars, groupVars
  <1>7. CASE SendGroupRegister
    BY <1>7 DEF SendGroupRegister, searchVars
  <1>8. CASE TakeAnswer
    BY <1>8 DEF TakeAnswer, searchVars
  <1>9. ASSUME NEW m \in Members, VerifyServer(m) PROVE SetupInv'
    BY <1>9 DEF VerifyServer, groupVars
  <1>10. ASSUME NEW m \in Members, HearGroupReady(m) PROVE SetupInv'
    BY <1>10 DEF HearGroupReady, searchVars, groupVars
  <1>11. ASSUME NEW m \in Members, NEW a \in Address, HearHint(m, a) PROVE SetupInv'
    BY <1>11 DEF HearHint, HintIsDue, Polling, groupVars
  <1>12. ASSUME NEW n \in Members, NEW m \in Members, BroadcastServerHint(n, m)
         PROVE  SetupInv'
    BY <1>12 DEF BroadcastServerHint, groupVars
  <1>13. CASE OnGroupRegister
    BY <1>13 DEF OnGroupRegister, searchVars
  <1>14. CASE OnGroupRegisterResponse
    BY <1>14 DEF OnGroupRegisterResponse, searchVars
  <1>15. CASE LoseRegistration
    BY <1>15 DEF LoseRegistration, searchVars
  <1>16. CASE UNCHANGED setupVars
    BY <1>16 DEF setupVars, searchVars, groupVars
  <1> QED
    BY <1>1, <1>2, <1>3, <1>4, <1>5, <1>6, <1>7, <1>8, <1>9, <1>10, <1>11, <1>12,
       <1>13, <1>14, <1>15, <1>16 DEF RaceSetupNext, SetupStep

LEMMA RaceSetupInvariant == RaceSetupSpec => []SetupInv
  BY RaceSetupStarts, RaceSetupSteps, PTL DEF RaceSetupSpec

(* The state of the set-up stays of its types: polls, requests and runs    *)
(* stay within their limits.                                               *)
THEOREM RaceSetupTypeCorrect == RaceSetupSpec => []RaceSetupTypeOK
  <1>1. SetupInv => RaceSetupTypeOK
    BY DEF SetupInv
  <1> QED BY <1>1, RaceSetupInvariant, PTL

(* The file holds the address that was last used (race.py:250).            *)
THEOREM CacheTheorem == RaceSetupSpec => []CacheIsLastServer
  <1>1. SetupInv => CacheIsLastServer
    BY DEF SetupInv
  <1> QED BY <1>1, RaceSetupInvariant, PTL

(* A search that fails leaves no address behind (race.py:289).             *)
THEOREM UnhintedTheorem == RaceSetupSpec => []FailsOnlyUnhinted
  <1>1. SetupInv => FailsOnlyUnhinted
    BY DEF SetupInv
  <1> QED BY <1>1, RaceSetupInvariant, PTL

(* Whoever begins the rounds is in a group that the server has             *)
(* (race.py:462).                                                          *)
THEOREM RegisteredTheorem == RaceSetupSpec => []NobodyRacesUnregistered
  <1>1. SetupInv => NobodyRacesUnregistered
    BY DEF SetupInv
  <1> QED BY <1>1, RaceSetupInvariant, PTL

--------------------------------------------------------------------------------
(* The Lab 1 client.                                                       *)

(* A non-empty set of natural numbers has a least element. *)
LEMMA LeastElement ==
    ASSUME NEW T, T \subseteq Nat, T # {}
    PROVE  \E x \in T : \A y \in T : x <= y
<1>1. \E x \in T : \A y \in T : <<y, x>> \notin OpToRel(<, Nat)
  BY WFMin, NatLessThanWellFounded
<1>2. \A x, y \in T : y < x => <<y, x>> \in OpToRel(<, Nat)
  BY DEF OpToRel
<1>3. \A x, y \in T : x <= y \/ y < x
  OBVIOUS
<1> QED
  BY <1>1, <1>2, <1>3

--------------------------------------------------------------------------------
(* Powers of two.                                                          *)

Doubles(f, n) == f = [k \in 0..n |-> IF k = 0 THEN 1 ELSE 2 * f[k - 1]]

LEMMA DoublingExists == \A n \in Nat : \E f : Doubles(f, n)
<1> DEFINE T == {n \in Nat : ~\E f : Doubles(f, n)}
<1> SUFFICES ASSUME T # {} PROVE FALSE
  OBVIOUS
<1>1. PICK n \in T : \A m \in T : n <= m
  <2>1. T \subseteq Nat
    OBVIOUS
  <2> HIDE DEF T
  <2> QED
    BY <2>1, LeastElement
<1>2. CASE n = 0
  <2> DEFINE f == [k \in 0..0 |-> 1]
  <2>1. f = [k \in 0..0 |-> IF k = 0 THEN 1 ELSE 2 * f[k - 1]]
    OBVIOUS
  <2> QED
    BY <1>1, <1>2, <2>1 DEF Doubles
<1>3. CASE n # 0
  <2>1. n - 1 \in Nat /\ n - 1 \notin T
    BY <1>1, <1>3
  <2>2. PICK g : Doubles(g, n - 1)
    BY <2>1
  <2> DEFINE f == [k \in 0..n |-> IF k = n THEN 2 * g[n - 1] ELSE g[k]]
  <2>3. \A k \in 0..n - 1 : g[k] = IF k = 0 THEN 1 ELSE 2 * g[k - 1]
    BY <2>2 DEF Doubles
  <2>4. \A k \in 0..n : f[k] = IF k = 0 THEN 1 ELSE 2 * f[k - 1]
    <3> SUFFICES ASSUME NEW k \in 0..n PROVE f[k] = IF k = 0 THEN 1 ELSE 2 * f[k - 1]
      OBVIOUS
    <3>1. CASE k = n
      <4>1. f[k] = 2 * g[n - 1] /\ f[k - 1] = g[n - 1] /\ k # 0
        BY <1>3, <2>1, <3>1
      <4> QED
        BY <4>1
    <3>2. CASE k # n
      <4>1. k \in 0..n - 1 /\ f[k] = g[k] /\ (k # 0 => k - 1 \in 0..n /\ k - 1 # n)
        BY <2>1, <3>2
      <4> QED
        BY <2>3, <4>1
    <3> QED
      BY <3>1, <3>2
  <2>5. f = [k \in 0..n |-> IF k = 0 THEN 1 ELSE 2 * f[k - 1]]
    BY <2>4
  <2> HIDE DEF f
  <2> QED
    BY <1>1, <2>5 DEF Doubles
<1> QED
  BY <1>2, <1>3

LEMMA PowersUnfold ==
    /\ TwoTo[0] = 1
    /\ \A k \in 1..ByteBits : TwoTo[k] = 2 * TwoTo[k - 1]
<1>1. ByteBits \in Nat
  BY PowAssumption
<1>2. Doubles(TwoTo, ByteBits)
  <2> DEFINE f == CHOOSE g : Doubles(g, ByteBits)
  <2>1. Doubles(f, ByteBits)
    BY <1>1, DoublingExists
  <2>2. f = TwoTo
    BY DEF TwoTo, Doubles
  <2> HIDE DEF f
  <2> QED
    BY <2>1, <2>2
<1>3. \A k \in 0..ByteBits : TwoTo[k] = IF k = 0 THEN 1 ELSE 2 * TwoTo[k - 1]
  BY <1>2 DEF Doubles
<1> QED
  BY <1>1, <1>3

(* They are positive and grow. *)
LEMMA PowersGrow ==
    /\ \A k \in 0..ByteBits : TwoTo[k] \in Nat /\ TwoTo[k] > 0
    /\ \A j, k \in 0..ByteBits : j <= k => TwoTo[j] <= TwoTo[k]
<1>0. ByteBits \in Nat
  BY PowAssumption
<1>1. \A k \in 0..ByteBits : TwoTo[k] \in Nat /\ TwoTo[k] > 0
  <2> DEFINE T == {k \in 0..ByteBits : ~(TwoTo[k] \in Nat /\ TwoTo[k] > 0)}
  <2> SUFFICES ASSUME T # {} PROVE FALSE
    OBVIOUS
  <2>1. T \subseteq Nat
    OBVIOUS
  <2>2. PICK k \in T : \A m \in T : k <= m
    <3> HIDE DEF T
    <3> QED
      BY <2>1, LeastElement
  <2>3. k # 0
    BY <2>2, PowersUnfold
  <2>4. k - 1 \in 0..ByteBits /\ k - 1 \notin T /\ k \in 1..ByteBits
    BY <1>0, <2>2, <2>3
  <2>5. TwoTo[k - 1] \in Nat /\ TwoTo[k - 1] > 0
    BY <2>4
  <2>6. TwoTo[k] = 2 * TwoTo[k - 1]
    BY <2>4, PowersUnfold
  <2> QED
    BY <2>2, <2>5, <2>6
<1>2. ASSUME NEW j \in 0..ByteBits PROVE \A k \in 0..ByteBits : j <= k => TwoTo[j] <= TwoTo[k]
  <2> DEFINE T == {k \in 0..ByteBits : ~(j <= k => TwoTo[j] <= TwoTo[k])}
  <2> SUFFICES ASSUME T # {} PROVE FALSE
    OBVIOUS
  <2>1. T \subseteq Nat
    OBVIOUS
  <2>2. PICK k \in T : \A m \in T : k <= m
    <3> HIDE DEF T
    <3> QED
      BY <2>1, LeastElement
  <2>3. j < k
    BY <1>0, <1>1, <2>2
  <2>4. k - 1 \in 0..ByteBits /\ k - 1 \notin T /\ k \in 1..ByteBits /\ j <= k - 1
    BY <1>0, <2>2, <2>3
  <2>5. TwoTo[j] <= TwoTo[k - 1]
    BY <2>4
  <2>6. TwoTo[k] = 2 * TwoTo[k - 1] /\ TwoTo[k - 1] \in Nat /\ TwoTo[j] \in Nat
    BY <1>1, <2>4, PowersUnfold
  <2> QED
    BY <2>2, <2>5, <2>6
<1> QED
  BY <1>1, <1>2

--------------------------------------------------------------------------------
(* The zero bits of a digest.                                              *)

(* bit_length is the least number of bits that hold the byte. *)
LEMMA BitLengthIsLeast ==
    ASSUME NEW byte \in Bytes
    PROVE  /\ BitLength(byte) \in 0..ByteBits
           /\ byte # 0 => BitLength(byte) > 0
           /\ \A k \in 0..ByteBits : byte < TwoTo[k] <=> BitLength(byte) <= k
<1>0. ByteBits \in Nat /\ byte \in Nat /\ byte < TwoTo[ByteBits]
  BY PowAssumption, PowersGrow DEF Bytes
<1> DEFINE T == {k \in 0..ByteBits : byte < TwoTo[k]}
<1>1. PICK least \in T : \A k \in T : least <= k
  <2>1. T \subseteq Nat /\ T # {}
    BY <1>0
  <2> HIDE DEF T
  <2> QED
    BY <2>1, LeastElement
<1> DEFINE Fits(k) == byte < TwoTo[k] /\ \A j \in 0..k - 1 : TwoTo[j] <= byte
<1>2. least \in 0..ByteBits /\ Fits(least)
  <2>1. least \in 0..ByteBits /\ byte < TwoTo[least]
    BY <1>1
  <2>2. ASSUME NEW j \in 0..least - 1 PROVE TwoTo[j] <= byte
    <3>1. j \in 0..ByteBits /\ j \notin T
      BY <1>0, <1>1, <2>1
    <3> QED
      BY <1>0, <3>1, PowersGrow
  <2> QED
    BY <2>1, <2>2
<1>3. BitLength(byte) \in 0..ByteBits /\ Fits(BitLength(byte))
  <2> HIDE DEF Fits
  <2>1. BitLength(byte) = CHOOSE k \in 0..ByteBits : Fits(k)
    BY DEF BitLength, Fits
  <2> QED
    BY <1>2, <2>1
<1> DEFINE bl == BitLength(byte)
<1> HIDE DEF bl
<1>4. bl \in 0..ByteBits /\ byte < TwoTo[bl] /\ \A j \in 0..bl - 1 : TwoTo[j] <= byte
  BY <1>3 DEF bl
<1>5. byte # 0 => bl > 0
  BY <1>0, <1>4, PowersUnfold
<1>6. ASSUME NEW k \in 0..ByteBits PROVE byte < TwoTo[k] <=> bl <= k
  <2>1. CASE bl <= k
    BY <1>0, <1>4, <2>1, PowersGrow
  <2>2. CASE ~(bl <= k)
    <3>1. k \in 0..bl - 1
      BY <1>0, <1>4, <2>2
    <3> QED
      BY <1>0, <1>4, <2>2, <3>1, PowersGrow
  <2> QED
    BY <2>1, <2>2
<1> QED
  BY <1>4, <1>5, <1>6 DEF bl

LEMMA Quotients ==
    ASSUME NEW difficulty \in Nat
    PROVE  /\ difficulty \div ByteBits \in Nat
           /\ difficulty % ByteBits \in 0..ByteBits - 1
           /\ difficulty = ByteBits * (difficulty \div ByteBits) + (difficulty % ByteBits)
BY PowAssumption

(* More whole bytes are more bits, by a byte at least. *)
LEMMA WholeBytes ==
    ASSUME NEW j \in Nat, NEW k \in Nat, j < k
    PROVE  ByteBits * j + ByteBits <= ByteBits * k
<1>1. ByteBits \in Nat /\ j + 1 <= k
  BY PowAssumption
<1>2. \A x \in Nat : ByteBits * x \in Nat
  BY <1>1
<1>3. ByteBits * (j + 1) = ByteBits * j + ByteBits
  BY <1>1
<1>4. ByteBits * k = ByteBits * (j + 1) + ByteBits * (k - (j + 1))
  BY <1>1
<1>5. k - (j + 1) \in Nat
  BY <1>1
<1> QED
  BY <1>1, <1>2, <1>3, <1>4, <1>5

(* A digest has as many leading zero bits as are asked for exactly if it   *)
(* starts with them, wherever in a byte the last of them falls: the loop   *)
(* of leading_zero_bits counts what the documentation describes.           *)
THEOREM ZeroBitsAreCounted ==
    ASSUME NEW d \in Seq(Bytes), NEW difficulty \in Nat
    PROVE  /\ LeadingZeroBits(d) \in Nat
           /\ LeadingZeroBits(d) >= difficulty <=> StartsWithZeroBits(d, difficulty)
<1> DEFINE whole == difficulty \div ByteBits
           rest == difficulty % ByteBits
           zeros == LeadingZeroBits(d)
<1>0. /\ ByteBits \in Nat \ {0} /\ Len(d) \in Nat
      /\ \A i \in 1..Len(d) : d[i] \in Bytes /\ d[i] \in Nat
      /\ \A x \in Nat : ByteBits * x \in Nat
  <2>1. ByteBits \in Nat \ {0} /\ \A x \in Nat : ByteBits * x \in Nat
    BY PowAssumption
  <2>2. \A byte \in Bytes : byte \in Nat
    BY DEF Bytes
  <2>3. Len(d) \in Nat /\ \A i \in 1..Len(d) : d[i] \in Bytes
    OBVIOUS
  <2> QED
    BY <2>1, <2>2, <2>3
<1>1. /\ whole \in Nat /\ rest \in 0..ByteBits - 1
      /\ difficulty = ByteBits * whole + rest
  BY Quotients
<1>2. StartsWithZeroBits(d, difficulty) <=>
        /\ whole <= Len(d) /\ \A i \in 1..whole : d[i] = 0
        /\ rest > 0 => whole < Len(d) /\ d[whole + 1] < TwoTo[ByteBits - rest]
  BY DEF StartsWithZeroBits
<1> HIDE DEF whole, rest
<1>3. ByteBits - rest \in 0..ByteBits
  BY <1>0, <1>1
<1>4. CASE \A i \in 1..Len(d) : d[i] = 0
  <2>1. zeros = ByteBits * Len(d)
    BY <1>4 DEF LeadingZeroBits
  <2> HIDE DEF zeros
  <2>2. whole > Len(d) => zeros < difficulty
    BY <1>0, <1>1, <2>1, WholeBytes
  <2>3. whole < Len(d) => zeros >= difficulty
    BY <1>0, <1>1, <2>1, WholeBytes
  <2>4. whole = Len(d) => (zeros >= difficulty <=> rest = 0)
    <3>1. ByteBits * Len(d) \in Nat
      BY <1>0
    <3> QED
      BY <1>0, <1>1, <2>1, <3>1
  <2>5. whole < Len(d) => d[whole + 1] = 0 /\ 0 < TwoTo[ByteBits - rest]
    BY <1>0, <1>1, <1>3, <1>4, PowersGrow
  <2>6. whole <= Len(d) => \A i \in 1..whole : d[i] = 0
    BY <1>0, <1>1, <1>4
  <2>7. zeros \in Nat
    BY <1>0, <2>1
  <2>8. zeros >= difficulty <=> whole <= Len(d) /\ (rest > 0 => whole < Len(d))
    BY <1>0, <1>1, <2>2, <2>3, <2>4, <2>7
  <2> QED
    BY <1>2, <2>5, <2>6, <2>7, <2>8 DEF zeros
<1>5. CASE \E i \in 1..Len(d) : d[i] # 0
  <2> DEFINE First(i) == d[i] # 0 /\ \A j \in 1..i - 1 : d[j] = 0
             m == CHOOSE i \in 1..Len(d) : First(i)
             bl == BitLength(d[m])
  <2>1. \E i \in 1..Len(d) : First(i)
    <3> DEFINE T == {i \in 1..Len(d) : d[i] # 0}
    <3>1. T \subseteq Nat /\ T # {}
      BY <1>5
    <3>2. PICK i \in T : \A j \in T : i <= j
      <4> HIDE DEF T
      <4> QED
        BY <3>1, LeastElement
    <3>3. \A j \in 1..i - 1 : d[j] = 0
      BY <1>0, <3>2
    <3> QED
      BY <3>2, <3>3
  <2>2. m \in 1..Len(d) /\ First(m)
    <3> HIDE DEF First
    <3> QED
      BY <2>1
  <2>3. zeros = ByteBits * (m - 1) + (ByteBits - bl)
    BY <1>5 DEF LeadingZeroBits
  <2> HIDE DEF m
  <2>4. /\ bl \in 0..ByteBits /\ bl > 0
        /\ \A k \in 0..ByteBits : d[m] < TwoTo[k] <=> bl <= k
    <3>1. d[m] \in Bytes /\ d[m] # 0
      BY <1>0, <2>2
    <3> QED
      BY <3>1, BitLengthIsLeast
  <2> HIDE DEF bl, zeros
  <2>5. m \in Nat /\ m - 1 \in Nat /\ ByteBits * (m - 1) \in Nat /\ ByteBits * whole \in Nat
    BY <1>0, <1>1, <2>2
  <2>6. zeros \in Nat
    <3>1. ByteBits - bl \in Nat
      BY <1>0, <2>4
    <3> QED
      BY <2>3, <2>5, <3>1
  <2>7. CASE whole >= m
    <3>1. zeros < difficulty
      <4>1. ByteBits * (m - 1) + ByteBits <= ByteBits * whole
        BY <1>1, <2>5, <2>7, WholeBytes
      <4> QED
        BY <1>0, <1>1, <2>3, <2>4, <2>5, <4>1
    <3>2. ~\A i \in 1..whole : d[i] = 0
      BY <1>1, <2>2, <2>7
    <3> QED
      BY <1>0, <1>1, <1>2, <2>3, <2>4, <2>5, <2>6, <3>1, <3>2 DEF zeros
  <2>8. CASE whole < m - 1
    <3>1. zeros >= difficulty
      <4>1. ByteBits * whole + ByteBits <= ByteBits * (m - 1)
        BY <1>1, <2>5, <2>8, WholeBytes
      <4> QED
        BY <1>0, <1>1, <2>3, <2>4, <2>5, <4>1
    <3>2. \A i \in 1..whole : d[i] = 0
      BY <1>1, <2>2, <2>5, <2>8
    <3>3. d[whole + 1] = 0 /\ whole < Len(d) /\ 0 < TwoTo[ByteBits - rest]
      BY <1>0, <1>1, <1>3, <2>2, <2>5, <2>8, PowersGrow
    <3> QED
      BY <1>0, <1>1, <1>2, <2>5, <2>6, <3>1, <3>2, <3>3 DEF zeros
  <2>9. CASE whole = m - 1
    <3>1. zeros >= difficulty <=> bl <= ByteBits - rest
      BY <1>0, <1>1, <2>3, <2>4, <2>5, <2>9
    <3>2. \A i \in 1..whole : d[i] = 0
      BY <1>1, <2>2, <2>9
    <3>3. whole + 1 = m /\ whole < Len(d)
      BY <1>0, <1>1, <2>2, <2>9
    <3>4. d[whole + 1] < TwoTo[ByteBits - rest] <=> bl <= ByteBits - rest
      BY <1>3, <2>4, <3>3
    <3>5. rest = 0 => bl <= ByteBits - rest
      BY <1>0, <2>4
    <3> QED
      BY <1>1, <1>2, <2>6, <3>1, <3>2, <3>3, <3>4, <3>5 DEF zeros
  <2> QED
    BY <1>1, <2>5, <2>7, <2>8, <2>9
<1> QED
  BY <1>4, <1>5

LEMMA CheckIsRight ==
    ASSUME digest \in Digests, NEW n \in Nonces, NEW difficulty \in Nat
    PROVE  IsValidPow(n, difficulty) <=> Meets(n, difficulty)
<1>1. digest[n] \in Seq(Bytes)
  BY PowAssumption
<1> QED
  BY <1>1, ZeroBitsAreCounted DEF IsValidPow, Meets

(* Who meets a difficulty meets every smaller one. *)
LEMMA MeetsLess ==
    ASSUME digest \in Digests, NEW n \in Nonces, NEW high \in Nat, NEW low \in Nat,
           low <= high, Meets(n, high)
    PROVE  Meets(n, low)
<1>1. LeadingZeroBits(digest[n]) >= high
  BY CheckIsRight DEF IsValidPow
<1>2. LeadingZeroBits(digest[n]) \in Nat
  <2>1. digest[n] \in Seq(Bytes)
    BY PowAssumption
  <2> QED
    BY <2>1, ZeroBitsAreCounted
<1>3. LeadingZeroBits(digest[n]) >= low
  BY <1>1, <1>2
<1> QED
  BY <1>3, CheckIsRight DEF IsValidPow

--------------------------------------------------------------------------------
(* The invariant.                                                          *)

Difficulty == options.difficulty
Start == IF options.nonce = NoNonce THEN 0 ELSE options.nonce
NoneMeets(from, to) == \A n \in from..to : ~Meets(n, Difficulty)

TypeInv == PowTypeOK /\ digest \in Digests

(* What mine_pow has left behind does not meet the difficulty, and what is *)
(* to be submitted does.                                                   *)
SearchInv ==
    /\ phase \in {"off", "mining"} => nonce = NoNonce /\ ~submitted /\ outcome = "none"
    /\ phase = "mining" =>
          ~options.submit_only /\ Start <= tried /\ NoneMeets(Start, tried - 1)
    /\ nonce # NoNonce => Meets(nonce, Difficulty)
    /\ ~options.submit_only =>
          /\ nonce # NoNonce => Start <= nonce /\ NoneMeets(Start, nonce - 1)
          /\ outcome = "exhausted" => NoneMeets(Start, MaxNonce)

(* One submission is judged once, and what comes from the server says how. *)
OverlayInv ==
    /\ phase = "submitting" \/ submitted => nonce # NoNonce
    /\ Submission \in packets => submitted /\ verdict = "none"
    /\ ~submitted => verdict = "none"
    /\ \A v \in Verdict : Response("server", v) \in packets => verdict = v
    /\ response # "none" => response = verdict
    /\ outcome \in Verdict => outcome = verdict
    /\ verdict = "rejected" => Difficulty < ServerDifficulty

PowInv == TypeInv /\ SearchInv /\ OverlayInv

LEMMA OptionsAreTyped ==
    ASSUME TypeInv
    PROVE  /\ Difficulty \in Nat /\ Start \in Nat /\ MaxNonce \in Nat
           /\ ServerDifficulty \in Nat /\ NoNonce \notin Nonces
           /\ options.submit_only \in BOOLEAN /\ options.mine_only \in BOOLEAN
BY PowAssumption DEF TypeInv, PowTypeOK, Difficulty, Start, Nonces

(* The steps of the search. *)
LEMMA SearchKeeps ==
    ASSUME PowInv, UseNonce \/ StartMining \/ TryNonce \/ SearchExhausted
    PROVE  PowInv'
<1>1. UNCHANGED <<digest, options, submitted, met, response, packets, verdict>>
  BY DEF UseNonce, StartMining, TryNonce, SearchExhausted, End, Submit
<1>2. \A n, difficulty : Meets(n, difficulty)' <=> Meets(n, difficulty)
  BY <1>1 DEF Meets
<1>3. Difficulty' = Difficulty /\ Start' = Start
  BY <1>1 DEF Difficulty, Start
<1>4. \A from, to : NoneMeets(from, to)' <=> NoneMeets(from, to)
  BY <1>2, <1>3 DEF NoneMeets
<1>5. /\ Difficulty \in Nat /\ Start \in Nat /\ MaxNonce \in Nat /\ NoNonce \notin Nonces
      /\ TypeInv /\ SearchInv /\ OverlayInv
  BY OptionsAreTyped DEF PowInv
<1>6. \A n \in Nonces : IsValidPow(n, options.difficulty) <=> Meets(n, Difficulty)
  BY <1>5, CheckIsRight DEF TypeInv, Difficulty
<1>7. CASE UseNonce
  <2>1. /\ phase = "off" /\ options.submit_only /\ UNCHANGED tried
        /\ \/ phase' = "ended" /\ outcome' \in {"mined", "error"} /\ UNCHANGED nonce
           \/ /\ phase' = "submitting" /\ nonce' = options.nonce /\ UNCHANGED outcome
              /\ options.nonce \in Nonces /\ Meets(options.nonce, Difficulty)
    BY <1>6, <1>7 DEF UseNonce, End, Submit
  <2>2. TypeInv'
    BY <1>1, <1>5, <2>1 DEF TypeInv, PowTypeOK, Nonces
  <2>3. SearchInv' /\ OverlayInv'
    BY <1>1, <1>2, <1>3, <1>5, <2>1 DEF SearchInv, OverlayInv, Verdict
  <2> QED
    BY <2>2, <2>3 DEF PowInv
<1>8. CASE StartMining
  <2>1. /\ phase = "off" /\ ~options.submit_only /\ UNCHANGED nonce
        /\ \/ /\ phase' = "mining" /\ tried' = Start /\ Start \in Nonces /\ UNCHANGED outcome
           \/ phase' = "ended" /\ outcome' = "error" /\ UNCHANGED tried
    BY <1>8 DEF StartMining, End, Start
  <2>2. TypeInv'
    BY <1>1, <1>5, <2>1 DEF TypeInv, PowTypeOK, Nonces
  <2>3. NoneMeets(Start, Start - 1)
    BY <1>5 DEF NoneMeets
  <2>4. SearchInv' /\ OverlayInv'
    BY <1>1, <1>2, <1>3, <1>4, <1>5, <2>1, <2>3 DEF SearchInv, OverlayInv, Verdict
  <2> QED
    BY <2>2, <2>4 DEF PowInv
<1>9. CASE TryNonce
  <2>1. phase = "mining" /\ tried \in Nonces
    BY <1>5, <1>9 DEF TryNonce, TypeInv, PowTypeOK, Nonces
  <2>2. \/ /\ Meets(tried, Difficulty) /\ nonce' = tried /\ UNCHANGED tried
           /\ \/ phase' = "ended" /\ outcome' = "mined"
              \/ phase' = "submitting" /\ UNCHANGED outcome
        \/ ~Meets(tried, Difficulty) /\ tried' = tried + 1 /\ UNCHANGED <<phase, nonce, outcome>>
    BY <1>6, <1>9, <2>1 DEF TryNonce, End, Submit
  <2>3. TypeInv'
    BY <1>1, <1>5, <2>1, <2>2 DEF TypeInv, PowTypeOK, Nonces
  <2>4. /\ ~options.submit_only /\ Start <= tried /\ NoneMeets(Start, tried - 1)
        /\ nonce = NoNonce /\ ~submitted /\ outcome = "none" /\ tried \in Nat
    BY <1>5, <2>1 DEF SearchInv, Nonces
  <2>5. ~Meets(tried, Difficulty) => NoneMeets(Start, (tried + 1) - 1)
    BY <1>5, <2>4 DEF NoneMeets
  <2>6. SearchInv'
    BY <1>1, <1>2, <1>3, <1>4, <1>5, <2>1, <2>2, <2>4, <2>5 DEF SearchInv
  <2>7. OverlayInv'
    BY <1>1, <1>3, <1>5, <2>1, <2>2, <2>4 DEF OverlayInv, Verdict
  <2> QED
    BY <2>3, <2>6, <2>7 DEF PowInv
<1>10. CASE SearchExhausted
  <2>1. /\ phase = "mining" /\ tried > MaxNonce /\ UNCHANGED <<tried, nonce>>
        /\ phase' = "ended" /\ outcome' = "exhausted"
    BY <1>10 DEF SearchExhausted, End
  <2>2. TypeInv'
    BY <1>1, <1>5, <2>1 DEF TypeInv, PowTypeOK, Nonces
  <2>3. tried = MaxNonce + 1 /\ tried - 1 = MaxNonce
    BY <1>5, <2>1 DEF TypeInv, PowTypeOK
  <2>4. NoneMeets(Start, MaxNonce) /\ ~options.submit_only /\ nonce = NoNonce /\ ~submitted
    BY <1>5, <2>1, <2>3 DEF SearchInv
  <2>5. SearchInv' /\ OverlayInv'
    BY <1>1, <1>2, <1>3, <1>4, <1>5, <2>1, <2>4 DEF SearchInv, OverlayInv, Verdict
  <2> QED
    BY <2>2, <2>5 DEF PowInv
<1> QED
  BY <1>7, <1>8, <1>9, <1>10

(* The steps of the overlay, the server and the network. *)
LEMMA OverlayKeeps ==
    ASSUME PowInv,
           \/ MeetServer \/ SubmitWhenFound \/ TakeResponse \/ WaitTimesOut \/ OnSubmission
           \/ \E v \in Verdict : AnotherPeerResponds(v)
           \/ \E p \in packets : OnResponse(p) \/ LosePacket(p)
    PROVE  PowInv'
<1>1. UNCHANGED <<digest, options, tried, nonce>>
  BY DEF MeetServer, SubmitWhenFound, TakeResponse, WaitTimesOut, OnSubmission,
         AnotherPeerResponds, OnResponse, LosePacket, End
<1>2. \A n, difficulty : Meets(n, difficulty)' <=> Meets(n, difficulty)
  BY <1>1 DEF Meets
<1>3. Difficulty' = Difficulty /\ Start' = Start
  BY <1>1 DEF Difficulty, Start
<1>4. \A from, to : NoneMeets(from, to)' <=> NoneMeets(from, to)
  BY <1>2, <1>3 DEF NoneMeets
<1>5. /\ Difficulty \in Nat /\ ServerDifficulty \in Nat
      /\ TypeInv /\ SearchInv /\ OverlayInv
  BY OptionsAreTyped DEF PowInv
<1>6. SearchInv => SearchInv' \/ phase' # phase \/ submitted' # submitted \/ outcome' # outcome
  BY <1>1, <1>2, <1>3, <1>4 DEF SearchInv
<1>7. Submission \in Packets /\ \A v \in Verdict, from \in {"server", "another_peer"} :
        Response(from, v) \in Packets /\ Response(from, v) # Submission
  <2>1. Submission \in Packets
    BY DEF Packets
  <2>2. \A v \in Verdict, from \in {"server", "another_peer"} : Response(from, v) \in Packets
    BY DEF Packets
  <2>3. \A v, from : Response(from, v).kind = "response"
    BY DEF Response
  <2>4. Submission.kind = "submission"
    BY DEF Submission
  <2> QED
    BY <2>1, <2>2, <2>3, <2>4
<1>8. CASE MeetServer
  <2>1. /\ met' = TRUE
        /\ UNCHANGED <<phase, submitted, response, packets, verdict, outcome>>
    BY <1>8 DEF MeetServer
  <2>2. TypeInv'
    BY <1>1, <1>5, <2>1 DEF TypeInv, PowTypeOK
  <2>3. OverlayInv'
    BY <1>1, <1>3, <1>5, <2>1 DEF OverlayInv
  <2> QED
    BY <1>5, <1>6, <2>1, <2>2, <2>3 DEF PowInv
<1>9. CASE SubmitWhenFound
  <2>1. /\ phase = "submitting" /\ ~submitted /\ submitted' = TRUE
        /\ packets' = packets \cup {Submission}
        /\ UNCHANGED <<phase, met, response, verdict, outcome>>
    BY <1>9 DEF SubmitWhenFound
  <2>2. TypeInv'
    BY <1>1, <1>5, <1>7, <2>1 DEF TypeInv, PowTypeOK
  <2>3. SearchInv'
    BY <1>1, <1>2, <1>3, <1>4, <1>5, <2>1 DEF SearchInv
  <2>4. OverlayInv'
    BY <1>1, <1>3, <1>5, <1>7, <2>1 DEF OverlayInv
  <2> QED
    BY <2>2, <2>3, <2>4 DEF PowInv
<1>10. CASE TakeResponse \/ WaitTimesOut
  <2>1. /\ phase = "submitting" /\ phase' = "ended"
        /\ \/ response # "none" /\ outcome' = response
           \/ outcome' = "timeout"
        /\ UNCHANGED <<submitted, met, response, packets, verdict>>
    BY <1>10 DEF TakeResponse, WaitTimesOut, End
  <2>2. TypeInv'
    BY <1>1, <1>5, <2>1 DEF TypeInv, PowTypeOK
  <2>3. outcome' \in Verdict \cup {"timeout"} /\ outcome' # "exhausted" /\ "timeout" \notin Verdict
    BY <1>5, <2>1 DEF TypeInv, PowTypeOK, Verdict
  <2>4. SearchInv'
    BY <1>1, <1>2, <1>3, <1>4, <1>5, <2>1, <2>3 DEF SearchInv
  <2>5. OverlayInv'
    BY <1>1, <1>3, <1>5, <2>1, <2>3 DEF OverlayInv
  <2> QED
    BY <2>2, <2>4, <2>5 DEF PowInv
<1>11. CASE OnSubmission
  <2> DEFINE v == IF Meets(nonce, ServerDifficulty) THEN "accepted" ELSE "rejected"
  <2>1. /\ Submission \in packets /\ verdict' = v
        /\ packets' = (packets \ {Submission}) \cup {Response("server", v)}
        /\ UNCHANGED <<phase, submitted, met, response, outcome>>
    BY <1>11 DEF OnSubmission
  <2>2. v \in Verdict /\ "none" \notin Verdict
    BY DEF Verdict
  <2>3. nonce \in Nonces /\ Meets(nonce, Difficulty) /\ submitted /\ verdict = "none"
    BY <1>5, <2>1 DEF OverlayInv, SearchInv, TypeInv, PowTypeOK
  <2>4. v = "rejected" => Difficulty < ServerDifficulty
    BY <1>5, <2>3, MeetsLess DEF TypeInv
  <2> HIDE DEF v
  <2>5. TypeInv'
    BY <1>1, <1>5, <1>7, <2>1, <2>2 DEF TypeInv, PowTypeOK
  <2>6. \A u \in Verdict : Response("server", u) \in packets' => u = v
    <3>1. \A u \in Verdict : Response("server", u) \notin packets
      BY <1>5, <2>2, <2>3 DEF OverlayInv
    <3> QED
      BY <2>1, <3>1 DEF Response
  <2>7. /\ Submission \notin packets'
        /\ response = "none" /\ outcome \notin Verdict
    BY <1>5, <1>7, <2>1, <2>2, <2>3 DEF OverlayInv, TypeInv, PowTypeOK
  <2>8. OverlayInv'
    BY <1>1, <1>3, <1>5, <2>1, <2>3, <2>4, <2>6, <2>7 DEF OverlayInv
  <2> QED
    BY <1>5, <1>6, <2>1, <2>5, <2>8 DEF PowInv
<1>12. CASE \E v \in Verdict : AnotherPeerResponds(v)
  <2>1. PICK v \in Verdict : AnotherPeerResponds(v)
    BY <1>12
  <2>2. /\ packets' = packets \cup {Response("another_peer", v)}
        /\ UNCHANGED <<phase, submitted, met, response, verdict, outcome>>
    BY <2>1 DEF AnotherPeerResponds
  <2>3. TypeInv'
    BY <1>1, <1>5, <1>7, <2>2 DEF TypeInv, PowTypeOK
  <2>4. \A u : Response("server", u) # Response("another_peer", v)
    BY DEF Response
  <2>5. OverlayInv'
    BY <1>1, <1>3, <1>5, <1>7, <2>2, <2>4 DEF OverlayInv
  <2> QED
    BY <1>5, <1>6, <2>2, <2>3, <2>5 DEF PowInv
<1>13. CASE \E p \in packets : OnResponse(p) \/ LosePacket(p)
  <2>1. PICK p \in packets : OnResponse(p) \/ LosePacket(p)
    BY <1>13
  <2>2. /\ packets' = packets \ {p}
        /\ \/ response' = response
           \/ p.kind = "response" /\ p.from = "server" /\ response' = p.verdict
        /\ UNCHANGED <<phase, submitted, met, verdict, outcome>>
    BY <2>1 DEF OnResponse, LosePacket
  <2>3. response' = response \/ (response' \in Verdict /\ response' = verdict)
    <3>1. p \in Packets
      BY <1>5 DEF TypeInv, PowTypeOK
    <3>2. ASSUME p.kind = "response", p.from = "server"
          PROVE  p.verdict \in Verdict /\ p = Response("server", p.verdict)
      BY <3>1, <3>2 DEF Packets, Submission, Response
    <3>3. \A v \in Verdict : p = Response("server", v) => verdict = v
      BY <1>5 DEF OverlayInv
    <3>4. CASE response' = response
      BY <3>4
    <3>5. CASE p.kind = "response" /\ p.from = "server" /\ response' = p.verdict
      BY <3>2, <3>3, <3>5
    <3> QED
      BY <2>2, <3>4, <3>5
  <2>4. TypeInv'
    BY <1>1, <1>5, <2>2, <2>3 DEF TypeInv, PowTypeOK
  <2>5. OverlayInv'
    BY <1>1, <1>3, <1>5, <2>2, <2>3 DEF OverlayInv
  <2> QED
    BY <1>5, <1>6, <2>2, <2>4, <2>5 DEF PowInv
<1> QED
  BY <1>8, <1>9, <1>10, <1>11, <1>12, <1>13

LEMMA PowInvariance == PowSpec => []PowInv
<1>1. PowInit => PowInv
  <2> SUFFICES ASSUME PowInit PROVE PowInv
    OBVIOUS
  <2>1. TypeInv
    <3>1. 0 \in 0..MaxNonce + 1
      BY PowAssumption
    <3> QED
      BY <3>1 DEF PowInit, PowInitOf, TypeInv, PowTypeOK
  <2>2. SearchInv
    BY DEF PowInit, PowInitOf, SearchInv
  <2>3. OverlayInv
    BY DEF PowInit, PowInitOf, OverlayInv, Verdict
  <2> QED
    BY <2>1, <2>2, <2>3 DEF PowInv
<1>2. PowInv /\ [PowNext]_powVars => PowInv'
  <2> SUFFICES ASSUME PowInv, [PowNext]_powVars PROVE PowInv'
    OBVIOUS
  <2>1. CASE PowNext
    BY <2>1, SearchKeeps, OverlayKeeps DEF PowNext, MainStep
  <2>2. CASE UNCHANGED powVars
    BY <2>2 DEF powVars, PowInv, TypeInv, PowTypeOK, SearchInv, OverlayInv, Meets, NoneMeets,
                Difficulty, Start
  <2> QED
    BY <2>1, <2>2
<1> QED
  BY <1>1, <1>2, PTL DEF PowSpec

--------------------------------------------------------------------------------

(* The types of the Lab 1 client; the search never leaves the range of     *)
(* nonces that the server takes.                                           *)
THEOREM PowTypeCorrect == PowSpec => []PowTypeOK
<1>1. PowInv => PowTypeOK
  BY DEF PowInv, TypeInv
<1> QED
  BY <1>1, PowInvariance, PTL

(* For every hash function, range and difficulty, mine_pow returns the     *)
(* first nonce from its start that meets the difficulty, and gives up only *)
(* when there is none.                                                     *)
THEOREM SearchTheorem == PowSpec => []SearchIsExact
<1>1. PowInv => SearchIsExact
  <2> SUFFICES ASSUME PowInv, ~options.submit_only
               PROVE  LET meeting == {n \in Start..MaxNonce : Meets(n, Difficulty)}
                      IN /\ nonce # NoNonce => nonce \in meeting /\ \A n \in meeting : nonce <= n
                         /\ outcome = "exhausted" => meeting = {}
    BY DEF SearchIsExact, Start, Difficulty
  <2>1. Start \in Nat /\ MaxNonce \in Nat /\ nonce \in Nonces \cup {NoNonce}
    BY OptionsAreTyped DEF PowInv, TypeInv, PowTypeOK
  <2>2. ASSUME nonce # NoNonce
        PROVE  /\ nonce \in Start..MaxNonce /\ Meets(nonce, Difficulty)
               /\ \A n \in Start..MaxNonce : Meets(n, Difficulty) => nonce <= n
    <3>1. /\ nonce \in 0..MaxNonce /\ Start <= nonce /\ Meets(nonce, Difficulty)
          /\ NoneMeets(Start, nonce - 1)
      BY <2>1, <2>2 DEF PowInv, SearchInv, Nonces
    <3> QED
      BY <2>1, <3>1 DEF NoneMeets
  <2>3. outcome = "exhausted" => \A n \in Start..MaxNonce : ~Meets(n, Difficulty)
    BY DEF PowInv, SearchInv, NoneMeets
  <2> QED
    BY <2>2, <2>3
<1> QED
  BY <1>1, PowInvariance, PTL

(* A client whose difficulty is at least the server's submits nothing that *)
(* the server rejects for its hash.                                        *)
THEOREM NeverRejectedTheorem == PowSpec => []NeverRejected
<1>1. PowInv => NeverRejected
  <2> SUFFICES ASSUME PowInv, Difficulty >= ServerDifficulty, outcome = "rejected"
               PROVE  FALSE
    BY DEF NeverRejected, Difficulty
  <2>1. Difficulty < ServerDifficulty
    BY DEF PowInv, OverlayInv, Verdict
  <2> QED
    BY <2>1, OptionsAreTyped DEF PowInv
<1> QED
  BY <1>1, PowInvariance, PTL

(* The program reports the server's verdict and nobody else's.             *)
THEOREM VerdictTheorem == PowSpec => []VerdictIsServers
<1>1. PowInv => VerdictIsServers
  BY DEF PowInv, OverlayInv, VerdictIsServers
<1> QED
  BY <1>1, PowInvariance, PTL
================================================================================
