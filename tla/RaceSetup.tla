------------------------------- MODULE RaceSetup -------------------------------
(***************************************************************************)
(* How the members of Lab 2 get from their teammates' endpoints to the     *)
(* race: run_relay_race of src/lab2_relay_race/race.py looks for the       *)
(* server, with the help of the address a teammate broadcasts and of the   *)
(* one kept in a file by an earlier run, and Node A registers the group.   *)
(*                                                                         *)
(* The search counts its polls of 0.1 s; the other time-outs may come at   *)
(* any time.  The file can be written.  The server, IPv8, which may find   *)
(* it at any moment or never, and the network, which may lose anything,    *)
(* are external.                                                           *)
(***************************************************************************)
EXTENDS Naturals

CONSTANTS
    Members,       \* the members of the team
    NodeA,         \* the one that registers the group
    SearchPolls,   \* server_peer_timeout
    HintPolls,     \* how long a hint waits to be verified
    Requests,      \* how many requests registration_timeout allows
    \* bound of the model
    MaxRuns        \* how often a member runs the program

ASSUME RaceSetupAssumption ==
    /\ NodeA \in Members
    /\ SearchPolls \in Nat /\ HintPolls \in Nat
    /\ Requests \in Nat \ {0} /\ MaxRuns \in Nat

(* Where the server was once, and where it is. *)
Address == {"former", "present"}
Hint == Address \cup {"none"}

(* "session": server_peer is known; Node A registers, the others wait for  *)
(* GroupReady.  "ready": the rounds begin.                                 *)
Stage == {"down", "searching", "unfound", "session", "ready", "failed"}

VARIABLES
    stage,     \* how far run_relay_race of each member is
    runs,      \* how often each member has run it
    elapsed,   \* polls since the search began
    age,       \* polls since hinted_since
    hint,      \* hinted_address
    cache,     \* the file .lab2_server_hint.json
    server,    \* the address of server_peer
    heard,     \* the hints each member has received and not yet read
    verified,  \* the members whose IPv8 has the server as a peer
    requests,  \* how many requests this run of Node A has sent
    asked,     \* whether a registration is under way to the server
    answers,   \* "none", "coming" or "queued" in _registration_results
    recorded,  \* whether the server has the group
    welcome    \* whether the server takes the group; does not change

searchVars == <<elapsed, age, hint, cache, heard, verified>>
groupVars == <<requests, asked, answers, recorded, welcome>>
setupVars == <<stage, runs, server, searchVars, groupVars>>

RaceSetupTypeOK ==
    /\ stage \in [Members -> Stage]
    /\ runs \in [Members -> 0..MaxRuns]
    /\ elapsed \in [Members -> 0..SearchPolls]
    /\ age \in [Members -> 0..HintPolls]
    /\ hint \in [Members -> Hint]
    /\ cache \in [Members -> Hint]
    /\ server \in [Members -> Hint]
    /\ heard \in [Members -> SUBSET Address]
    /\ verified \subseteq Members
    /\ requests \in 0..Requests
    /\ asked \in BOOLEAN
    /\ answers \in {"none", "coming", "queued"}
    /\ recorded \in BOOLEAN
    /\ welcome \in BOOLEAN

RaceSetupInitOf(playing) ==
    /\ stage = [m \in Members |-> "down"]
    /\ runs = [m \in Members |-> IF m \in playing THEN 0 ELSE MaxRuns]
    /\ elapsed = [m \in Members |-> 0]
    /\ age = [m \in Members |-> 0]
    /\ hint = [m \in Members |-> "none"]
    /\ cache \in [Members -> Hint]
    /\ server = [m \in Members |-> "none"]
    /\ heard = [m \in Members |-> {}]
    /\ verified = {}
    /\ requests = 0
    /\ asked = FALSE
    /\ answers = "none"
    /\ recorded = FALSE
    /\ welcome \in BOOLEAN

RaceSetupInit == RaceSetupInitOf(Members)

--------------------------------------------------------------------------------
(* The search for the server                                               *)

(* Mistake: the kept address is walked to and then forgotten.              *)
WalkToCachedHintOnly(m) == hint' = [hint EXCEPT ![m] = "none"]

(* _walk_to_cached_server_hint: the kept address is the first hint. *)
WalkToCachedHint(m) == hint' = [hint EXCEPT ![m] = cache[m]]

(* run_relay_race, for the first time or after a failure. *)
StartSearch(m) ==
    /\ stage[m] \in {"down", "unfound", "failed"}
    /\ runs[m] < MaxRuns
    /\ runs' = [runs EXCEPT ![m] = @ + 1]
    /\ stage' = [stage EXCEPT ![m] = "searching"]
    /\ WalkToCachedHint(m)
    /\ server' = [server EXCEPT ![m] = "none"]
    /\ requests' = IF m = NodeA THEN 0 ELSE requests
    /\ answers' = IF m = NodeA /\ answers = "queued" THEN "none" ELSE answers
    /\ UNCHANGED <<elapsed, age, heard, cache, verified, asked, recorded, welcome>>

(* IPv8 verifies the server. *)
VerifyServer(m) ==
    /\ stage[m] = "searching"
    /\ verified' = verified \cup {m}
    /\ UNCHANGED <<stage, runs, server, elapsed, age, hint, cache, heard, groupVars>>

Polling(m) == stage[m] = "searching" /\ elapsed[m] < SearchPolls

(* What the search knew is gone when it is over. *)
EndSearch(m) ==
    /\ elapsed' = [elapsed EXCEPT ![m] = 0]
    /\ age' = [age EXCEPT ![m] = 0]
    /\ hint' = [hint EXCEPT ![m] = "none"]
    /\ heard' = [heard EXCEPT ![m] = {}]
    /\ verified' = verified \ {m}

(* The session of m starts with the server at a; hints are ignored from    *)
(* here on (ignore_message_id).                                            *)
EnterSession(m, a) ==
    /\ stage' = [stage EXCEPT ![m] = "session"]
    /\ server' = [server EXCEPT ![m] = a]
    /\ EndSearch(m)
    /\ UNCHANGED <<runs, groupVars>>

(* Mistake: the address that was found is not written to the file.         *)
FindServerWithoutWriting(m) ==
    /\ Polling(m)
    /\ m \in verified
    /\ EnterSession(m, "present")
    /\ UNCHANGED cache

FindServer(m) ==
    /\ Polling(m)
    /\ m \in verified
    /\ EnterSession(m, "present")
    /\ cache' = [cache EXCEPT ![m] = "present"]

HintIsDue(m) == hint[m] # "none" /\ age[m] = HintPolls

(* After two seconds a hint is used as it is. *)
UseHint(m) ==
    /\ Polling(m)
    /\ m \notin verified
    /\ HintIsDue(m)
    /\ EnterSession(m, hint[m])
    /\ UNCHANGED cache

(* Mistake: whoever tells an address gives the search more time.           *)
HearHintAnew(m, a) ==
    /\ Polling(m) /\ m \notin verified /\ ~HintIsDue(m)
    /\ a \in heard[m]
    /\ heard' = [heard EXCEPT ![m] = @ \ {a}]
    /\ cache' = [cache EXCEPT ![m] = a]
    /\ hint' = [hint EXCEPT ![m] = a]
    /\ age' = [age EXCEPT ![m] = 0]
    /\ elapsed' = [elapsed EXCEPT ![m] = 0]
    /\ UNCHANGED <<stage, runs, server, verified, groupVars>>

(* The last word counts, and another address has to wait anew. *)
HearHint(m, a) ==
    /\ Polling(m) /\ m \notin verified /\ ~HintIsDue(m)
    /\ a \in heard[m]
    /\ heard' = [heard EXCEPT ![m] = @ \ {a}]
    /\ cache' = [cache EXCEPT ![m] = a]
    /\ hint' = [hint EXCEPT ![m] = a]
    /\ age' = [age EXCEPT ![m] = IF a = hint[m] THEN @ ELSE 0]
    /\ UNCHANGED <<stage, runs, server, elapsed, verified, groupVars>>

(* 0.1 s without a hint. *)
Poll(m) ==
    /\ Polling(m) /\ m \notin verified /\ ~HintIsDue(m)
    /\ elapsed' = [elapsed EXCEPT ![m] = @ + 1]
    /\ age' = [age EXCEPT ![m] = IF hint[m] = "none" THEN @ ELSE @ + 1]
    /\ UNCHANGED <<stage, runs, server, hint, cache, heard, verified, groupVars>>

(* The time is up: any hint will do, and without one the program fails. *)
SearchTimesOut(m) ==
    /\ stage[m] = "searching"
    /\ elapsed[m] = SearchPolls
    /\ IF hint[m] # "none"
       THEN EnterSession(m, hint[m])
       ELSE /\ stage' = [stage EXCEPT ![m] = "unfound"]
            /\ EndSearch(m)
            /\ UNCHANGED <<runs, server, groupVars>>
    /\ UNCHANGED cache

(* A hint that n broadcasts while its session lasts reaches m. *)
BroadcastServerHint(n, m) ==
    /\ n # m
    /\ stage[n] \in {"session", "ready"}
    /\ stage[m] = "searching"
    /\ heard' = [heard EXCEPT ![m] = @ \cup {server[n]}]
    /\ UNCHANGED <<stage, runs, server, elapsed, age, hint, cache, verified, groupVars>>

--------------------------------------------------------------------------------
(* The registration                                                        *)

(* A turn of _register_group.  What is sent to where the server was is     *)
(* lost.                                                                   *)
SendGroupRegister ==
    /\ stage[NodeA] = "session" /\ requests < Requests
    /\ requests > 0 => answers # "queued"
    /\ requests' = requests + 1
    /\ asked' = (asked \/ server[NodeA] = "present")
    /\ UNCHANGED <<stage, runs, server, searchVars, answers, recorded, welcome>>

(* Mistake: any answer will do.                                            *)
TakeAnyAnswer ==
    /\ stage[NodeA] = "session" /\ requests > 0 /\ answers = "queued"
    /\ answers' = "none"
    /\ stage' = [stage EXCEPT ![NodeA] = "ready"]
    /\ UNCHANGED <<runs, server, searchVars, requests, asked, recorded, welcome>>

(* The answer to any of the requests, also to one of an earlier run. *)
TakeAnswer ==
    /\ stage[NodeA] = "session" /\ requests > 0 /\ answers = "queued"
    /\ answers' = "none"
    /\ stage' = [stage EXCEPT ![NodeA] = IF welcome THEN "ready" ELSE "failed"]
    /\ UNCHANGED <<runs, server, searchVars, requests, asked, recorded, welcome>>

(* registration_timeout of Node A, or group_ready_timeout of another. *)
SessionTimesOut(m) ==
    /\ stage[m] = "session"
    /\ m = NodeA => requests = Requests /\ answers # "queued"
    /\ stage' = [stage EXCEPT ![m] = "failed"]
    /\ UNCHANGED <<runs, server, searchVars, groupVars>>

(* GroupReady, with the group_id, comes from Node A. *)
HearGroupReady(m) ==
    /\ m # NodeA
    /\ stage[NodeA] = "ready" /\ stage[m] = "session"
    /\ stage' = [stage EXCEPT ![m] = "ready"]
    /\ UNCHANGED <<runs, server, searchVars, groupVars>>

(* The server takes the group, or the same group again, or refuses it. *)
OnGroupRegister ==
    /\ asked
    /\ asked' = FALSE
    /\ recorded' = (recorded \/ welcome)
    /\ answers' = IF answers = "queued" THEN answers ELSE "coming"
    /\ UNCHANGED <<stage, runs, server, searchVars, requests, welcome>>

(* Nothing hears what comes while the program does not run. *)
OnGroupRegisterResponse ==
    /\ answers = "coming"
    /\ answers' = IF stage[NodeA] \in {"searching", "session"} THEN "queued" ELSE "none"
    /\ UNCHANGED <<stage, runs, server, searchVars, requests, asked, recorded, welcome>>

LoseRegistration ==
    /\ \/ asked /\ asked' = FALSE /\ UNCHANGED answers
       \/ answers = "coming" /\ answers' = "none" /\ UNCHANGED asked
    /\ UNCHANGED <<stage, runs, server, searchVars, requests, recorded, welcome>>

(* What the program of m does by itself. *)
SetupStep(m) ==
    \/ StartSearch(m)
    \/ FindServer(m)
    \/ UseHint(m)
    \/ Poll(m)
    \/ SearchTimesOut(m)
    \/ SessionTimesOut(m)
    \/ m = NodeA /\ (SendGroupRegister \/ TakeAnswer)

RaceSetupNext ==
    \/ \E m \in Members : SetupStep(m) \/ VerifyServer(m) \/ HearGroupReady(m)
    \/ \E m \in Members, a \in Address : HearHint(m, a)
    \/ \E n, m \in Members : BroadcastServerHint(n, m)
    \/ OnGroupRegister \/ OnGroupRegisterResponse \/ LoseRegistration

RaceSetupSpec == RaceSetupInit /\ [][RaceSetupNext]_setupVars

(* The programs run on; nothing is asked of the network or the server. *)
RaceSetupFairness == \A m \in Members : WF_setupVars(SetupStep(m))

FairRaceSetupSpec == RaceSetupSpec /\ RaceSetupFairness

--------------------------------------------------------------------------------
(* The file holds the address that the program last used, so that the next *)
(* run does not begin with one that has since been replaced (race.py:250). *)
CacheIsLastServer == \A m \in Members : server[m] # "none" => cache[m] = server[m]

(* No search fails with an address at hand, whether from a teammate or     *)
(* from an earlier run (race.py:289).                                      *)
FailsOnlyUnhinted == \A m \in Members : stage[m] = "unfound" => cache[m] = "none"

(* Nobody begins the rounds of a group that the server does not have,      *)
(* whatever became of requests, answers and earlier runs (race.py:462).    *)
NobodyRacesUnregistered == (\E m \in Members : stage[m] = "ready") => recorded

(* The search ends, however often the teammates contradict each other      *)
(* about the address, and so does the wait for the group (race.py:284).    *)
SetUpEnds ==
    \A m \in Members : stage[m] = "searching" ~> stage[m] \in {"unfound", "ready", "failed"}
================================================================================
