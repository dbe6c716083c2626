------------------------------ MODULE MCRelayRace ------------------------------
(* Teams for the relay race. *)
EXTENDS RelayRace

MCTeam(rounds, deadlines, early, lost) ==
    [rounds |-> rounds, deadlines |-> deadlines, early |-> early,
     lost |-> lost, losses |-> 1]

(* The whole team, with the fallback that a lost baton brings about; and   *)
(* the first and the last leader, with everything that can happen to them. *)
MCRaces ==
    {MCTeam(3, FALSE, {}, "batons"),
     MCTeam(2, TRUE, {"wait_for_baton", "submit_bundle", "send_baton"}, "anything")}

MCFinishes == {MCTeam(2, FALSE, {"wait_for_baton", "request_challenge"}, "repeated")}
================================================================================
