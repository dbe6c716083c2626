------------------------------ MODULE MCPrograms -------------------------------
(***************************************************************************)
(* The programs that are run before or beside the protocols: the start of  *)
(* the Lab 3 nodes, the set-up of the Lab 2 race and the Lab 1 client.     *)
(* They share no state.  One of them runs at a time, while nobody takes    *)
(* part in the others, so that the states of one do not multiply those of  *)
(* another.                                                                *)
(***************************************************************************)
EXTENDS NodeStartup, RaceSetup, PowClient

(* Two bytes of two bits, of three nonces. *)
MCDigests == [0..2 -> {<<0, 0>>, <<0, 1>>, <<0, 3>>, <<2, 0>>}]
MCAllDigests == (0..3) \X (0..3)

MCOptions ==
    [difficulty : {1, 2, 3}, nonce : {NoNonce, 1, 4}, submit_only : {TRUE, FALSE},
     mine_only : {FALSE}]
      \cup {[difficulty |-> 2, nonce |-> n, submit_only |-> s, mine_only |-> TRUE] :
              n \in {NoNonce, 1}, s \in BOOLEAN}

(* To start with so many zero bits is to be, read as one number, below a   *)
(* power of two; and the bits are counted right.                           *)
ASSUME MCZeroBits ==
    \A d \in MCAllDigests, difficulty \in 0..4 :
        /\ StartsWithZeroBits(d, difficulty) <=> 4 * d[1] + d[2] < 2^(4 - difficulty)
        /\ StartsWithZeroBits(d, difficulty) <=> LeadingZeroBits(d) >= difficulty

(* Nobody takes part. *)
StartupIdle == StartupInitOf({}) /\ ruling = "failure"
RaceSetupIdle == RaceSetupInitOf({}) /\ cache = [m \in Members |-> "none"] /\ ~welcome
PowIdle ==
    /\ PowInitOf("ended")
    /\ digest = [n \in 0..2 |-> <<0, 0>>]
    /\ options = [difficulty |-> 2, nonce |-> NoNonce, submit_only |-> FALSE, mine_only |-> TRUE]

ProgramsInit ==
    \/ StartupInit /\ RaceSetupIdle /\ PowIdle
    \/ StartupIdle /\ RaceSetupInit /\ PowIdle
    \/ StartupIdle /\ RaceSetupIdle /\ PowInit

ProgramsNext ==
    \/ StartupNext /\ UNCHANGED <<setupVars, powVars>>
    \/ RaceSetupNext /\ UNCHANGED <<startupVars, powVars>>
    \/ PowNext /\ UNCHANGED <<startupVars, setupVars>>

ProgramsSpec ==
    /\ ProgramsInit
    /\ [][ProgramsNext]_<<startupVars, setupVars, powVars>>
    /\ StartupFairness /\ RaceSetupFairness /\ PowFairness
================================================================================
