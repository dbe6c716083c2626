------------------------------- MODULE PowClient -------------------------------
(***************************************************************************)
(* The client of Lab 1 (src/lab1_pow_ipv8): main.py searches a nonce with  *)
(* mine_pow of pow.py, or takes one that is given, and submits it once to  *)
(* the server with the overlay of client.py.                               *)
(*                                                                         *)
(* A byte has ByteBits bits.  SHA-256 is any function from the nonces to   *)
(* digests: the e-mail address and the URL are those of one run.  The      *)
(* time-out may come at any time.  The server, IPv8 and the network are    *)
(* external.                                                               *)
(***************************************************************************)
EXTENDS Naturals, Sequences

CONSTANTS
    ByteBits,          \* bits of a byte
    MaxNonce,          \* MAX_NONCE
    Digests,           \* the functions that SHA-256 may be
    ServerDifficulty,  \* the leading zero bits the server asks for
    Options,           \* the command lines
    NoNonce            \* None

Nonces == 0..MaxNonce

(* The powers of two that a byte is compared with, and the bytes. *)
TwoTo[k \in 0..ByteBits] == IF k = 0 THEN 1 ELSE 2 * TwoTo[k - 1]
Bytes == 0..TwoTo[ByteBits] - 1

ASSUME PowAssumption ==
    /\ ByteBits \in Nat \ {0} /\ MaxNonce \in Nat /\ ServerDifficulty \in Nat
    /\ Digests \subseteq [Nonces -> Seq(Bytes)]
    /\ NoNonce \notin Nat
    /\ \A o \in Options : /\ o.difficulty \in Nat
                          /\ o.nonce \in Nat \cup {NoNonce}
                          /\ o.submit_only \in BOOLEAN /\ o.mine_only \in BOOLEAN

VARIABLES
    digest,     \* pow_digest of each nonce; does not change
    options,    \* the command line; does not change
    phase,      \* how far main is
    tried,      \* the next nonce of mine_pow
    nonce,      \* what is to be submitted
    submitted,  \* _submit_started
    met,        \* whether IPv8 has the server as a peer
    response,   \* _response
    packets,    \* packets under way
    verdict,    \* what the server has answered
    outcome     \* how the program ended

powVars == <<digest, options, phase, tried, nonce, submitted, met, response,
             packets, verdict, outcome>>

Verdict == {"accepted", "rejected"}
Submission == [kind |-> "submission"]
Response(sender, v) == [kind |-> "response", from |-> sender, verdict |-> v]
Packets ==
    {Submission} \cup {Response(s, v) : s \in {"server", "another_peer"}, v \in Verdict}

PowTypeOK ==
    /\ options \in Options
    /\ phase \in {"off", "mining", "submitting", "ended"}
    /\ tried \in 0..MaxNonce + 1
    /\ nonce \in Nonces \cup {NoNonce}
    /\ submitted \in BOOLEAN /\ met \in BOOLEAN
    /\ response \in Verdict \cup {"none"}
    /\ packets \subseteq Packets
    /\ verdict \in Verdict \cup {"none"}
    /\ outcome \in Verdict \cup {"none", "error", "exhausted", "mined", "timeout"}

(* A program that is run, or none. *)
PowInitOf(at) ==
    /\ digest \in Digests
    /\ options \in Options
    /\ phase = at
    /\ tried = 0
    /\ nonce = NoNonce
    /\ submitted = FALSE
    /\ met = FALSE
    /\ response = "none"
    /\ packets = {}
    /\ verdict = "none"
    /\ outcome = "none"

PowInit == PowInitOf("off")

--------------------------------------------------------------------------------
(* Proof of work                                                           *)

(* byte.bit_length() *)
BitLength(byte) ==
    CHOOSE k \in 0..ByteBits : byte < TwoTo[k] /\ \A j \in 0..k - 1 : TwoTo[j] <= byte

(* The whole zero bytes, and the zeros of the first other one. *)
LeadingZeroBits(d) ==
    LET first == CHOOSE i \in 1..Len(d) : d[i] # 0 /\ \A j \in 1..i - 1 : d[j] = 0
    IN IF \A i \in 1..Len(d) : d[i] = 0 THEN ByteBits * Len(d)
       ELSE ByteBits * (first - 1) + (ByteBits - BitLength(d[first]))

IsValidPow(n, difficulty) == LeadingZeroBits(digest[n]) >= difficulty

(* What the server asks (docs/Lab1.md:44): for 28 bits, "the first 3 bytes *)
(* are all zeros and the next byte is < 16".                               *)
StartsWithZeroBits(d, difficulty) ==
    LET whole == difficulty \div ByteBits
        rest == difficulty % ByteBits
    IN /\ whole <= Len(d) /\ \A i \in 1..whole : d[i] = 0
       /\ rest > 0 => whole < Len(d) /\ d[whole + 1] < TwoTo[ByteBits - rest]

Meets(n, difficulty) == StartsWithZeroBits(digest[n], difficulty)

--------------------------------------------------------------------------------
(* main                                                                    *)

End(how) ==
    /\ phase' = "ended"
    /\ outcome' = how
    /\ UNCHANGED <<digest, options, submitted, met, response, packets, verdict>>

(* configure_submission: the task submit_when_found starts. *)
Submit(n) ==
    /\ phase' = "submitting"
    /\ nonce' = n
    /\ UNCHANGED <<digest, options, submitted, met, response, packets, verdict, outcome>>

(* Mistake: a nonce that is given is trusted.                              *)
UseNonceUnchecked ==
    /\ phase = "off" /\ options.submit_only
    /\ IF options.nonce \in Nonces
       THEN IF options.mine_only THEN End("mined") /\ UNCHANGED nonce ELSE Submit(options.nonce)
       ELSE End("error") /\ UNCHANGED nonce
    /\ UNCHANGED tried

(* --submit-only: mine_or_use_nonce checks the nonce that is given. *)
UseNonce ==
    /\ phase = "off" /\ options.submit_only
    /\ IF options.nonce \in Nonces /\ IsValidPow(options.nonce, options.difficulty)
       THEN IF options.mine_only THEN End("mined") /\ UNCHANGED nonce ELSE Submit(options.nonce)
       ELSE End("error") /\ UNCHANGED nonce
    /\ UNCHANGED tried

(* mine_pow begins with the nonce that is given, or with 0. *)
StartMining ==
    /\ phase = "off" /\ ~options.submit_only
    /\ LET start == IF options.nonce = NoNonce THEN 0 ELSE options.nonce
       IN IF start \in Nonces
          THEN /\ phase' = "mining" /\ tried' = start
               /\ UNCHANGED <<digest, options, submitted, met, response, packets, verdict, outcome>>
          ELSE End("error") /\ UNCHANGED tried
    /\ UNCHANGED nonce

(* One nonce is tried. *)
TryNonce ==
    /\ phase = "mining" /\ tried <= MaxNonce
    /\ IF IsValidPow(tried, options.difficulty)
       THEN /\ IF options.mine_only THEN End("mined") /\ nonce' = tried ELSE Submit(tried)
            /\ UNCHANGED tried
       ELSE /\ tried' = tried + 1
            /\ UNCHANGED <<digest, options, phase, nonce, submitted, met, response,
                           packets, verdict, outcome>>

(* Mistake: the last nonce does not belong to the range.                   *)
SearchExhaustedEarly ==
    /\ phase = "mining" /\ tried >= MaxNonce
    /\ End("exhausted")
    /\ UNCHANGED <<tried, nonce>>

(* "No nonce found in provided search range". *)
SearchExhausted ==
    /\ phase = "mining" /\ tried > MaxNonce
    /\ End("exhausted")
    /\ UNCHANGED <<tried, nonce>>

--------------------------------------------------------------------------------
(* The overlay                                                             *)

(* IPv8 finds the server. *)
MeetServer ==
    /\ phase = "submitting"
    /\ met' = TRUE
    /\ UNCHANGED <<digest, options, phase, tried, nonce, submitted, response, packets,
                   verdict, outcome>>

(* submit_when_found: a turn of the task that submits. *)
SubmitWhenFound ==
    /\ phase = "submitting" /\ response = "none"
    /\ met /\ ~submitted
    /\ submitted' = TRUE
    /\ packets' = packets \cup {Submission}
    /\ UNCHANGED <<digest, options, phase, tried, nonce, met, response, verdict, outcome>>

(* Mistake: a response is taken from anyone.                               *)
OnAnyResponse(p) ==
    /\ p.kind = "response"
    /\ response' = IF phase = "submitting" THEN p.verdict ELSE response
    /\ packets' = packets \ {p}
    /\ UNCHANGED <<digest, options, phase, tried, nonce, submitted, met, verdict, outcome>>

OnResponse(p) ==
    /\ p.kind = "response"
    /\ response' = IF phase = "submitting" /\ p.from = "server" THEN p.verdict ELSE response
    /\ packets' = packets \ {p}
    /\ UNCHANGED <<digest, options, phase, tried, nonce, submitted, met, verdict, outcome>>

(* wait_for_response returns. *)
TakeResponse ==
    /\ phase = "submitting" /\ response # "none"
    /\ End(response)
    /\ UNCHANGED <<tried, nonce>>

(* Mistake: the time is counted from the submission.                       *)
WaitTimesOutAfterSubmission ==
    /\ phase = "submitting" /\ response = "none" /\ submitted
    /\ End("timeout")
    /\ UNCHANGED <<tried, nonce>>

(* timeout_seconds pass, counted from the start of the overlay. *)
WaitTimesOut ==
    /\ phase = "submitting" /\ response = "none"
    /\ End("timeout")
    /\ UNCHANGED <<tried, nonce>>

(* The server judges a submission. *)
OnSubmission ==
    LET v == IF Meets(nonce, ServerDifficulty) THEN "accepted" ELSE "rejected" IN
    /\ Submission \in packets
    /\ verdict' = v
    /\ packets' = (packets \ {Submission}) \cup {Response("server", v)}
    /\ UNCHANGED <<digest, options, phase, tried, nonce, submitted, met, response, outcome>>

(* Another peer of the overlay sends what only the server should. *)
AnotherPeerResponds(v) ==
    /\ phase = "submitting"
    /\ packets' = packets \cup {Response("another_peer", v)}
    /\ UNCHANGED <<digest, options, phase, tried, nonce, submitted, met, response,
                   verdict, outcome>>

LosePacket(p) ==
    /\ packets' = packets \ {p}
    /\ UNCHANGED <<digest, options, phase, tried, nonce, submitted, met, response,
                   verdict, outcome>>

MainStep ==
    \/ UseNonce
    \/ StartMining
    \/ TryNonce
    \/ SearchExhausted
    \/ SubmitWhenFound
    \/ TakeResponse
    \/ WaitTimesOut

PowNext ==
    \/ MainStep
    \/ MeetServer \/ OnSubmission
    \/ \E v \in Verdict : AnotherPeerResponds(v)
    \/ \E p \in packets : OnResponse(p) \/ LosePacket(p)

PowSpec == PowInit /\ [][PowNext]_powVars

(* The program runs on; nothing is asked of the network or the server. *)
PowFairness == WF_powVars(MainStep)

FairPowSpec == PowSpec /\ PowFairness

--------------------------------------------------------------------------------
(* The search finds the first nonce that meets the difficulty, counted     *)
(* from its start, and says that there is none only when there is none:    *)
(* both ends of the range are tried, and the zero bits are counted right   *)
(* (pow.py:76).                                                            *)
SearchIsExact ==
    LET start == IF options.nonce = NoNonce THEN 0 ELSE options.nonce
        meeting == {n \in start..MaxNonce : Meets(n, options.difficulty)}
    IN ~options.submit_only =>
        /\ nonce # NoNonce => nonce \in meeting /\ \A n \in meeting : nonce <= n
        /\ outcome = "exhausted" => meeting = {}

(* With at least the difficulty of the server nothing is submitted that    *)
(* the server rejects for its hash, whether mined or given (main.py:107).  *)
NeverRejected == options.difficulty >= ServerDifficulty => outcome # "rejected"

(* What the program reports is what the server answered, whoever else      *)
(* sends responses (client.py:164).                                        *)
VerdictIsServers == outcome \in Verdict => outcome = verdict

(* The program ends, also when the submission or its answer is lost, which *)
(* is sent once (client.py:132).                                           *)
PowClientEnds == <>(phase = "ended")
================================================================================
