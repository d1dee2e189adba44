------------------------------- MODULE Shutdown -------------------------------
(***************************************************************************)
(* How the programs of the bus are shut down by requests of others:        *)
(* shutdown.cpp, shutdown_impl.cpp and the main loops of the router, the   *)
(* bridge and the bridge over MQTT.                                        *)
(***************************************************************************)
EXTENDS Naturals, Sequences, SequencesExt

CONSTANTS
    Programs,
    Config,      (* program: [ignore, verify, bridge : BOOLEAN]             *)
    MaxRequests  (* bound: the requests                                     *)

ShutdownAssumption ==
    /\ Config \in [Programs -> [ignore : BOOLEAN, verify : BOOLEAN, bridge : BOOLEAN]]
    /\ MaxRequests \in Nat

VARIABLES
    inbox,       (* program: the requests that came                         *)
    doShutdown,  (* program: _do_shutdown                                   *)
    expired,     (* program: _shutdown_timeout, which runs from the start   *)
    interrupted, (* the programs that got a signal                          *)
    done,        (* the bridges that are_done                               *)
    phase,       (* program: "running", "finishing", "ended"                *)
    sent,
    waited       (* program: "no" valid request came, the delay since the   *)
                 (* last one is "running", or has "passed"                  *)

vars == <<inbox, doShutdown, expired, interrupted, done, phase, sent, waited>>

Init ==
    /\ inbox = [p \in Programs |-> <<>>]
    /\ doShutdown = [p \in Programs |-> FALSE] /\ expired = [p \in Programs |-> FALSE]
    /\ interrupted = {} /\ done = {}
    /\ phase = [p \in Programs |-> "running"] /\ sent = 0
    /\ waited = [p \in Programs |-> "no"]

(* message_digest_sign_init: nothing gives a context its private key. What *)
(* cannot be signed is stored as it is (store_and_sign).                   *)
SignInit == FALSE
StoreAndSign == [signed |-> SignInit, old |-> FALSE]

(* shutdown_one, with post_signed.                                         *)
ShutdownOne(p) ==
    /\ sent < MaxRequests /\ sent' = sent + 1
    /\ inbox' = [inbox EXCEPT ![p] = Append(@, StoreAndSign)]
    /\ UNCHANGED <<doShutdown, expired, interrupted, done, phase, waited>>

(* A request gets older than _shutdown_max_age before it is decoded        *)
(* (do_decode_shutdown_request).                                           *)
GetOld(p) ==
    /\ \E r \in ToSet(inbox[p]) : ~r.old
    /\ inbox' = [inbox EXCEPT ![p] = [i \in DOMAIN @ |-> [@[i] EXCEPT !.old = TRUE]]]
    /\ UNCHANGED <<doShutdown, expired, interrupted, done, phase, sent, waited>>

(* stored_message::verify_bits and context::verify_remote_signature.       *)
VerifyBits(r) ==
    IF r.signed THEN {"source_certificate", "source_private_key", "message_content"} ELSE {}

ShutdownVerified(bits) ==
    {"source_id", "source_certificate", "source_private_key", "message_id"} \subseteq bits

(* on_shutdown: whether the request is valid.                              *)
IsValid(p, r) ==
    /\ ~Config[p].ignore /\ ~r.old
    /\ ~Config[p].verify \/ ShutdownVerified(VerifyBits(r))

(* The node handles all that came; a valid request starts the delay anew.  *)
Handle(p) ==
    LET valid == \E r \in ToSet(inbox[p]) : IsValid(p, r)
    IN  /\ doShutdown' = [doShutdown EXCEPT ![p] = @ \/ valid]
        /\ expired' = [expired EXCEPT ![p] = @ /\ ~valid]
        /\ waited' = IF valid THEN [waited EXCEPT ![p] = "running"] ELSE waited

(* is_shut_down                                                            *)
IsShutDown(p) == doShutdown[p] /\ expired[p]

(* One turn of the main loop.                                              *)
Turn(p) ==
    /\ phase[p] = "running"
    /\ \/ /\ p \notin interrupted \cup done /\ ~IsShutDown(p)
          /\ Handle(p)
          /\ inbox' = [inbox EXCEPT ![p] = <<>>]
          /\ UNCHANGED phase
       \/ /\ p \in interrupted \cup done \/ IsShutDown(p)
          /\ phase' = [phase EXCEPT ![p] = "finishing"]
          /\ UNCHANGED <<inbox, doShutdown, expired, waited>>
    /\ UNCHANGED <<interrupted, done, sent>>

(* router::finish, bridge::finish                                          *)
Finish(p) ==
    /\ phase[p] = "finishing"
    /\ phase' = [phase EXCEPT ![p] = "ended"]
    /\ UNCHANGED <<inbox, doShutdown, expired, interrupted, done, sent, waited>>

(* The delay passes.                                                       *)
Expire(p) ==
    /\ ~expired[p] \/ waited[p] = "running"
    /\ expired' = [expired EXCEPT ![p] = TRUE]
    /\ waited' = [waited EXCEPT ![p] = IF @ = "running" THEN "passed" ELSE @]
    /\ UNCHANGED <<inbox, doShutdown, interrupted, done, phase, sent>>

(* A signal; or the bridge has lost its connection for too long.           *)
Interrupt(p) ==
    /\ p \notin interrupted
    /\ interrupted' = interrupted \cup {p}
    /\ UNCHANGED <<inbox, doShutdown, expired, done, phase, sent, waited>>

BridgeIsDone(p) ==
    /\ Config[p].bridge /\ p \notin done
    /\ done' = done \cup {p}
    /\ UNCHANGED <<inbox, doShutdown, expired, interrupted, phase, sent, waited>>

Next ==
    \E p \in Programs :
        \/ ShutdownOne(p) \/ GetOld(p) \/ Turn(p) \/ Finish(p) \/ Expire(p)
        \/ Interrupt(p) \/ BridgeIsDone(p)

Spec == Init /\ [][Next]_vars

(* The program runs, and time passes.                                      *)
Fairness == \A p \in Programs : WF_vars(Turn(p)) /\ WF_vars(Finish(p)) /\ WF_vars(Expire(p))

FairSpec == Spec /\ Fairness

(* A program that was not interrupted ends only on a valid request, and    *)
(* when the whole delay has passed since the last one; one that ignores    *)
(* requests, or wants them verified, does not end.                         *)
ShutDownInOrder ==
    \A p \in Programs :
        phase[p] # "running" /\ p \notin interrupted \cup done =>
            waited[p] = "passed" /\ ~Config[p].ignore /\ ~Config[p].verify

===============================================================================
