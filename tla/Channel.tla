------------------------------- MODULE Channel -------------------------------
(***************************************************************************)
(* What a connection promises to the one who sends over it: each message   *)
(* is handed over at most once while the connection lasts, and a message   *)
(* is overtaken only by smaller ones.  When the connection is lost, what   *)
(* was under way may be lost with it, and may also be sent again over the  *)
(* next one.                                                               *)
(***************************************************************************)
EXTENDS Naturals, Sequences, FiniteSets

CONSTANTS
    Msgs, (* messages, each accepted at most once *)
    Size  (* [Msgs -> Nat]                        *)

VARIABLES
    log,  (* the messages that were accepted, in this order         *)
    todo, (* those that can still be handed over                    *)
    got   (* those handed over since the connection was established *)

vars == <<log, todo, got>>

In(s) == {s[i] : i \in 1 .. Len(s)}

(* k was accepted before m.                                                *)
Before(k, m) == \E i, j \in 1 .. Len(log) : i < j /\ log[i] = k /\ log[j] = m

Init == log = <<>> /\ todo = {} /\ got = <<>>

Accept(m) ==
    /\ m \notin In(log)
    /\ log' = Append(log, m)
    /\ todo' = todo \cup {m}
    /\ UNCHANGED got

(* A fetch hands over some messages, one after the other.                  *)
Fetch(s) ==
    /\ got' = got \o s
    /\ \A i \in 1 .. Len(s) :
          LET waiting == todo \ {s[j] : j \in 1 .. (i - 1)}
          IN  /\ s[i] \in waiting
              /\ \A k \in waiting : Before(k, s[i]) => Size[s[i]] < Size[k]
    /\ todo' = todo \ In(s)
    /\ UNCHANGED log

(* The connection is lost.                                                 *)
Break ==
    /\ todo' \in SUBSET todo
    /\ UNCHANGED <<log, got>>

Reconnect ==
    /\ got' = <<>>
    /\ todo' \in SUBSET In(log)
    /\ UNCHANGED log

Next ==
    \/ \E m \in Msgs : Accept(m)
    \/ \E n \in 1 .. Cardinality(todo) : \E s \in [1 .. n -> todo] : Fetch(s)
    \/ Break
    \/ Reconnect

Spec == Init /\ [][Next]_vars

(* Nothing is handed over twice while a connection lasts.                  *)
OnceOnly == \A i, j \in 1 .. Len(got) : got[i] = got[j] => i = j

(* What was handed over before a message that had been accepted earlier is *)
(* smaller than this message.                                              *)
OvertakenBySmaller ==
    \A i, j \in 1 .. Len(got) :
        i < j /\ Before(got[j], got[i]) => Size[got[i]] < Size[got[j]]

(* The inductive invariant: what has overtaken a waiting message is        *)
(* smaller than it.                                                        *)
IInv ==
    /\ log \in Seq(Msgs) /\ got \in Seq(Msgs)
    /\ \A i, j \in 1 .. Len(log) : log[i] = log[j] => i = j
    /\ todo \subseteq In(log) /\ In(got) \subseteq In(log)
    /\ todo \cap In(got) = {}
    /\ \A k \in todo : \A i \in 1 .. Len(got) :
          Before(k, got[i]) => Size[got[i]] < Size[k]
    /\ OnceOnly /\ OvertakenBySmaller
=============================================================================
