----------------------------- MODULE Certificates -----------------------------
(***************************************************************************)
(* How certificates get around a router: an endpoint broadcasts its own    *)
(* when it can verify it, and sends it to those who ask; a router keeps    *)
(* those of its nodes, also those it cannot verify, and answers for them.  *)
(* Identifiers are used again by other endpoints (context_impl.cpp, and    *)
(* the certificate messages in endpoint_impl.cpp and router_impl.cpp).     *)
(***************************************************************************)
EXTENDS Naturals, FiniteSets

CONSTANTS
    Endpoints,
    Router,
    IdOf,       (* endpoint: its identifier; several may have the same one, *)
                (* one after the other                                      *)
    Certified,  (* those that are configured with a certificate             *)
    Genuine,    (* whose certificate is signed by the certificate authority *)
    Nobody,
    MaxQueries  (* bound: the queries for certificates                      *)

RouterId == 0
Holders == Endpoints \cup {Router}
Ids == {IdOf[e] : e \in Endpoints} \cup {RouterId}

CertificatesAssumption ==
    /\ Router \notin Endpoints /\ Nobody \notin Holders
    /\ \A e \in Endpoints : IdOf[e] \in Nat \ {RouterId}
    /\ Certified \subseteq Endpoints /\ Genuine \subseteq Holders /\ MaxQueries \in Nat

VARIABLES
    present,  (* the endpoints that are connected                           *)
    left,     (* those that were                                            *)
    ca,       (* whose _ssl_store has the certificate of the authority      *)
    own,      (* who has its own certificate                                *)
    held,     (* holder -> id -> whose certificate: context::_remotes       *)
    keyed,    (* holder -> the ids whose public key it has                  *)
    blobs,    (* certificates under way                                     *)
    asked,    (* how many queries were made                                 *)
    told      (* <<who, whose>>: was sent the certificate by its owner when *)
              (* none for this id was under way, and was sent no older one  *)
              (* by the router                                              *)

vars == <<present, left, ca, own, held, keyed, blobs, asked, told>>

Init ==
    /\ present = {} /\ left = {} /\ own = {Router} /\ ca = {Router}
    /\ held = [h \in Holders |-> [i \in Ids |-> Nobody]]
    /\ keyed = [h \in Holders |-> {}]
    /\ blobs = {} /\ asked = 0 /\ told = {}

(* "to" is the one that takes it next, "target" the one it is meant for,   *)
(* Nobody if all.                                                          *)
Blob(cert, id, to, target) == [cert |-> cert, id |-> id, to |-> to, target |-> target]

(* verify_certificate                                                      *)
Verifies(h, cert) == h \in ca /\ cert \in Genuine

(* broadcast_certificate: to the router, which keeps it and passes it on.  *)
Broadcast(e) ==
    /\ blobs' = blobs \cup {Blob(e, IdOf[e], h, Nobody) : h \in (present \cup {Router}) \ {e}}
    /\ told' = IF \E b \in blobs : b.id = IdOf[e] THEN told
               ELSE told \cup (((present \cup {Router}) \ {e}) \X {e})

(* add_own_certificate_pem.                                                *)
AddOwn(e) == own' = own \cup {e}

(* endpoint::add_certificate_pem and add_ca_certificate_pem broadcast when *)
(* the context could verify the certificate.                               *)
AddCertificate(e) ==
    /\ e \in (present \cap Certified) \ own
    /\ AddOwn(e)
    /\ IF Verifies(e, e) THEN Broadcast(e) ELSE UNCHANGED <<blobs, told>>
    /\ UNCHANGED <<present, left, ca, held, keyed, asked>>

(* context::add_ca_certificate_pem. Without a certificate of its own the   *)
(* endpoint has nothing to broadcast.                                      *)
AddCa(e) ==
    /\ e \in present /\ e \notin ca
    /\ ca' = ca \cup {e}
    /\ IF e \in own \cap Genuine THEN Broadcast(e) ELSE UNCHANGED <<blobs, told>>
    /\ UNCHANGED <<present, left, own, held, keyed, asked>>

(* add_remote_certificate_pem: what was held before is replaced, also by   *)
(* one that cannot be verified.                                            *)
AddRemote(h, i, cert) ==
    /\ held' = [held EXCEPT ![h][i] = cert]
    /\ keyed' = [keyed EXCEPT ![h] = IF Verifies(h, cert) THEN @ \cup {i} ELSE @ \ {i}]

(* _handle_endpoint_certificate and _handle_router_certificate. A request  *)
(* to sign the nonce goes out; it has no answer, since nothing gives a     *)
(* context the private key that get_own_signature needs.                   *)
HandleCertificate(b) ==
    /\ b \in blobs /\ b.to \in present
    /\ blobs' = blobs \ {b}
    /\ AddRemote(b.to, b.id, b.cert)
    /\ UNCHANGED <<present, left, ca, own, asked, told>>

(* router::_handle_blob: the router keeps the certificates of its nodes,   *)
(* and sends a copy of one that is for an endpoint.                        *)
HandleBlob(b) ==
    /\ b \in blobs /\ b.to = Router
    /\ blobs' = (blobs \ {b}) \cup
          (IF b.target = Nobody THEN {} ELSE {Blob(b.cert, b.id, b.target, b.target)})
    /\ IF \E e \in present : IdOf[e] = b.id
       THEN AddRemote(Router, b.id, b.cert) ELSE UNCHANGED <<held, keyed>>
    /\ UNCHANGED <<present, left, ca, own, asked, told>>

(* query_certificate_of. The router answers if it holds a certificate for  *)
(* that id (_handle_endpoint_certificate_query), else the endpoint does    *)
(* (_handle_certificate_query, post_certificate) if it has one.            *)
RouterAnswers(e, i) == {Blob(held[Router][i], i, e, e)}
EndpointAnswers(e, i) ==
    {Blob(x, i, h, e) : x \in {y \in present \cap own : IdOf[y] = i}, h \in {e, Router}}

QueryCertificateOf(e, i) ==
    /\ asked < MaxQueries /\ asked' = asked + 1
    /\ e \in present /\ IdOf[e] # i /\ i # RouterId
    /\ blobs' = blobs \cup
          (IF held[Router][i] # Nobody THEN RouterAnswers(e, i) ELSE EndpointAnswers(e, i))
    /\ told' = IF held[Router][i] = Nobody THEN told
               ELSE {t \in told : ~(t[1] = e /\ IdOf[t[2]] = i /\ t[2] # held[Router][i])}
    /\ UNCHANGED <<present, left, ca, own, held, keyed>>

(* An endpoint gets its id, and asks for the certificate of the router     *)
(* (_handle_router_certificate_query).                                     *)
Join(e) ==
    /\ e \notin present \cup left
    /\ \A x \in present : IdOf[x] # IdOf[e]
    /\ present' = present \cup {e}
    /\ blobs' = blobs \cup {Blob(Router, RouterId, e, e)}
    /\ UNCHANGED <<left, ca, own, held, keyed, asked, told>>

(* It leaves; the router forgets it, but not its certificate.              *)
Leave(e) ==
    /\ e \in present
    /\ present' = present \ {e} /\ left' = left \cup {e}
    /\ blobs' = {b \in blobs : b.to # e}
    /\ told' = {t \in told : e \notin {t[1], t[2]}}
    /\ UNCHANGED <<ca, own, held, keyed, asked>>

Next ==
    \/ \E e \in Endpoints : AddCertificate(e) \/ AddCa(e) \/ Join(e) \/ Leave(e)
    \/ \E b \in blobs : HandleCertificate(b) \/ HandleBlob(b)
    \/ \E e \in Endpoints, i \in Ids : QueryCertificateOf(e, i)

Spec == Init /\ [][Next]_vars

(* A public key is held only for a certificate that was verified, however  *)
(* often certificates of one id replace each other.                        *)
KeysAreVerified ==
    \A h \in Holders : \A i \in keyed[h] : h \in ca /\ held[h][i] \in Genuine

(* Whoever was sent the certificate of an endpoint by itself, while none   *)
(* for its id was under way, holds this one and not the certificate of an  *)
(* earlier endpoint with the same id, when nothing is under way any more;  *)
(* unless it asked the router since, which had still the earlier one.      *)
CertificatesSettle ==
    \A t \in told : (\A b \in blobs : b.id # IdOf[t[2]]) => held[t[1]][IdOf[t[2]]] = t[2]
===============================================================================
