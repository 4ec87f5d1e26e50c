--------------------------- MODULE MCAttestation ---------------------------
(* Attestation with a strict verifier over https and a lenient one over     *)
(* http; processes in an enclave with a certificate of their own, without   *)
(* TLS behind a front or not, and of another build with another certificate; *)
(* and one outside any enclave.                                             *)
EXTENDS Attestation, TLC

CONSTANTS n1, n2, s1, s2, certA, certF, mine, other

MCCall == [c \in {n1, n2} |->
             IF c = n2 THEN [https |-> FALSE, pin |-> None, allow_simulated |-> TRUE]
             ELSE [https |-> TRUE, pin |-> mine, allow_simulated |-> FALSE]]

Enclave(build, binding, serves) ==
  [kind |-> "dcap", build |-> build, binding |-> binding, serves |-> serves]
MCConfigs == {Enclave(mine, certA, certA), Enclave(mine, None, certF), Enclave(other, None, None),
              [kind |-> "none", build |-> mine, binding |-> None, serves |-> None]}

\* A client that knows a challenge may ask for it joined with a certificate.
MCInquiries == {<<n1, certF>>}

\* Documents that say what some verifier looks for, or leave the certificate out
\* of what they commit to.
Proper == [nonce : {<<n1>>, <<n2>>}, binding : {None, certA, certF}, simulated : BOOLEAN]
Form(p, b) ==
  [nonce |-> p.nonce, binding |-> p.binding, simulated |-> p.simulated, data |-> ExpectedReportData(p.nonce, b)]
MCForms == {Form(p, p.binding) : p \in Proper} \cup {Form(p, None) : p \in Proper}

Symmetric == Permutations({s1, s2})
=============================================================================
