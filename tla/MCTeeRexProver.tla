---------------------------- MODULE MCTeeRexProver ----------------------------
(* An enclave, and a server that is none of the released code: it passes on  *)
(* the document of the enclave, or has one of its own, with a flaw, or none.  *)
EXTENDS TeeRexProver

CONSTANTS tee, odd

MCUrl == {tee, odd}
MCReleased == {tee}
MCSigningKey == {"root", "zone", "host", "other"}
MCAuthentic == {"root", "zone", "host"}
MCExpected == [i \in {0} |-> "released"]

Cert(key, by) == [key |-> key, by |-> by, current |-> TRUE]

Good == [of |-> tee, whole |-> TRUE, keyed |-> TRUE,
         cabundle |-> <<Cert("root", "root"), Cert("zone", "root")>>,
         certificate |-> Cert("host", "zone"), signer |-> "host",
         pcrs |-> [i \in {0, 1} |-> "released"]]

\* Only what is not signed by AWS, or is for another code, can carry odd's key.
Flawed ==
  { [Good EXCEPT !.whole = FALSE],
    [Good EXCEPT !.keyed = FALSE],
    [Good EXCEPT !.certificate.current = FALSE],
    [Good EXCEPT !.cabundle = <<>>],
    [Good EXCEPT !.of = odd, !.signer = "other"],
    [Good EXCEPT !.of = odd, !.cabundle = <<Cert("other", "other")>>,
                 !.certificate = Cert("other", "other"), !.signer = "other"],
    [Good EXCEPT !.of = odd, !.pcrs = [i \in {0} |-> "modified"]],
    [Good EXCEPT !.of = odd, !.pcrs = [i \in {1} |-> "released"]] }

MCDocument == {Good} \cup Flawed
MCOffer == [u \in MCUrl |-> IF u = tee THEN {Good} ELSE MCDocument \cup {None}]
=============================================================================
