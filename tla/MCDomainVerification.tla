------------------------ MODULE MCDomainVerification ------------------------
(* An instance of DomainVerification: SES finds all of a domain's records,  *)
(* all but the MAIL FROM's, or gives up.                                    *)
EXTENDS DomainVerification

Ses(s, w) == [status |-> s, whole |-> w]
SesFew == { Ses("SUCCESS", TRUE), Ses("SUCCESS", FALSE), Ses("FAILED", FALSE) }
=============================================================================
