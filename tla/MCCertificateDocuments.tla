------------------------ MODULE MCCertificateDocuments ------------------------
EXTENDS CertificateDocuments, TLC
Symmetry == Permutations(Requests) \cup Permutations(Keys)
===============================================================================
